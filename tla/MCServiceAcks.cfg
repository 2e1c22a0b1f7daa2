SPECIFICATION FairSpec
CONSTANTS
  urgent = urgent
  ordinary = ordinary
  direct = direct
  d1 = d1
  d2 = d2
  NoOp = NoOp
  Operation = {urgent, ordinary, direct}
  Device = {d1, d2}
  DeviceOf <- MCDeviceOf
  Urgent = {urgent}
  Contents = {}
  PairRequest = {}
  Call = {direct}
  Command = {}
  Thread = {t1}
  MaxDeliveries <- MCMaxDeliveries
INVARIANTS
  UrgentNeverWaits
  NoAckVanishes
  MessagesRepeatNothing
PROPERTIES
  ThreadsStop
CHECK_DEADLOCK FALSE

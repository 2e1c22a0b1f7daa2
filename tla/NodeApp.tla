-------------------------------- MODULE NodeApp --------------------------------
(***************************************************************************)
(* The Node.js device app, nodejs/device/src/index.ts: the run of NodeRun  *)
(* with the listener of NodeC2d, which startTestOperations adds,           *)
(* stopDeviceApp removes, and whose count of missing messages the metrics  *)
(* loop compares with its limit.                                           *)
(***************************************************************************)
EXTENDS NodeRun, NodeC2d

CONSTANT AllowedMissing   \* receiveC2dAllowedMissingMessageCount

ASSUME AppAssumption == AllowedMissing \in Nat

appVars == <<vars, c2dVars>>

AppInit == Init /\ C2dInit

\* startTestOperations starts the metrics loop and the listener together, and
\* stopDeviceApp cancels both.
Listening == Alive /\ metrics

RunStep == Next /\ UNCHANGED c2dVars

SenderStep == Send /\ UNCHANGED vars

ListenerStep == Listening /\ C2dMessage /\ UNCHANGED vars

TooManyMissing == missing > AllowedMissing

\* Mutant: the limit is only looked at when one more is missing.
OverByMore == missing > AllowedMissing + 1

OverLimit == missing > AllowedMissing

\* The metrics loop finds this limit exceeded, and perhaps others.
MissingLimit == OverLimit /\ LimitsExceeded

AppNext == RunStep \/ SenderStep \/ ListenerStep

\* Calls of the SDK return or raise, and the interval of the metrics fires.
AppSpec == AppInit /\ [][AppNext]_appVars /\ CallsReturn /\ WF_vars(MissingLimit)

-----------------------------------------------------------------------------

\* A run in which more messages are missing than allowed ends, also if it is
\* being stopped for another reason just then, so that no metrics loop is left
\* to notice (index.ts:625-631, 704-718).
TooManyMissingEndsRun == TooManyMissing ~> exit # NoExit
=============================================================================

------------------------------- MODULE Engine --------------------------------
(***************************************************************************)
(* The match engine's futures core: the requests of me_server.c (order     *)
(* open, close and cancel, position modes and principals) and everything   *)
(* they set off: matching, the plan orders a new price releases and the    *)
(* liquidations it causes.                                                 *)
(***************************************************************************)
EXTENDS Planner, Liquidation, PositionRequests

Requests ==
  \/ OpenRequest \/ CloseRequest \/ CancelRequest \/ Rejected
  \/ ModeRequest \/ PrincipalRequest

Matching == MatchStep \/ RestTaker \/ DropTaker \/ ReturnToClient

Planning == PlanStep \/ ReturnToPlanner \/ PlanAdvance

Liquidating ==
  \/ LiquidationPass \/ LiquidationCancel \/ IsolatedBlast
  \/ CrossForfeit \/ CrossBlast \/ CrossDone \/ ReturnToLiquidation

Next == Requests \/ Matching \/ Planning \/ Liquidating

Spec == Init /\ [][Next]_vars

\* The loop runs: a handler that can take a step takes it.
FairSpec == Spec /\ WF_vars(Matching \/ Planning \/ Liquidating)
==============================================================================

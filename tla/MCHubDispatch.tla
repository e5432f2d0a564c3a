--------------------------- MODULE MCHubDispatch ----------------------------
(***************************************************************************)
(* A plan of three steps over two workers: the third step waits for a      *)
(* worker, and starts while the children of answered steps may still run.  *)
(* It comes from a caller of dispatchPlan, or from a planner that was      *)
(* given one or both of two connectors and may put invalid entries among   *)
(* the steps, or answer with nothing else.                                 *)
(***************************************************************************)
EXTENDS HubGather

AnswersOfThree ==
  {<<>>, <<FALSE>>, <<TRUE, TRUE, TRUE>>, <<FALSE, TRUE, TRUE, FALSE, TRUE>>}
=============================================================================

---------------------------- MODULE StepResults -----------------------------
(***************************************************************************)
(* What dispatchPlan (src/hub/dispatch.ts) promises its caller, without a  *)
(* word about processes: every step of the plan has a slot for its result; *)
(* a slot is filled once, no step gets ahead of `Concurrency` unanswered   *)
(* ones, and from the moment the caller aborts every slot still empty can  *)
(* only be filled with ABORTED.  When the whole program exits, nothing     *)
(* more is filled.                                                         *)
(***************************************************************************)
EXTENDS Naturals, FiniteSets

CONSTANTS Steps, Concurrency, Outcome, Empty

VARIABLES results, aborted, exited

avars == <<results, aborted, exited>>

Open == {i \in 1..Steps : results[i] = Empty}

Init ==
  /\ results = [i \in 1..Steps |-> Empty]
  /\ aborted = FALSE
  /\ exited = FALSE

Settle(i) ==
  /\ ~exited
  /\ i \in Open
  /\ Cardinality({j \in Open : j < i}) < Concurrency
  /\ \E o \in Outcome :
       /\ o = "ABORTED" <=> aborted
       /\ results' = [results EXCEPT ![i] = o]
  /\ UNCHANGED <<aborted, exited>>

\* Steps under way when the caller aborts are answered there and then.
Abort ==
  /\ ~exited /\ ~aborted
  /\ aborted' = TRUE
  /\ \E S \in SUBSET Open :
       results' = [i \in 1..Steps |-> IF i \in S THEN "ABORTED" ELSE results[i]]
  /\ UNCHANGED exited

Exit ==
  /\ exited' = TRUE
  /\ UNCHANGED <<results, aborted>>

Next == (\E i \in 1..Steps : Settle(i)) \/ Abort \/ Exit

Spec == Init /\ [][Next]_avars
=============================================================================

-------------------------- MODULE HubDispatchProofs --------------------------
(***************************************************************************)
(* Proofs about HubDispatch, for every number of steps and workers: its    *)
(* invariants, that it implements StepResults, and that all this holds of  *)
(* the plans that gather dispatches too; and about the list that gather    *)
(* answers with, for every plan and every way of preparing connectors.     *)
(***************************************************************************)
EXTENDS HubGather, FiniteSetTheorems, SequenceTheorems, WellFoundedInduction, TLAPS

----------------------------------------------------------------------------
\* The invariant, in parts.

\* What the steps no worker has taken are like.
Untaken ==
  \A i \in Step : i >= next => results[i] = None /\ child[i] = "none" /\ ~killed[i]

\* What a waiting step is like: it has a child, which ParentExit would find,
\* and nobody has signalled it yet.
WaitingIsUnharmed ==
  ~exited => \A i \in Waiting : child[i] # "none" /\ i \in live /\ ~killed[i]

\* What an answered step is like: its child, if it runs still, has been
\* signalled, and ParentExit will not find it.
AnsweredIsHandled ==
  \A i \in Step : results[i] # None => i \notin live /\ (child[i] = "running" => killed[i])

\* The SIGKILL timer is only ever armed after an answer.
GraceIsLate == \A i \in Step : grace[i] => results[i] # None

\* An abort answers all that wait.
AbortAnswersAll == aborted => Waiting = {}

IInv ==
  /\ TypeOK
  /\ Untaken
  /\ WaitingIsUnharmed
  /\ AnsweredIsHandled
  /\ GraceIsLate
  /\ AbortAnswersAll
  /\ ParentExitSparesNone
  /\ EnvelopeIsWhole

----------------------------------------------------------------------------
LEMMA InitEstablishesIInv == Init => IInv
<1> SUFFICES ASSUME Init PROVE IInv
  OBVIOUS
<1>1. TypeOK
  <2>1. next \in 1..(Steps + 1)
    BY StepsIsNat DEF Init
  <2> QED BY <2>1 DEF Init, TypeOK, Output
<1>2. \A i \in Step : i >= 1
  BY StepsIsNat DEF Step
<1>3. WaitingIsUnharmed /\ AbortAnswersAll
  BY <1>2, StepsIsNat DEF Init, WaitingIsUnharmed, AbortAnswersAll, Waiting, Step
<1>4. Untaken /\ AnsweredIsHandled /\ GraceIsLate
  BY DEF Init, Untaken, AnsweredIsHandled, GraceIsLate
<1>5. ParentExitSparesNone /\ EnvelopeIsWhole
  BY NoneIsNoOutcome DEF Init, ParentExitSparesNone, EnvelopeIsWhole, Outcome
<1> QED BY <1>1, <1>3, <1>4, <1>5 DEF IInv

LEMMA StepKeepsIInv == IInv /\ [Next]_vars => IInv'
<1> SUFFICES ASSUME IInv, [Next]_vars PROVE IInv'
  OBVIOUS
<1> USE StepsIsNat, NoneIsNoOutcome
    DEF IInv, Untaken, WaitingIsUnharmed, AnsweredIsHandled, GraceIsLate,
        AbortAnswersAll, ParentExitSparesNone, EnvelopeIsWhole, Waiting
<1>0. \A i \in Step : ~(i >= next /\ i < next) /\ (i >= next \/ i < next)
  BY DEF TypeOK, Step
<1>1. ASSUME Pick PROVE IInv'
  <2>1. /\ next \in Step /\ next' = next + 1
        /\ results[next] = None /\ child[next] = "none" /\ ~killed[next]
        /\ \A i \in Step : i < next' <=> i < next \/ i = next
        /\ \A i \in Step : i >= next' => i >= next /\ i # next
    BY <1>1 DEF Pick, WorkerFree, TypeOK, Step
  <2>2. CASE Finish({next}, IF aborted THEN "ABORTED" ELSE "DISPATCH_FAILED") /\ UNCHANGED child
    <3> DEFINE o == IF aborted THEN "ABORTED" ELSE "DISPATCH_FAILED"
    <3>1. /\ o \in Outcome \ {None, "envelope"}
          /\ results' = [results EXCEPT ![next] = o]
          /\ live' = live \ {next}
      BY <2>1, <2>2 DEF Finish, TypeOK, Outcome
    <3> HIDE DEF o
    <3>2. TypeOK'
      <4>1. next' \in 1..(Steps + 1)
        BY <2>1 DEF Step
      <4>2. results' \in [Step -> Outcome \cup {None}] /\ live' \subseteq Step
        BY <2>1, <3>1 DEF TypeOK
      <4>3. UNCHANGED <<child, read, killed, sigkilled, grace, aborted, exited>>
        BY <1>1, <2>2 DEF Pick, Finish
      <4> QED BY <4>1, <4>2, <4>3 DEF TypeOK
    <3>3. Untaken' /\ WaitingIsUnharmed' /\ AbortAnswersAll'
      BY <1>1, <2>1, <2>2, <3>1 DEF Pick, TypeOK
    <3>4. AnsweredIsHandled' /\ GraceIsLate'
      BY <1>1, <2>1, <2>2, <3>1 DEF Pick, TypeOK
    <3>5. ParentExitSparesNone' /\ EnvelopeIsWhole'
      BY <1>1, <2>1, <2>2, <3>1 DEF Pick, TypeOK
    <3> QED BY <3>2, <3>3, <3>4, <3>5
  <2>3. CASE /\ ~aborted
             /\ \E c \in {"running", "stillborn"} : child' = [child EXCEPT ![next] = c]
             /\ live' = live \cup {next}
             /\ UNCHANGED results
    <3>1. PICK c \in {"running", "stillborn"} : child' = [child EXCEPT ![next] = c]
      BY <2>3
    <3>2. TypeOK'
      BY <1>1, <2>1, <2>3, <3>1 DEF Pick, TypeOK, Step
    <3>3. Untaken' /\ WaitingIsUnharmed' /\ AbortAnswersAll'
      BY <1>1, <2>1, <2>3, <3>1 DEF Pick, TypeOK
    <3>4. AnsweredIsHandled' /\ GraceIsLate'
      BY <1>1, <2>1, <2>3, <3>1 DEF Pick, TypeOK
    <3>5. ParentExitSparesNone' /\ EnvelopeIsWhole'
      BY <1>1, <2>1, <2>3, <3>1 DEF Pick, TypeOK, Outcome
    <3> QED BY <3>2, <3>3, <3>4, <3>5
  <2> QED BY <1>1, <2>2, <2>3 DEF Pick
<1>2. ASSUME NEW i \in Step, Timeout(i) PROVE IInv'
  <2>1. TypeOK'
    BY <1>2 DEF Timeout, Event, KillChild, Unreaped, Finish, TypeOK, Outcome
  <2>2. Untaken' /\ WaitingIsUnharmed' /\ AbortAnswersAll'
    BY <1>2 DEF Timeout, Event, KillChild, Unreaped, Finish, TypeOK, Outcome
  <2>3. AnsweredIsHandled' /\ GraceIsLate'
    BY <1>2 DEF Timeout, Event, KillChild, Unreaped, Finish, TypeOK, Outcome
  <2>4. ParentExitSparesNone' /\ EnvelopeIsWhole'
    BY <1>2 DEF Timeout, Event, KillChild, Unreaped, Finish, TypeOK, Outcome
  <2> QED BY <2>1, <2>2, <2>3, <2>4
<1>3. ASSUME NEW i \in Step, Data(i) PROVE IInv'
  <2>0. PICK o \in LongerThan(read[i]) :
          /\ read' = [read EXCEPT ![i] = o]
          /\ IF o = "flood"
             THEN KillChild({i}) /\ Finish({i}, "STDOUT_CAP_EXCEEDED")
             ELSE UNCHANGED <<killed, grace, results, live>>
    BY <1>3 DEF Data
  <2>4. o = "flood" => KillChild({i}) /\ Finish({i}, "STDOUT_CAP_EXCEEDED")
    BY <2>0
  <2>1. o \in Output
    BY DEF LongerThan, Output, TypeOK
  <2>2. CASE o = "flood"
    <3>0. /\ killed' = [killed EXCEPT ![i] = TRUE]
          /\ grace' = [grace EXCEPT ![i] = results[i] # None]
          /\ results' = IF results[i] = None
                        THEN [results EXCEPT ![i] = "STDOUT_CAP_EXCEEDED"] ELSE results
          /\ live' = IF results[i] = None THEN live \ {i} ELSE live
      <4>1. KillChild({i}) /\ Finish({i}, "STDOUT_CAP_EXCEEDED")
        BY <2>2, <2>4
      <4>2. killed' = [killed EXCEPT ![i] = TRUE]
        BY <1>3, <4>1 DEF Data, KillChild, Unreaped, TypeOK
      <4>3. grace' = [grace EXCEPT ![i] = results[i] # None]
        BY <4>1 DEF KillChild, TypeOK
      <4>4. live' = IF results[i] = None THEN live \ {i} ELSE live
        BY <4>1 DEF Finish
      <4>5. results' = IF results[i] = None
                       THEN [results EXCEPT ![i] = "STDOUT_CAP_EXCEEDED"] ELSE results
        BY <4>1 DEF Finish, TypeOK
      <4> QED BY <4>2, <4>3, <4>4, <4>5
    <3>1. TypeOK'
      BY <1>3, <2>0, <2>1, <3>0 DEF Data, TypeOK, Outcome
    <3>2. Untaken' /\ WaitingIsUnharmed' /\ AbortAnswersAll'
      BY <1>0, <1>3, <3>0 DEF Data, TypeOK, Outcome
    <3>3. AnsweredIsHandled' /\ GraceIsLate'
      BY <1>3, <3>0 DEF Data, TypeOK
    <3>4. ParentExitSparesNone' /\ EnvelopeIsWhole'
      BY <1>3, <2>0, <3>0 DEF Data, Event, TypeOK
    <3> QED BY <3>1, <3>2, <3>3, <3>4
  <2>3. CASE o # "flood"
    <3>1. TypeOK'
      BY <1>3, <2>0, <2>1, <2>3 DEF Data, Event, TypeOK, Outcome
    <3>2. Untaken' /\ WaitingIsUnharmed' /\ AbortAnswersAll'
      BY <1>3, <2>0, <2>1, <2>3 DEF Data, Event, TypeOK, Outcome
    <3>3. AnsweredIsHandled' /\ GraceIsLate'
      BY <1>3, <2>0, <2>1, <2>3 DEF Data, Event, TypeOK, Outcome
    <3>4. ParentExitSparesNone' /\ EnvelopeIsWhole'
      BY <1>3, <2>0, <2>1, <2>3 DEF Data, Event, TypeOK, Outcome
    <3> QED BY <3>1, <3>2, <3>3, <3>4
  <2> QED BY <2>2, <2>3
<1>4. ASSUME NEW i \in Step, SpawnError(i) PROVE IInv'
  BY <1>4 DEF SpawnError, Event, ClearGrace, Finish, TypeOK, Outcome
<1>5. ASSUME NEW i \in Step, ExitEvent(i) PROVE IInv'
  <2>1. TypeOK'
    BY <1>5 DEF ExitEvent, Event, ClearGrace, Finish, Parsed, Output, TypeOK, Outcome
  <2>2. Untaken' /\ WaitingIsUnharmed' /\ AbortAnswersAll'
    BY <1>5 DEF ExitEvent, Event, ClearGrace, Finish, Parsed, Output, TypeOK, Outcome
  <2>3. AnsweredIsHandled' /\ GraceIsLate'
    BY <1>5 DEF ExitEvent, Event, ClearGrace, Finish, Parsed, Output, TypeOK, Outcome
  <2>4. ParentExitSparesNone'
    BY <1>5 DEF ExitEvent, Event
  <2>5. EnvelopeIsWhole'
    <3>1. results[i] = None => ~killed[i]
      BY <1>5 DEF ExitEvent, Event, TypeOK, Step
    <3>2. Parsed(read[i]) = "envelope" => read[i] = "whole"
      BY DEF Parsed, Output, TypeOK
    <3> QED BY <1>5, <3>1, <3>2 DEF ExitEvent, Finish, TypeOK, Outcome
  <2> QED BY <2>1, <2>2, <2>3, <2>4, <2>5
<1>6. ASSUME NEW i \in Step, Grace(i) PROVE IInv'
  BY <1>6 DEF Grace, Event, Unreaped, TypeOK
<1>7. ASSUME NEW i \in Step, Die(i) PROVE IInv'
  BY <1>7 DEF Die, TypeOK
<1>8. ASSUME Abort PROVE IInv'
  <2>1. TypeOK'
    BY <1>8 DEF Abort, Event, KillChild, Unreaped, Finish, TypeOK, Outcome
  <2>5. Waiting' = {}
    BY <1>8 DEF Abort, Finish, Outcome
  <2>6. WaitingIsUnharmed' /\ AbortAnswersAll'
    BY <2>5
  <2>7. Untaken'
    BY <1>0, <1>8 DEF Abort, KillChild, Unreaped, Finish, TypeOK
  <2>3. AnsweredIsHandled' /\ GraceIsLate'
    BY <1>8 DEF Abort, Event, KillChild, Unreaped, Finish, TypeOK, Outcome
  <2>4. ParentExitSparesNone' /\ EnvelopeIsWhole'
    BY <1>8 DEF Abort, Event, KillChild, Unreaped, Finish, TypeOK, Outcome
  <2> QED BY <2>1, <2>3, <2>4, <2>6, <2>7
<1>9. ASSUME ParentExit PROVE IInv'
  <2>1. TypeOK'
    BY <1>9 DEF ParentExit, TypeOK
  <2>2. Untaken' /\ WaitingIsUnharmed' /\ AbortAnswersAll'
    BY <1>9 DEF ParentExit, Unreaped, TypeOK
  <2>3. AnsweredIsHandled' /\ GraceIsLate'
    BY <1>9 DEF ParentExit, TypeOK
  <2>4. ASSUME NEW i \in Step, child[i] = "running"
        PROVE  killed'[i]
    <3>1. CASE results[i] # None
      BY <1>9, <2>4, <3>1 DEF ParentExit
    <3>2. CASE results[i] = None
      <4>1. i < next
        BY <2>4, <3>2 DEF TypeOK, Step
      <4>2. i \in live
        BY <1>9, <3>2, <4>1 DEF ParentExit, Event
      <4> QED BY <1>9, <2>4, <4>2 DEF ParentExit, Unreaped
    <3> QED BY <3>1, <3>2
  <2>5. ParentExitSparesNone'
    BY <1>9, <2>4 DEF ParentExit
  <2>6. EnvelopeIsWhole'
    BY <1>9 DEF ParentExit, Unreaped, Outcome
  <2> QED BY <2>1, <2>2, <2>3, <2>5, <2>6
<1>10. ASSUME UNCHANGED vars PROVE IInv'
  BY <1>10 DEF vars, TypeOK
<1> QED
  BY <1>1, <1>2, <1>3, <1>4, <1>5, <1>6, <1>7, <1>8, <1>9, <1>10 DEF Next

LEMMA IInvHolds == Spec => []IInv
  BY InitEstablishesIInv, StepKeepsIInv, PTL DEF Spec

\* Every variable keeps its type, whatever the children and the caller do.
THEOREM TypeCorrect == Spec => []TypeOK
<1>1. IInv => TypeOK
  BY DEF IInv
<1> QED BY <1>1, IInvHolds, PTL

\* An exiting parent has signalled every child that still runs: the waiting
\* ones are all in liveChildren, the answered ones were signalled before.
THEOREM ParentExitSparesNoneHolds == Spec => []ParentExitSparesNone
<1>1. IInv => ParentExitSparesNone
  BY DEF IInv
<1> QED BY <1>1, IInvHolds, PTL

\* An envelope is the whole output of a child that ended by itself, for no
\* waiting step's child has been signalled.
THEOREM EnvelopeIsWholeHolds == Spec => []EnvelopeIsWhole
<1>1. IInv => EnvelopeIsWhole
  BY DEF IInv
<1> QED BY <1>1, IInvHolds, PTL

----------------------------------------------------------------------------
\* The refinement.  What remains is the order of the answers: a step that is
\* answered has less than Concurrency unanswered ones before it, because no
\* more than Concurrency steps wait at any time.

FewWait == IsFiniteSet(Waiting) /\ Cardinality(Waiting) <= Concurrency

LEMMA WaitingIsFinite == IsFiniteSet(Waiting) /\ Cardinality(Waiting) \in Nat
<1>1. IsFiniteSet(Step)
  BY StepsIsNat, FS_Interval DEF Step
<1>2. Waiting \in SUBSET Step
  BY DEF Waiting
<1> QED BY <1>1, <1>2, FS_Subset, FS_CardinalityType

LEMMA FewWaitAtFirst == Init => FewWait
<1> SUFFICES ASSUME Init PROVE FewWait
  OBVIOUS
<1>1. Waiting = {}
  BY StepsIsNat DEF Init, Waiting, Step
<1> QED BY <1>1, FS_EmptySet, ConcurrencyIsPositive DEF FewWait

LEMMA FewGoOnWaiting == IInv /\ FewWait /\ [Next]_vars => FewWait'
<1> SUFFICES ASSUME IInv, FewWait, [Next]_vars PROVE FewWait'
  OBVIOUS
<1>1. Waiting' \subseteq Waiting \/ (Waiting' \subseteq Waiting \cup {next} /\ WorkerFree)
  <2>1. ASSUME Pick PROVE Waiting' \subseteq Waiting \cup {next} /\ WorkerFree
    BY <2>1, StepsIsNat DEF Pick, Finish, Waiting, IInv, TypeOK, Step
  <2>2. ASSUME NEW i \in Step, Timeout(i) PROVE Waiting' \subseteq Waiting
    BY <2>2 DEF Timeout, Finish, Waiting
  <2>3. ASSUME NEW i \in Step, Data(i) PROVE Waiting' \subseteq Waiting
    BY <2>3 DEF Data, Finish, Waiting
  <2>4. ASSUME NEW i \in Step, SpawnError(i) PROVE Waiting' \subseteq Waiting
    BY <2>4 DEF SpawnError, Finish, Waiting
  <2>5. ASSUME NEW i \in Step, ExitEvent(i) PROVE Waiting' \subseteq Waiting
    BY <2>5 DEF ExitEvent, Finish, Waiting
  <2>6. ASSUME NEW i \in Step, Grace(i) \/ Die(i) PROVE Waiting' \subseteq Waiting
    BY <2>6 DEF Grace, Die, Waiting
  <2>7. ASSUME Abort PROVE Waiting' \subseteq Waiting
    BY <2>7 DEF Abort, Finish, Waiting
  <2>8. ASSUME ParentExit \/ UNCHANGED vars PROVE Waiting' \subseteq Waiting
    BY <2>8 DEF ParentExit, vars, Waiting
  <2> QED BY <2>1, <2>2, <2>3, <2>4, <2>5, <2>6, <2>7, <2>8 DEF Next
<1>2. CASE Waiting' \subseteq Waiting
  BY <1>2, WaitingIsFinite, FS_Subset, FS_CardinalityType, ConcurrencyIsPositive DEF FewWait
<1>3. CASE Waiting' \subseteq Waiting \cup {next} /\ WorkerFree
  <2>1. /\ IsFiniteSet(Waiting \cup {next})
        /\ Cardinality(Waiting \cup {next}) <= Cardinality(Waiting) + 1
        /\ Cardinality(Waiting) < Concurrency
    BY <1>3, WaitingIsFinite, FS_AddElement DEF WorkerFree
  <2>2. /\ IsFiniteSet(Waiting')
        /\ Cardinality(Waiting') <= Cardinality(Waiting \cup {next})
    BY <1>3, <2>1, FS_Subset
  <2>3. Cardinality(Waiting') \in Nat /\ Cardinality(Waiting \cup {next}) \in Nat
    BY <2>1, <2>2, FS_CardinalityType
  <2> QED BY <2>1, <2>2, <2>3, WaitingIsFinite, ConcurrencyIsPositive DEF FewWait
<1> QED BY <1>1, <1>2, <1>3

\* A first answer to a step that has few unanswered ones before it.
LEMMA AnswerSettles ==
  ASSUME IInv, ~exited, NEW i \in Step, results[i] = None,
         Cardinality({j \in Step : results[j] = None /\ j < i}) < Concurrency,
         NEW o \in Outcome, o = "ABORTED" <=> aborted,
         results' = [results EXCEPT ![i] = o], UNCHANGED <<aborted, exited>>
  PROVE  Results!Settle(i)
<1>1. {j \in Results!Open : j < i} = {j \in Step : results[j] = None /\ j < i}
  BY DEF Results!Open, Step
<1>2. Results!Cardinality({j \in Results!Open : j < i}) = Cardinality({j \in Results!Open : j < i})
  BY DEF Results!Cardinality, Cardinality
<1> QED BY <1>1, <1>2 DEF Results!Settle, Results!Open, Step

\* Of a step that waits, the unanswered ones before it are those that wait,
\* without itself.
LEMMA WaitingSettles ==
  ASSUME IInv, FewWait, NEW i \in Waiting
  PROVE  Cardinality({j \in Step : results[j] = None /\ j < i}) < Concurrency
<1> DEFINE before == {j \in Step : results[j] = None /\ j < i}
<1>1. before \in SUBSET (Waiting \ {i})
  BY StepsIsNat DEF Waiting, IInv, TypeOK, Step
<1>2. /\ IsFiniteSet(Waiting \ {i})
      /\ Cardinality(Waiting \ {i}) = Cardinality(Waiting) - 1
  BY WaitingIsFinite, FS_RemoveElement
<1>3. Cardinality(before) <= Cardinality(Waiting \ {i}) /\ Cardinality(before) \in Nat
  BY <1>1, <1>2, FS_Subset, FS_CardinalityType
<1> QED BY <1>2, <1>3, WaitingIsFinite, ConcurrencyIsPositive DEF FewWait

LEMMA StepIsResultsStep ==
  ASSUME IInv, FewWait, [Next]_vars
  PROVE  [Results!Next]_Results!avars
<1> USE StepsIsNat, NoneIsNoOutcome DEF Results!avars
<1>1. ASSUME Pick PROVE [Results!Next]_Results!avars
  <2>1. /\ next \in Step /\ results[next] = None
        /\ {j \in Step : results[j] = None /\ j < next} = Waiting
    BY <1>1 DEF Pick, WorkerFree, Waiting, IInv, TypeOK, Untaken, Step
  <2>2. Cardinality({j \in Step : results[j] = None /\ j < next}) < Concurrency
    BY <1>1, <2>1 DEF Pick, WorkerFree
  <2>3. CASE Finish({next}, IF aborted THEN "ABORTED" ELSE "DISPATCH_FAILED")
    <3> DEFINE o == IF aborted THEN "ABORTED" ELSE "DISPATCH_FAILED"
    <3>1. o \in Outcome /\ (o = "ABORTED" <=> aborted)
      BY DEF Outcome, IInv, TypeOK
    <3>2. results' = [results EXCEPT ![next] = o]
      BY <2>1, <2>3 DEF Finish, IInv, TypeOK
    <3> HIDE DEF o
    <3>3. Results!Settle(next)
      BY <1>1, <2>1, <2>2, <3>1, <3>2, AnswerSettles DEF Pick
    <3> QED BY <2>1, <3>3 DEF Results!Next, Step
  <2> QED BY <1>1, <2>3 DEF Pick
<1>2. ASSUME NEW i \in Step, NEW o \in Outcome \ {"ABORTED"}, Finish({i}, o), ~exited,
             results[i] = None => i \in Waiting, UNCHANGED <<aborted, exited>>
      PROVE  [Results!Next]_Results!avars
  <2>1. CASE results[i] # None
    <3>1. results' = results
      BY <1>2, <2>1 DEF Finish, IInv, TypeOK
    <3> QED BY <1>2, <3>1
  <2>2. CASE results[i] = None
    <3>1. ~aborted
      BY <1>2, <2>2 DEF IInv, AbortAnswersAll
    <3>2. results' = [results EXCEPT ![i] = o]
      BY <1>2, <2>2 DEF Finish, IInv, TypeOK
    <3>3. Cardinality({j \in Step : results[j] = None /\ j < i}) < Concurrency
      BY <1>2, <2>2, WaitingSettles
    <3>4. Results!Settle(i)
      BY <1>2, <2>2, <3>1, <3>2, <3>3, AnswerSettles
    <3> QED BY <1>2, <3>4 DEF Results!Next, Step
  <2> QED BY <2>1, <2>2
<1>3. ASSUME NEW i \in Step, child[i] # "none", results[i] = None PROVE i \in Waiting
  BY <1>3 DEF IInv, TypeOK, Untaken, Waiting, Step
<1>4. ASSUME NEW i \in Step, Timeout(i) PROVE [Results!Next]_Results!avars
  BY <1>2, <1>4 DEF Timeout, Event, Outcome
<1>5. ASSUME NEW i \in Step, Data(i) PROVE [Results!Next]_Results!avars
  <2>1. CASE Finish({i}, "STDOUT_CAP_EXCEEDED")
    BY <1>2, <1>3, <1>5, <2>1 DEF Data, Event, Outcome
  <2>2. CASE UNCHANGED results
    BY <1>5, <2>2 DEF Data
  <2> QED BY <1>5, <2>1, <2>2 DEF Data
<1>6. ASSUME NEW i \in Step, SpawnError(i) PROVE [Results!Next]_Results!avars
  BY <1>2, <1>3, <1>6 DEF SpawnError, Event, Outcome
<1>7. ASSUME NEW i \in Step, ExitEvent(i) PROVE [Results!Next]_Results!avars
  <2>1. Parsed(read[i]) \in Outcome \ {"ABORTED"}
    BY DEF Parsed, Outcome, IInv, TypeOK, Output
  <2> QED BY <1>2, <1>3, <1>7, <2>1 DEF ExitEvent, Event
<1>8. ASSUME NEW i \in Step, Grace(i) \/ Die(i) PROVE [Results!Next]_Results!avars
  BY <1>8 DEF Grace, Die
<1>9. ASSUME Abort PROVE [Results!Next]_Results!avars
  <2>1. Waiting \in SUBSET Results!Open
    BY DEF Waiting, Results!Open, Step
  <2>2. results' = [i \in 1..Steps |-> IF i \in Waiting THEN "ABORTED" ELSE results[i]]
    BY <1>9 DEF Abort, Finish, Waiting, Step
  <2>3. Results!Abort
    BY <1>9, <2>1, <2>2 DEF Abort, Event, Results!Abort
  <2> QED BY <2>3 DEF Results!Next
<1>10. ASSUME ParentExit PROVE [Results!Next]_Results!avars
  BY <1>10 DEF ParentExit, Results!Next, Results!Exit
<1>11. ASSUME UNCHANGED vars PROVE [Results!Next]_Results!avars
  BY <1>11 DEF vars
<1> QED
  BY <1>1, <1>4, <1>5, <1>6, <1>7, <1>8, <1>9, <1>10, <1>11 DEF Next

\* dispatchPlan keeps StepResults' promise, for any number of steps and
\* workers: its children, timers and signals show only as answers, each slot
\* filled once and in bounded disorder.
THEOREM StepResultsAreImplemented == Spec => ImplementsStepResults
<1>1. Init => Results!Init
  BY DEF Init, Results!Init, Step
<1>2. Init => FewWait
  BY FewWaitAtFirst
<1>3. IInv /\ FewWait /\ [Next]_vars => FewWait' /\ [Results!Next]_Results!avars
  BY FewGoOnWaiting, StepIsResultsStep
<1> QED BY <1>1, <1>2, <1>3, IInvHolds, PTL DEF Spec, ImplementsStepResults, Results!Spec

----------------------------------------------------------------------------
\* Whatever gather does around it, what it dispatches behaves as dispatchPlan
\* does by itself, so that everything above holds of it.
THEOREM GatherOnlyDispatches == GatherSpec => Spec
<1>1. InitGather => Init
  BY DEF InitGather
<1>2. [GatherNext]_allvars => [Next]_vars
  BY DEF GatherNext, Prepare, Plan, Dispatch, Dispatching, Resolve, Return, allvars, gvars, vars
<1> QED BY <1>1, <1>2, PTL DEF GatherSpec, Spec

----------------------------------------------------------------------------
\* The places of the entries that are steps, and of those that are not: they
\* are found by counting, and the count of a kind names its places.

LEMMA LeastOf ==
  ASSUME NEW S \in SUBSET Nat, S # {}
  PROVE  \E n \in S : \A m \in S : n <= m
<1> DEFINE Before == OpToRel(<, Nat)
<1>1. IsWellFoundedOn(Before, Nat)
  BY NatLessThanWellFounded
<1>2. \A m, n \in Nat : m < n => <<m, n>> \in Before
  BY DEF OpToRel
<1> HIDE DEF Before
<1>3. PICK n \in S : \A m \in S : ~(<<m, n>> \in Before)
  BY <1>1, WFMin, Zenon
<1>4. ASSUME NEW m \in S PROVE n <= m
  <2>1. ~(m < n)
    BY <1>2, <1>3
  <2> QED BY <2>1
<1> QED BY <1>3, <1>4

LEMMA SeenIsNat ==
  ASSUME NEW es, NEW v, NEW k \in Nat
  PROVE  /\ IsFiniteSet({j \in 1..k : es[j] = v})
         /\ Seen(es, v, k) \in Nat /\ Seen(es, v, k) <= k
<1>1. IsFiniteSet(1..k) /\ Cardinality(1..k) = k
  BY FS_Interval
<1>2. /\ IsFiniteSet({j \in 1..k : es[j] = v})
      /\ Cardinality({j \in 1..k : es[j] = v}) <= k
  BY <1>1, FS_Subset
<1> QED BY <1>2, FS_CardinalityType DEF Seen

LEMMA SeenAtFirst ==
  ASSUME NEW es, NEW v
  PROVE  Seen(es, v, 0) = 0
<1>1. {j \in 1..0 : es[j] = v} = {}
  OBVIOUS
<1> QED BY <1>1, FS_EmptySet DEF Seen

LEMMA SeenNext ==
  ASSUME NEW es, NEW v, NEW k \in Nat
  PROVE  Seen(es, v, k + 1) = IF es[k + 1] = v THEN Seen(es, v, k) + 1 ELSE Seen(es, v, k)
<1> DEFINE S == {j \in 1..k : es[j] = v}
           T == {j \in 1..(k + 1) : es[j] = v}
<1>1. IsFiniteSet(S) /\ k + 1 \notin S
  <2>1. IsFiniteSet(S)
    BY SeenIsNat
  <2>2. ~(k + 1 \in 1..k)
    OBVIOUS
  <2> QED BY <2>1, <2>2
<1>2. CASE es[k + 1] = v
  <2>1. T = S \cup {k + 1}
    BY <1>2
  <2> QED BY <1>1, <1>2, <2>1, FS_AddElement DEF Seen
<1>3. CASE es[k + 1] # v
  <2>1. T = S
    BY <1>3
  <2> QED BY <1>3, <2>1 DEF Seen
<1> QED BY <1>2, <1>3

LEMMA SeenGrows ==
  ASSUME NEW es, NEW v, NEW k \in Nat, NEW m \in Nat, k < m, es[m] = v
  PROVE  Seen(es, v, k) < Seen(es, v, m)
<1> DEFINE S == {j \in 1..k : es[j] = v}
           T == {j \in 1..m : es[j] = v}
<1>1. IsFiniteSet(S) /\ IsFiniteSet(T) /\ m \notin S
  <2>1. IsFiniteSet(S) /\ IsFiniteSet(T)
    BY SeenIsNat
  <2>2. ~(m \in 1..k)
    OBVIOUS
  <2> QED BY <2>1, <2>2
<1>2. S \cup {m} \subseteq T
  OBVIOUS
<1>3. Cardinality(S \cup {m}) = Cardinality(S) + 1 /\ Cardinality(S \cup {m}) <= Cardinality(T)
  BY <1>1, <1>2, FS_AddElement, FS_Subset
<1>4. Seen(es, v, k) = Cardinality(S) /\ Seen(es, v, m) = Cardinality(T)
  BY DEF Seen
<1>5. Seen(es, v, k) \in Nat /\ Seen(es, v, m) \in Nat
  BY SeenIsNat
<1> QED BY <1>3, <1>4, <1>5

LEMMA PlaceExists ==
  ASSUME NEW es, NEW v, NEW L \in Nat, NEW i \in 1..Seen(es, v, L)
  PROVE  \E k \in 1..L : es[k] = v /\ Seen(es, v, k) = i
<1> DEFINE S == {k \in 0..L : Seen(es, v, k) >= i}
<1>1. Seen(es, v, L) \in Nat /\ i \in Nat /\ i >= 1 /\ L \in S /\ S \in SUBSET Nat
  <2>1. Seen(es, v, L) \in Nat
    BY SeenIsNat
  <2>2. Seen(es, v, L) >= i /\ L \in 0..L
    BY <2>1
  <2> QED BY <2>1, <2>2
<1>2. PICK k \in S : \A m \in S : k <= m
  BY <1>1, LeastOf
<1>3. k # 0
  BY <1>1, <1>2, SeenAtFirst
<1>4. k - 1 \in Nat /\ k \in 1..L /\ k - 1 \in 0..L /\ k = (k - 1) + 1
  BY <1>1, <1>2, <1>3
<1>5. k - 1 \notin S
  BY <1>2, <1>4
<1>6. Seen(es, v, k) >= i /\ ~(Seen(es, v, k - 1) >= i)
  BY <1>2, <1>4, <1>5
<1>7. Seen(es, v, k) = IF es[k] = v THEN Seen(es, v, k - 1) + 1 ELSE Seen(es, v, k - 1)
  BY <1>4, SeenNext
<1>8. Seen(es, v, k - 1) \in Nat
  BY <1>4, SeenIsNat
<1> HIDE DEF S
<1>9. es[k] = v /\ Seen(es, v, k) = i
  BY <1>1, <1>6, <1>7, <1>8
<1> QED BY <1>4, <1>9

\* The i-th place of a kind, and the other way round.
CountNames(es, v) ==
  /\ DOMAIN Places(es, v) = 1..Seen(es, v, Len(es))
  /\ \A i \in 1..Seen(es, v, Len(es)) :
       /\ Places(es, v)[i] \in 1..Len(es)
       /\ es[Places(es, v)[i]] = v
       /\ Seen(es, v, Places(es, v)[i]) = i
  /\ \A k \in 1..Len(es) : es[k] = v =>
       /\ Seen(es, v, k) \in 1..Seen(es, v, Len(es))
       /\ Places(es, v)[Seen(es, v, k)] = k

LEMMA PlacesAre ==
  ASSUME NEW es, NEW v, Len(es) \in Nat
  PROVE  CountNames(es, v)
<1> DEFINE L == Len(es)
           At(i, k) == es[k] = v /\ Seen(es, v, k) = i
<1>1. ASSUME NEW i \in 1..Seen(es, v, L)
      PROVE  Places(es, v)[i] \in 1..L /\ At(i, Places(es, v)[i])
  <2>1. Places(es, v)[i] = CHOOSE k \in 1..L : At(i, k)
    BY DEF Places
  <2>2. \E k \in 1..L : At(i, k)
    BY PlaceExists
  <2> HIDE DEF At
  <2> QED BY <2>1, <2>2
<1>2. ASSUME NEW k \in 1..L, es[k] = v
      PROVE  Seen(es, v, k) \in 1..Seen(es, v, L) /\ Places(es, v)[Seen(es, v, k)] = k
  <2>1. L \in Nat /\ k \in Nat /\ Seen(es, v, k) \in Nat /\ Seen(es, v, L) \in Nat
    <3>1. L \in Nat /\ k \in Nat
      OBVIOUS
    <3> QED BY <3>1, SeenIsNat
  <2>2. Seen(es, v, k) >= 1
    <3>1. Seen(es, v, 0) < Seen(es, v, k)
      BY <1>2, SeenGrows
    <3> QED BY <2>1, <3>1, SeenAtFirst
  <2>3. Seen(es, v, k) <= Seen(es, v, L)
    <3>1. {j \in 1..k : es[j] = v} \subseteq {j \in 1..L : es[j] = v}
      BY <2>1
    <3>2. IsFiniteSet({j \in 1..L : es[j] = v})
      BY <2>1, SeenIsNat
    <3> QED BY <3>1, <3>2, FS_Subset DEF Seen
  <2>4. Seen(es, v, k) \in 1..Seen(es, v, L)
    BY <2>1, <2>2, <2>3
  <2> DEFINE m == Places(es, v)[Seen(es, v, k)]
  <2>5. m \in 1..L /\ es[m] = v /\ Seen(es, v, m) = Seen(es, v, k)
    BY <1>1, <2>4
  <2> HIDE DEF m
  <2>6. ~(m < k) /\ ~(k < m)
    BY <1>2, <2>1, <2>5, SeenGrows
  <2>7. m = k
    BY <2>5, <2>6
  <2> QED BY <2>4, <2>7 DEF m
<1> QED BY <1>1, <1>2 DEF Places, CountNames

----------------------------------------------------------------------------
\* gather's answer: what the list is made of, place by place.

Dropped == Seen(entries, FALSE, Len(entries))

ErrorsFirst == \A n \in 1..unprepared : answer[n] = Item(n, <<"connector", n>>, "unprepared")

\* The list of a planner that answered: the results of the steps come last,
\* and a result, once there, stays.
Answered ==
  /\ Len(answer) = unprepared + Dropped + Steppable(entries)
  /\ ErrorsFirst
  /\ \A i \in 1..Dropped :
       answer[unprepared + i] =
         Item(unprepared + i, <<"entry", Places(entries, FALSE)[i]>>, "PLAN_ENTRY_INVALID")
  /\ \A i \in 1..Steppable(entries) :
       /\ results[i] # None
       /\ answer[unprepared + Dropped + i] =
            Item(unprepared + Dropped + i, <<"entry", Places(entries, TRUE)[i]>>, results[i])

\* The list of one that did not.
Unplanned ==
  /\ Len(answer) = unprepared + 1
  /\ ErrorsFirst
  /\ answer[unprepared + 1] = Item(unprepared + 1, <<"planner">>, "no-plan")

GInv ==
  /\ unprepared \in Nat
  /\ entries \in Seq(BOOLEAN)
  /\ Steppable(entries) \in {0, Steps}
  /\ phase \in {"preparing", "planning"} => entries = <<>>
  /\ phase = "dispatching" => Steppable(entries) = Steps
  /\ phase = "returned" => Unplanned \/ Answered

AnyItem ==
  [step : Nat,
   of : {<<"planner">>} \cup ({"connector", "entry"} \X Nat),
   outcome : Outcome \cup {None, "unprepared", "no-plan", "PLAN_ENTRY_INVALID"}]

LEMMA PrepErrorsAre ==
  ASSUME NEW n \in Nat
  PROVE  /\ PrepErrors(n) \in Seq(AnyItem) /\ Len(PrepErrors(n)) = n
         /\ \A i \in 1..n : PrepErrors(n)[i] = Item(i, <<"connector", i>>, "unprepared")
<1> DEFINE E(i) == Item(i, <<"connector", i>>, "unprepared")
<1>1. \A i \in 1..n : E(i) \in AnyItem
  BY DEF Item, AnyItem
<1> HIDE DEF E
<1>2. [i \in 1..n |-> E(i)] \in Seq(AnyItem) /\ Len([i \in 1..n |-> E(i)]) = n
  BY <1>1
<1> QED BY <1>2 DEF PrepErrors, E

LEMMA PlannerErrorIs ==
  ASSUME unprepared \in Nat
  PROVE  PlannerError \in Seq(AnyItem) /\ Len(PlannerError) = 1
<1>1. Item(unprepared + 1, <<"planner">>, "no-plan") \in AnyItem
  BY DEF Item, AnyItem
<1> QED BY <1>1 DEF PlannerError

LEMMA PlanEntryErrorsAre ==
  ASSUME unprepared \in Nat, NEW es, Len(es) \in Nat
  PROVE  /\ PlanEntryErrors(es) \in Seq(AnyItem)
         /\ Len(PlanEntryErrors(es)) = Seen(es, FALSE, Len(es))
         /\ \A i \in 1..Seen(es, FALSE, Len(es)) :
              PlanEntryErrors(es)[i] =
                Item(unprepared + i, <<"entry", Places(es, FALSE)[i]>>, "PLAN_ENTRY_INVALID")
<1> DEFINE D == Seen(es, FALSE, Len(es))
           P == Places(es, FALSE)
           E(i) == Item(unprepared + i, <<"entry", P[i]>>, "PLAN_ENTRY_INVALID")
<1>1. D \in Nat
  BY SeenIsNat
<1>2. DOMAIN P = 1..D /\ \A i \in 1..D : P[i] \in Nat
  <2>1. DOMAIN P = 1..D /\ \A i \in 1..D : P[i] \in 1..Len(es)
    <3>1. CountNames(es, FALSE)
      BY PlacesAre
    <3> QED BY <3>1 DEF CountNames
  <2> HIDE DEF D, P
  <2> QED BY <2>1
<1>3. Len(P) = D
  BY <1>1, <1>2 DEF Places
<1> HIDE DEF D, P
<1>4. \A i \in 1..D : E(i) \in AnyItem
  BY <1>1, <1>2 DEF Item, AnyItem
<1>5. PlanEntryErrors(es) = [i \in 1..D |-> E(i)]
  BY <1>3 DEF PlanEntryErrors, P
<1> HIDE DEF E
<1>6. [i \in 1..D |-> E(i)] \in Seq(AnyItem) /\ Len([i \in 1..D |-> E(i)]) = D
  BY <1>1, <1>4
<1>7. \A i \in 1..D : PlanEntryErrors(es)[i] = E(i)
  BY <1>5
<1> QED BY <1>5, <1>6, <1>7 DEF D, P, E

LEMMA RenumberedIs ==
  ASSUME TypeOK, unprepared \in Nat, Len(entries) \in Nat, Steppable(entries) = Steps
  PROVE  /\ Renumbered \in Seq(AnyItem) /\ Len(Renumbered) = Steps
         /\ \A i \in 1..Steps :
              Renumbered[i] =
                Item(unprepared + Dropped + i, <<"entry", Places(entries, TRUE)[i]>>, results[i])
<1> DEFINE P == Places(entries, TRUE)
           E(i) == Item(unprepared + Dropped + i, <<"entry", P[i]>>, results[i])
<1>1. Dropped \in Nat /\ Steps \in Nat
  BY SeenIsNat, StepsIsNat DEF Dropped
<1>2. \A i \in 1..Steps : P[i] \in Nat /\ results[i] \in Outcome \cup {None}
  <2>1. \A i \in 1..Steps : P[i] \in 1..Len(entries)
    <3>1. CountNames(entries, TRUE)
      BY PlacesAre
    <3> QED BY <3>1 DEF CountNames, Steppable
  <2>2. \A i \in 1..Steps : results[i] \in Outcome \cup {None}
    BY DEF TypeOK, Step
  <2> HIDE DEF P
  <2> QED BY <2>1, <2>2
<1>3. Len(PlanEntryErrors(entries)) = Dropped
  BY PlanEntryErrorsAre DEF Dropped
<1> HIDE DEF P
<1>4. \A i \in 1..Steps : E(i) \in AnyItem
  BY <1>1, <1>2 DEF Item, AnyItem
<1>5. Renumbered = [i \in 1..Steps |-> E(i)]
  BY <1>3 DEF Renumbered, P, Step
<1> HIDE DEF E
<1>6. [i \in 1..Steps |-> E(i)] \in Seq(AnyItem) /\ Len([i \in 1..Steps |-> E(i)]) = Steps
  BY <1>1, <1>4
<1>7. \A i \in 1..Steps : Renumbered[i] = E(i)
  BY <1>5
<1> QED BY <1>5, <1>6, <1>7 DEF P, E

\* The lists as gather puts them together.
LEMMA ListOfThree ==
  ASSUME TypeOK, unprepared \in Nat, Len(entries) \in Nat, Steppable(entries) = Steps,
         \A i \in Step : results[i] # None,
         answer = PrepErrors(unprepared) \o PlanEntryErrors(entries) \o Renumbered
  PROVE  Answered
<1> DEFINE A == PrepErrors(unprepared)
           B == PlanEntryErrors(entries)
           C == Renumbered
           N == unprepared
           D == Dropped
<1>1. /\ A \in Seq(AnyItem) /\ Len(A) = N
      /\ \A i \in 1..N : A[i] = Item(i, <<"connector", i>>, "unprepared")
  BY PrepErrorsAre
<1>2. /\ B \in Seq(AnyItem) /\ Len(B) = D
      /\ \A i \in 1..D :
           B[i] = Item(N + i, <<"entry", Places(entries, FALSE)[i]>>, "PLAN_ENTRY_INVALID")
  BY PlanEntryErrorsAre DEF Dropped
<1>3. /\ C \in Seq(AnyItem) /\ Len(C) = Steps
      /\ \A i \in 1..Steps :
           C[i] = Item(N + D + i, <<"entry", Places(entries, TRUE)[i]>>, results[i])
  BY RenumberedIs
<1>4. N \in Nat /\ D \in Nat /\ Steps \in Nat
  BY SeenIsNat, StepsIsNat DEF Dropped
<1>5. answer = (A \o B) \o C
  OBVIOUS
<1> HIDE DEF A, B, C, N, D
<1>6. /\ A \o B \in Seq(AnyItem) /\ Len(A \o B) = N + D
      /\ \A i \in 1..(N + D) : (A \o B)[i] = IF i <= N THEN A[i] ELSE B[i - N]
  BY <1>1, <1>2, ConcatProperties
<1>7. /\ Len(answer) = N + D + Steps
      /\ \A i \in 1..(N + D + Steps) :
           answer[i] = IF i <= N + D THEN (A \o B)[i] ELSE C[i - (N + D)]
  <2>1. /\ Len((A \o B) \o C) = Len(A \o B) + Len(C)
        /\ \A i \in 1..(Len(A \o B) + Len(C)) :
             ((A \o B) \o C)[i] = IF i <= Len(A \o B) THEN (A \o B)[i] ELSE C[i - Len(A \o B)]
    BY <1>3, <1>6, ConcatProperties
  <2> QED BY <1>3, <1>5, <1>6, <2>1
<1>8. ASSUME NEW i \in 1..N PROVE answer[i] = A[i]
  <2>1. i \in 1..(N + D) /\ i \in 1..(N + D + Steps) /\ i <= N + D /\ i <= N
    BY <1>4
  <2> QED BY <1>6, <1>7, <2>1
<1>9. ASSUME NEW i \in 1..D PROVE answer[N + i] = B[i]
  <2>1. /\ N + i \in 1..(N + D) /\ N + i \in 1..(N + D + Steps) /\ N + i <= N + D
        /\ ~(N + i <= N) /\ (N + i) - N = i
    BY <1>4
  <2> QED BY <1>6, <1>7, <2>1
<1>10. ASSUME NEW i \in 1..Steps PROVE answer[N + D + i] = C[i]
  <2>1. /\ N + D + i \in 1..(N + D + Steps) /\ ~(N + D + i <= N + D)
        /\ (N + D + i) - (N + D) = i
    BY <1>4
  <2> QED BY <1>7, <2>1
<1>11. ErrorsFirst
  BY <1>1, <1>8 DEF ErrorsFirst, N
<1>12. Len(answer) = unprepared + Dropped + Steppable(entries)
  BY <1>7 DEF N, D
<1>13. \A i \in 1..Dropped :
         answer[unprepared + i] =
           Item(unprepared + i, <<"entry", Places(entries, FALSE)[i]>>, "PLAN_ENTRY_INVALID")
  BY <1>2, <1>9 DEF N, D
<1>14. \A i \in 1..Steppable(entries) :
         answer[unprepared + Dropped + i] =
           Item(unprepared + Dropped + i, <<"entry", Places(entries, TRUE)[i]>>, results[i])
  BY <1>3, <1>10 DEF N, D
<1> QED BY <1>11, <1>12, <1>13, <1>14 DEF Answered, Step

LEMMA ListOfTwo ==
  ASSUME unprepared \in Nat, Len(entries) \in Nat, Steppable(entries) = 0,
         answer = PrepErrors(unprepared) \o PlanEntryErrors(entries)
  PROVE  Answered
<1> DEFINE A == PrepErrors(unprepared)
           B == PlanEntryErrors(entries)
           N == unprepared
           D == Dropped
<1>1. /\ A \in Seq(AnyItem) /\ Len(A) = N
      /\ \A i \in 1..N : A[i] = Item(i, <<"connector", i>>, "unprepared")
  BY PrepErrorsAre
<1>2. /\ B \in Seq(AnyItem) /\ Len(B) = D
      /\ \A i \in 1..D :
           B[i] = Item(N + i, <<"entry", Places(entries, FALSE)[i]>>, "PLAN_ENTRY_INVALID")
  BY PlanEntryErrorsAre DEF Dropped
<1>3. N \in Nat /\ D \in Nat
  BY SeenIsNat DEF Dropped
<1>4. answer = A \o B
  OBVIOUS
<1> HIDE DEF A, B, N, D
<1>5. /\ Len(answer) = N + D
      /\ \A i \in 1..(N + D) : answer[i] = IF i <= N THEN A[i] ELSE B[i - N]
  <2>1. /\ Len(A \o B) = Len(A) + Len(B)
        /\ \A i \in 1..(Len(A) + Len(B)) :
             (A \o B)[i] = IF i <= Len(A) THEN A[i] ELSE B[i - Len(A)]
    BY <1>1, <1>2, ConcatProperties
  <2> QED BY <1>1, <1>2, <1>4, <2>1
<1>6. ASSUME NEW i \in 1..N PROVE answer[i] = A[i]
  <2>1. i \in 1..(N + D) /\ i <= N
    BY <1>3
  <2> QED BY <1>5, <2>1
<1>7. ASSUME NEW i \in 1..D PROVE answer[N + i] = B[i]
  <2>1. N + i \in 1..(N + D) /\ ~(N + i <= N) /\ (N + i) - N = i
    BY <1>3
  <2> QED BY <1>5, <2>1
<1>8. ErrorsFirst
  BY <1>1, <1>6 DEF ErrorsFirst, N
<1>9. \A i \in 1..Dropped :
        answer[unprepared + i] =
          Item(unprepared + i, <<"entry", Places(entries, FALSE)[i]>>, "PLAN_ENTRY_INVALID")
  BY <1>2, <1>7 DEF N, D
<1>10. Len(answer) = unprepared + Dropped + Steppable(entries)
  BY <1>3, <1>5 DEF N, D
<1>11. \A i \in 1..Steppable(entries) : FALSE
  OBVIOUS
<1> QED BY <1>8, <1>9, <1>10, <1>11 DEF Answered

LEMMA ListOfNoPlan ==
  ASSUME unprepared \in Nat, answer = PrepErrors(unprepared) \o PlannerError
  PROVE  Unplanned
<1> DEFINE A == PrepErrors(unprepared)
           N == unprepared
<1>1. /\ A \in Seq(AnyItem) /\ Len(A) = N
      /\ \A i \in 1..N : A[i] = Item(i, <<"connector", i>>, "unprepared")
  BY PrepErrorsAre
<1>2. PlannerError \in Seq(AnyItem) /\ Len(PlannerError) = 1
  BY PlannerErrorIs
<1>3. PlannerError[1] = Item(N + 1, <<"planner">>, "no-plan")
  BY DEF PlannerError
<1>4. N \in Nat /\ answer = A \o PlannerError
  OBVIOUS
<1> HIDE DEF A, N
<1>5. /\ Len(answer) = N + 1
      /\ \A i \in 1..(N + 1) : answer[i] = IF i <= N THEN A[i] ELSE PlannerError[i - N]
  <2>1. /\ Len(A \o PlannerError) = Len(A) + Len(PlannerError)
        /\ \A i \in 1..(Len(A) + Len(PlannerError)) :
             (A \o PlannerError)[i] = IF i <= Len(A) THEN A[i] ELSE PlannerError[i - Len(A)]
    BY <1>1, <1>2, ConcatProperties
  <2> QED BY <1>1, <1>2, <1>4, <2>1
<1>6. ASSUME NEW i \in 1..N PROVE answer[i] = A[i]
  <2>1. i \in 1..(N + 1) /\ i <= N
    BY <1>4
  <2> QED BY <1>5, <2>1
<1>7. answer[N + 1] = PlannerError[1]
  <2>1. N + 1 \in 1..(N + 1) /\ ~(N + 1 <= N) /\ (N + 1) - N = 1
    BY <1>4
  <2> QED BY <1>5, <2>1
<1> QED BY <1>1, <1>3, <1>5, <1>6, <1>7 DEF Unplanned, ErrorsFirst, N

LEMMA ListOfOne ==
  ASSUME unprepared \in Nat, entries = <<>>, answer = PrepErrors(unprepared)
  PROVE  Answered
<1>1. Dropped = 0 /\ Steppable(entries) = 0
  BY SeenAtFirst, EmptySeq DEF Dropped, Steppable
<1>2. Len(answer) = unprepared /\ ErrorsFirst
  BY PrepErrorsAre DEF ErrorsFirst
<1>3. Len(answer) = unprepared + Dropped + Steppable(entries)
  BY <1>1, <1>2
<1>4. 1..Dropped = {} /\ 1..Steppable(entries) = {}
  BY <1>1
<1> QED BY <1>2, <1>3, <1>4 DEF Answered

\* The three lists, together, for a state in which the call has returned.
JustReturned ==
  /\ TypeOK /\ unprepared \in Nat /\ entries \in Seq(BOOLEAN)
  /\ \/ entries = <<>> /\ answer = PrepErrors(unprepared)
     \/ answer = PrepErrors(unprepared) \o PlannerError
     \/ /\ Steppable(entries) = 0
        /\ answer = PrepErrors(unprepared) \o PlanEntryErrors(entries)
     \/ /\ Steppable(entries) = Steps
        /\ \A i \in Step : results[i] # None
        /\ answer = PrepErrors(unprepared) \o PlanEntryErrors(entries) \o Renumbered

LEMMA ListIsKnown == JustReturned => Unplanned \/ Answered
<1> SUFFICES ASSUME JustReturned PROVE Unplanned \/ Answered
  OBVIOUS
<1>1. TypeOK /\ unprepared \in Nat /\ Len(entries) \in Nat
  BY LenProperties DEF JustReturned
<1> QED BY <1>1, ListOfOne, ListOfTwo, ListOfThree, ListOfNoPlan DEF JustReturned

LEMMA ListIsKnownNext == JustReturned' => Unplanned' \/ Answered'
BY ListIsKnown, PTL

\* A step of dispatchPlan takes no answer back.
LEMMA AnswersStay ==
  ASSUME IInv, [Next]_vars, NEW i \in Step, results[i] # None
  PROVE  results'[i] = results[i]
<1>1. results \in [Step -> Outcome \cup {None}]
  BY DEF IInv, TypeOK
<1>2. ASSUME NEW S, NEW o, Finish(S, o) PROVE results'[i] = results[i]
  BY <1>2 DEF Finish
<1>3. CASE Pick
  BY <1>2, <1>3 DEF Pick
<1>4. ASSUME NEW j \in Step,
             Timeout(j) \/ Data(j) \/ SpawnError(j) \/ ExitEvent(j) \/ Grace(j) \/ Die(j)
      PROVE  results'[i] = results[i]
  BY <1>2, <1>4 DEF Timeout, Data, SpawnError, ExitEvent, Grace, Die
<1>5. CASE Abort \/ ParentExit \/ UNCHANGED vars
  BY <1>2, <1>5 DEF Abort, ParentExit, vars
<1> QED BY <1>3, <1>4, <1>5 DEF Next

LEMMA GInvAtFirst == InitGather => GInv
<1> SUFFICES ASSUME InitGather PROVE GInv
  OBVIOUS
<1>1. CASE gathered
  <2>1. entries = <<>> /\ phase = "preparing" /\ unprepared = 0
    BY <1>1 DEF InitGather
  <2>2. Steppable(entries) = 0
    BY <2>1, SeenAtFirst, EmptySeq DEF Steppable
  <2> QED BY <2>1, <2>2, EmptySeq DEF GInv
<1>2. CASE ~gathered
  <2>1. entries = [i \in 1..Steps |-> TRUE] /\ phase = "dispatching" /\ unprepared = 0
    BY <1>2 DEF InitGather, Step
  <2>2. entries \in Seq(BOOLEAN) /\ Len(entries) = Steps
    BY <2>1, StepsIsNat
  <2>3. {j \in 1..Len(entries) : entries[j] = TRUE} = 1..Steps
    BY <2>1, <2>2
  <2>4. Cardinality(1..Steps) = Steps
    <3>1. Cardinality(1..Steps) = IF 1 > Steps THEN 0 ELSE Steps - 1 + 1
      BY StepsIsNat, FS_Interval
    <3> QED BY <3>1, StepsIsNat
  <2>5. Steppable(entries) = Steps
    BY <2>3, <2>4 DEF Steppable, Seen
  <2> QED BY <2>1, <2>2, <2>5 DEF GInv
<1> QED BY <1>1, <1>2 DEF InitGather

LEMMA StepKeepsGInv == IInv /\ IInv' /\ GInv /\ [GatherNext]_allvars => GInv'
<1> SUFFICES ASSUME IInv, IInv', GInv, [GatherNext]_allvars PROVE GInv'
  OBVIOUS
<1>1. ASSUME phase' = "returned", JustReturned', Steppable(entries') \in {0, Steps}
      PROVE  GInv'
  <2>1. (Unplanned \/ Answered)'
    BY <1>1, ListIsKnownNext
  <2>2. unprepared' \in Nat /\ entries' \in Seq(BOOLEAN)
    BY <1>1 DEF JustReturned
  <2> QED BY <1>1, <2>1, <2>2 DEF GInv
<1>2. CASE Prepare
  <2>1. /\ phase = "preparing" /\ entries = <<>> /\ entries' = entries
        /\ unprepared \in Nat /\ entries' \in Seq(BOOLEAN) /\ Steppable(entries') \in {0, Steps}
    BY <1>2 DEF Prepare, GInv
  <2>2. CASE phase' = "rejected" /\ UNCHANGED <<unprepared, answer>>
    BY <2>1, <2>2 DEF GInv
  <2>3. ASSUME NEW n \in 0..Enabled, unprepared' = n,
               IF n = Enabled THEN Return(PrepErrors(n)) ELSE phase' = "planning" /\ UNCHANGED answer
        PROVE  GInv'
    <3>1. n \in Nat
      BY EnabledIsNat
    <3>2. CASE Return(PrepErrors(n))
      <4>1. phase' = "returned" /\ answer' = PrepErrors(unprepared')
        BY <2>3, <3>2 DEF Return
      <4>2. JustReturned'
        BY <2>1, <2>3, <3>1, <4>1 DEF JustReturned, IInv
      <4> QED BY <1>1, <2>1, <4>1, <4>2
    <3>3. CASE phase' = "planning"
      BY <2>1, <2>3, <3>1, <3>3 DEF GInv
    <3> QED BY <2>3, <3>2, <3>3
  <2> QED BY <1>2, <2>2, <2>3 DEF Prepare
<1>3. CASE Plan
  <2>1. /\ phase = "planning" /\ entries = <<>> /\ unprepared' = unprepared
        /\ unprepared \in Nat /\ entries \in Seq(BOOLEAN) /\ Steppable(entries) \in {0, Steps}
    BY <1>3 DEF Plan, GInv
  <2>2. CASE Return(PrepErrors(unprepared) \o PlannerError) /\ UNCHANGED entries
    <3>1. phase' = "returned" /\ answer' = PrepErrors(unprepared') \o PlannerError'
      BY <2>1, <2>2 DEF Return, PlannerError
    <3>2. JustReturned'
      BY <2>1, <2>2, <3>1 DEF JustReturned, IInv
    <3> QED BY <1>1, <2>1, <2>2, <3>1, <3>2
  <2>3. ASSUME NEW es \in Answers, entries' = es,
               IF Steppable(es) = 0
               THEN Return(PrepErrors(unprepared) \o PlanEntryErrors(es))
               ELSE phase' = "dispatching" /\ UNCHANGED answer
        PROVE  GInv'
    <3>1. entries' \in Seq(BOOLEAN) /\ Steppable(entries') \in {0, Steps}
      BY <2>3, AnswersAreEntries
    <3>2. CASE Steppable(es) = 0 /\ Return(PrepErrors(unprepared) \o PlanEntryErrors(es))
      <4>1. phase' = "returned" /\ Steppable(entries') = 0
        BY <2>3, <3>2 DEF Return
      <4>2. answer' = PrepErrors(unprepared') \o PlanEntryErrors(entries)'
        BY <2>1, <2>3, <3>2 DEF Return, PlanEntryErrors
      <4>3. JustReturned'
        BY <2>1, <3>1, <4>1, <4>2 DEF JustReturned, IInv
      <4> QED BY <1>1, <3>1, <4>1, <4>3
    <3>3. CASE Steppable(es) # 0 /\ phase' = "dispatching"
      BY <2>1, <2>3, <3>1, <3>3 DEF GInv
    <3> QED BY <2>3, <3>2, <3>3
  <2> QED BY <1>3, <2>2, <2>3 DEF Plan
<1>4. CASE Resolve
  <2>1. /\ phase = "dispatching" /\ unprepared' = unprepared /\ entries' = entries
        /\ results' = results /\ \A i \in Step : results[i] # None
        /\ unprepared \in Nat /\ entries \in Seq(BOOLEAN) /\ Steppable(entries) = Steps
    BY <1>4 DEF Resolve, GInv, vars
  <2>2. /\ phase' = "returned"
        /\ answer' = PrepErrors(unprepared) \o PlanEntryErrors(entries) \o Renumbered
    BY <1>4 DEF Resolve, Return
  <2>3. PlanEntryErrors(entries)' = PlanEntryErrors(entries) /\ Renumbered' = Renumbered
    BY <2>1 DEF PlanEntryErrors, Renumbered
  <2>4. JustReturned'
    BY <2>1, <2>2, <2>3 DEF JustReturned, IInv
  <2> QED BY <1>1, <2>1, <2>2, <2>4
<1>5. CASE Dispatch \/ UNCHANGED allvars
  <2>1. UNCHANGED gvars /\ [Next]_vars
    BY <1>5 DEF Dispatch, Dispatching, allvars
  <2>2. UNCHANGED <<phase, unprepared, entries, answer>>
    BY <2>1 DEF gvars
  <2>3. Unplanned => Unplanned'
    BY <2>2 DEF Unplanned, ErrorsFirst
  <2>4. Answered => Answered'
    <3> SUFFICES ASSUME Answered PROVE Answered'
      OBVIOUS
    <3>1. ASSUME NEW i \in 1..Steppable(entries) PROVE results[i] # None /\ results'[i] = results[i]
      <4>1. i \in Step
        BY StepsIsNat DEF Step, GInv
      <4> QED BY <2>1, <4>1, AnswersStay DEF Answered
    <3> QED BY <2>2, <3>1 DEF Answered, ErrorsFirst, Dropped
  <2> QED BY <2>2, <2>3, <2>4 DEF GInv
<1> QED BY <1>2, <1>3, <1>4, <1>5 DEF GatherNext

LEMMA GInvHolds == GatherSpec => []GInv
<1>1. GatherSpec => Spec
  BY GatherOnlyDispatches
<1> QED BY <1>1, IInvHolds, GInvAtFirst, StepKeepsGInv, PTL DEF GatherSpec

----------------------------------------------------------------------------
\* The place of a result follows from what it is the result of.

PlaceOf(of) ==
  IF of[1] = "connector" THEN of[2]
  ELSE IF entries[of[2]] = TRUE
       THEN unprepared + Dropped + Seen(entries, TRUE, of[2])
       ELSE unprepared + Seen(entries, FALSE, of[2])

LEMMA PlacesOfAnswer ==
  ASSUME GInv, Answered, NEW n \in 1..Len(answer)
  PROVE  answer[n].step = n /\ PlaceOf(answer[n].of) = n
<1> DEFINE N == unprepared
           D == Dropped
           T == Steppable(entries)
<1>1. N \in Nat /\ D \in Nat /\ T \in Nat /\ Len(entries) \in Nat
  BY SeenIsNat, LenProperties DEF GInv, Dropped, Steppable
<1>2. Len(answer) = N + D + T
  BY DEF Answered
<1>3. CASE n \in 1..N
  <2>1. answer[n] = Item(n, <<"connector", n>>, "unprepared")
    BY <1>3 DEF Answered, ErrorsFirst
  <2>2. answer[n].step = n /\ answer[n].of = <<"connector", n>>
    BY <2>1 DEF Item
  <2> QED BY <2>2 DEF PlaceOf
<1>4. ASSUME NEW i \in 1..D, n = N + i PROVE answer[n].step = n /\ PlaceOf(answer[n].of) = n
  <2> DEFINE k == Places(entries, FALSE)[i]
  <2>1. answer[n] = Item(N + i, <<"entry", k>>, "PLAN_ENTRY_INVALID")
    BY <1>4 DEF Answered
  <2>2. entries[k] = FALSE /\ Seen(entries, FALSE, k) = i
    <3>1. CountNames(entries, FALSE)
      BY <1>1, PlacesAre
    <3> QED BY <3>1 DEF CountNames, Dropped
  <2> HIDE DEF k
  <2>3. answer[n].step = n /\ answer[n].of = <<"entry", k>>
    BY <1>4, <2>1 DEF Item
  <2>4. <<"entry", k>>[1] # "connector" /\ <<"entry", k>>[2] = k
    OBVIOUS
  <2>5. PlaceOf(<<"entry", k>>) = N + Seen(entries, FALSE, k)
    BY <2>2, <2>4 DEF PlaceOf
  <2> QED BY <1>4, <2>2, <2>3, <2>5
<1>5. ASSUME NEW i \in 1..T, n = N + D + i PROVE answer[n].step = n /\ PlaceOf(answer[n].of) = n
  <2> DEFINE k == Places(entries, TRUE)[i]
  <2>1. answer[n] = Item(N + D + i, <<"entry", k>>, results[i])
    BY <1>5 DEF Answered
  <2>2. entries[k] = TRUE /\ Seen(entries, TRUE, k) = i
    <3>1. CountNames(entries, TRUE)
      BY <1>1, PlacesAre
    <3> QED BY <3>1 DEF CountNames, Steppable
  <2> HIDE DEF k
  <2>3. answer[n].step = n /\ answer[n].of = <<"entry", k>>
    BY <1>5, <2>1 DEF Item
  <2>4. <<"entry", k>>[1] # "connector" /\ <<"entry", k>>[2] = k
    OBVIOUS
  <2>5. PlaceOf(<<"entry", k>>) = N + D + Seen(entries, TRUE, k)
    BY <2>2, <2>4 DEF PlaceOf
  <2> QED BY <1>5, <2>2, <2>3, <2>5
<1> HIDE DEF N, D, T
<1>6. n \in 1..N \/ (\E i \in 1..D : n = N + i) \/ (\E i \in 1..T : n = N + D + i)
  <2>1. n \in 1..(N + D + T)
    BY <1>2
  <2>2. CASE n <= N
    BY <1>1, <2>1, <2>2
  <2>3. CASE n > N /\ n <= N + D
    <3>1. n - N \in 1..D /\ n = N + (n - N)
      BY <1>1, <2>1, <2>3
    <3> QED BY <3>1
  <2>4. CASE n > N + D
    <3>1. n - (N + D) \in 1..T /\ n = N + D + (n - (N + D))
      BY <1>1, <2>1, <2>4
    <3> QED BY <3>1
  <2> QED BY <1>1, <2>1, <2>2, <2>3, <2>4
<1> QED BY <1>3, <1>4, <1>5, <1>6

LEMMA RankOfStep ==
  ASSUME NEW es \in Seq(BOOLEAN), NEW k \in 1..Len(es)
  PROVE  Steppable(SubSeq(es, 1, k)) = Seen(es, TRUE, k)
<1>1. Len(es) \in Nat /\ k \in Nat /\ k >= 1 /\ \A i \in 1..k : es[i] \in BOOLEAN
  BY LenProperties, ElementOfSeq
<1>2. 1 \in Int /\ k \in Int
  BY <1>1
<1>3. /\ Len(SubSeq(es, 1, k)) = IF 1 <= k THEN k - 1 + 1 ELSE 0
      /\ \A i \in 1..(k - 1 + 1) : SubSeq(es, 1, k)[i] = es[1 + i - 1]
  BY <1>1, <1>2, SubSeqProperties
<1>4. Len(SubSeq(es, 1, k)) = k /\ \A i \in 1..k : SubSeq(es, 1, k)[i] = es[i]
  <2>1. k - 1 + 1 = k /\ 1 <= k /\ \A i \in 1..k : 1 + i - 1 = i
    BY <1>1
  <2> QED BY <1>3, <2>1
<1>5. {j \in 1..k : SubSeq(es, 1, k)[j] = TRUE} = {j \in 1..k : es[j] = TRUE}
  BY <1>4
<1> QED BY <1>4, <1>5 DEF Steppable, Seen

\* Whatever connectors and entries there are, the numbers of gather's answer
\* are those of its places, nothing is answered twice, and each entry has
\* either its refusal or the answer of the step made of it.
THEOREM ResultsAreTheirStepsHolds == GatherSpec => []ResultsAreTheirSteps
<1>1. GInv => ResultsAreTheirSteps
  <2> SUFFICES ASSUME GInv, phase = "returned" PROVE ResultsAreTheirSteps
    BY DEF ResultsAreTheirSteps
  <2>1. CASE Answered
    <3>1. \A n \in 1..Len(answer) : answer[n].step = n
      BY <2>1, PlacesOfAnswer
    <3>2. \A m, n \in 1..Len(answer) : answer[m].of = answer[n].of => m = n
      <4> SUFFICES ASSUME NEW m \in 1..Len(answer), NEW n \in 1..Len(answer),
                          answer[m].of = answer[n].of
                   PROVE  m = n
        OBVIOUS
      <4>1. PlaceOf(answer[m].of) = m /\ PlaceOf(answer[n].of) = n
        BY <2>1, PlacesOfAnswer
      <4> QED BY <4>1
    <3>3. ASSUME NEW k \in 1..Len(entries)
          PROVE  \E n \in 1..Len(answer) :
                   /\ answer[n].of = <<"entry", k>>
                   /\ answer[n].outcome =
                        IF entries[k]
                        THEN results[Steppable(SubSeq(entries, 1, k))]
                        ELSE "PLAN_ENTRY_INVALID"
      <4> DEFINE N == unprepared
                 D == Dropped
                 T == Steppable(entries)
      <4>1. /\ N \in Nat /\ D \in Nat /\ T \in Nat /\ Len(entries) \in Nat
            /\ Len(answer) = N + D + T
        BY <2>1, SeenIsNat, LenProperties DEF GInv, Dropped, Steppable, Answered
      <4>2. entries[k] \in BOOLEAN
        BY ElementOfSeq DEF GInv
      <4>3. CASE entries[k] = TRUE
        <5> DEFINE i == Seen(entries, TRUE, k)
        <5>1. i \in 1..T /\ Places(entries, TRUE)[i] = k
          <6>1. CountNames(entries, TRUE)
            BY <4>1, PlacesAre
          <6> QED BY <4>3, <6>1 DEF CountNames, Steppable
        <5>2. answer[N + D + i] = Item(N + D + i, <<"entry", k>>, results[i])
          BY <2>1, <5>1 DEF Answered
        <5>3. i = Steppable(SubSeq(entries, 1, k))
          BY RankOfStep DEF GInv
        <5> HIDE DEF i, N, D, T
        <5>4. N + D + i \in 1..Len(answer)
          BY <4>1, <5>1
        <5>5. answer[N + D + i].of = <<"entry", k>> /\ answer[N + D + i].outcome = results[i]
          BY <5>2 DEF Item
        <5> QED BY <4>3, <5>3, <5>4, <5>5
      <4>4. CASE entries[k] = FALSE
        <5> DEFINE i == Seen(entries, FALSE, k)
        <5>1. i \in 1..D /\ Places(entries, FALSE)[i] = k
          <6>1. CountNames(entries, FALSE)
            BY <4>1, PlacesAre
          <6> QED BY <4>4, <6>1 DEF CountNames, Dropped
        <5>2. answer[N + i] = Item(N + i, <<"entry", k>>, "PLAN_ENTRY_INVALID")
          BY <2>1, <5>1 DEF Answered
        <5> HIDE DEF i, N, D, T
        <5>3. N + i \in 1..Len(answer)
          BY <4>1, <5>1
        <5>4. answer[N + i].of = <<"entry", k>> /\ answer[N + i].outcome = "PLAN_ENTRY_INVALID"
          BY <5>2 DEF Item
        <5> QED BY <4>4, <5>3, <5>4
      <4> QED BY <4>2, <4>3, <4>4
    <3> QED BY <3>1, <3>2, <3>3 DEF ResultsAreTheirSteps
  <2>2. CASE Unplanned
    <3> DEFINE N == unprepared
    <3>1. N \in Nat /\ Len(answer) = N + 1
      BY <2>2 DEF Unplanned, GInv
    <3>2. \A n \in 1..N : answer[n].step = n /\ answer[n].of = <<"connector", n>>
      <4>1. \A n \in 1..N : answer[n] = Item(n, <<"connector", n>>, "unprepared")
        BY <2>2 DEF Unplanned, ErrorsFirst
      <4> QED
        <5> SUFFICES ASSUME NEW n \in 1..N
                     PROVE  answer[n].step = n /\ answer[n].of = <<"connector", n>>
          OBVIOUS
        <5> HIDE DEF N
        <5>1. answer[n] = Item(n, <<"connector", n>>, "unprepared")
          BY <4>1
        <5> QED BY <5>1 DEF Item
    <3>3. answer[N + 1].step = N + 1 /\ answer[N + 1].of = <<"planner">>
      BY <2>2 DEF Unplanned, Item
    <3> HIDE DEF N
    <3>4. N + 1 \in 1..Len(answer) /\ \A n \in 1..Len(answer) : n \in 1..N \/ n = N + 1
      BY <3>1
    <3>5. \A m \in 1..N : <<"connector", m>> # <<"planner">>
      <4>1. \A m \in 1..N : Len(<<"connector", m>>) = 2 /\ Len(<<"planner">>) = 1
        OBVIOUS
      <4> QED BY <4>1
    <3>6. ASSUME NEW m \in 1..N, NEW n \in 1..N, <<"connector", m>> = <<"connector", n>>
          PROVE  m = n
      BY <3>6
    <3>7. \A m, n \in 1..Len(answer) : answer[m].of = answer[n].of => m = n
      BY <3>2, <3>3, <3>4, <3>5, <3>6
    <3>8. \A n \in 1..Len(answer) : answer[n].step = n
      BY <3>2, <3>3, <3>4
    <3>9. <<"planner">> \in {answer[n].of : n \in 1..Len(answer)}
      BY <3>3, <3>4
    <3> QED BY <3>7, <3>8, <3>9 DEF ResultsAreTheirSteps
  <2> QED BY <2>1, <2>2 DEF GInv
<1> QED BY <1>1, GInvHolds, PTL

=============================================================================

------------------------------ MODULE HubGather ------------------------------
(***************************************************************************)
(* gather (src/hub/index.ts) in front of dispatchPlan: connectors are      *)
(* prepared, a planner (external, a language model) answers with a list    *)
(* of entries, the entries that make no step are put aside, the others     *)
(* dispatched, and all are answered in one numbered list.  dispatchPlan is *)
(* exported too: a caller of its own may give it a plan, and a signal to   *)
(* abort it with, which gather does not pass on.                           *)
(*                                                                         *)
(* An entry is TRUE if validatePlan makes a step of it.  The plans have    *)
(* Steps steps, or none.                                                   *)
(***************************************************************************)
EXTENDS HubDispatch, Sequences

CONSTANTS
  Enabled,  \* how many connectors the configuration enables
  Answers   \* the answers of the planner considered: what validatePlan finds
            \* in its text; no array counts as one thing that is no step

\* How many of the first k entries are, or are not, steps.
Seen(es, valid, k) == Cardinality({j \in 1..k : es[j] = valid})
Steppable(es) == Seen(es, TRUE, Len(es))

ASSUME EnabledIsNat == Enabled \in Nat
ASSUME AnswersAreEntries ==
  \A es \in Answers : es \in Seq(BOOLEAN) /\ Steppable(es) \in {0, Steps}

VARIABLES
  gathered,    \* gather is the caller of dispatchPlan
  phase,       \* how far the call is
  unprepared,  \* the connectors that could not be prepared (prepErrors)
  entries,     \* the planner's answer
  answer       \* the results returned

gvars == <<gathered, phase, unprepared, entries, answer>>
allvars == <<vars, gvars>>

InitGather ==
  /\ Init
  /\ gathered \in BOOLEAN
  /\ phase = IF gathered THEN "preparing" ELSE "dispatching"
  /\ unprepared = 0
  /\ entries = IF gathered THEN <<>> ELSE [i \in Step |-> TRUE]
  /\ answer = <<>>

----------------------------------------------------------------------------
\* The lists of results, each with the numbers its code gives it.

Item(step, of, outcome) == [step |-> step, of |-> of, outcome |-> outcome]

PrepErrors(n) == [i \in 1..n |-> Item(i, <<"connector", i>>, "unprepared")]

PlannerError == <<Item(unprepared + 1, <<"planner">>, "no-plan")>>

\* validatePlan keeps the order of what it lets through and of what it drops:
\* the i-th of its kind is where i of them have been seen.
Places(es, valid) ==
  [i \in 1..Seen(es, valid, Len(es)) |->
     CHOOSE k \in 1..Len(es) : es[k] = valid /\ Seen(es, valid, k) = i]

PlanEntryErrors(es) ==
  LET dropped == Places(es, FALSE)
  IN  [i \in 1..Len(dropped) |->
         Item(unprepared + i, <<"entry", dropped[i]>>, "PLAN_ENTRY_INVALID")]

\* A bug: the dropped entries are forgotten in the offset.
RenumberedFromErrors ==
  [i \in Step |-> Item(unprepared + i, <<"entry", Places(entries, TRUE)[i]>>, results[i])]

Renumbered ==
  LET offset == unprepared + Len(PlanEntryErrors(entries))
  IN  [i \in Step |-> Item(offset + i, <<"entry", Places(entries, TRUE)[i]>>, results[i])]

----------------------------------------------------------------------------
Return(list) ==
  /\ phase' = "returned"
  /\ answer' = list

\* The configuration is loaded, or gather rejects, and each connector is
\* prepared or not; without one prepared there is nobody to plan for.
Prepare ==
  /\ phase = "preparing"
  /\ \/ phase' = "rejected" /\ UNCHANGED <<unprepared, answer>>
     \/ \E n \in 0..Enabled :
          /\ unprepared' = n
          /\ IF n = Enabled THEN Return(PrepErrors(n))
             ELSE phase' = "planning" /\ UNCHANGED answer
  /\ UNCHANGED <<vars, gathered, entries>>

\* The planner answers, or it throws or its text holds no JSON.
Plan ==
  /\ phase = "planning"
  /\ \/ Return(PrepErrors(unprepared) \o PlannerError) /\ UNCHANGED entries
     \/ \E es \in Answers :
          /\ entries' = es
          /\ IF Steppable(es) = 0
             THEN Return(PrepErrors(unprepared) \o PlanEntryErrors(es))
             ELSE phase' = "dispatching" /\ UNCHANGED answer
  /\ UNCHANGED <<vars, gathered, unprepared>>

\* A step of dispatchPlan; the children live on after it.
Dispatching(A) ==
  /\ phase \in {"dispatching", "returned"}
  /\ entries # <<>>
  /\ A
  /\ UNCHANGED gvars

Dispatch == Dispatching(Next /\ (gathered => ~aborted'))

\* dispatchPlan resolves.
Resolve ==
  /\ phase = "dispatching" /\ ~exited
  /\ \A i \in Step : results[i] # None
  /\ Return(PrepErrors(unprepared) \o PlanEntryErrors(entries) \o Renumbered)
  /\ UNCHANGED <<vars, gathered, unprepared, entries>>

GatherNext == Prepare \/ Plan \/ Dispatch \/ Resolve

\* Node runs gather's continuations; the planner is asked for one turn.
GatherSpec ==
  /\ InitGather /\ [][GatherNext]_allvars
  /\ WF_allvars(Prepare) /\ WF_allvars(Plan) /\ WF_allvars(Resolve)
  /\ WF_allvars(Dispatching(Pick))
  /\ \A i \in Step :
       /\ WF_allvars(Dispatching(Timeout(i)))
       /\ WF_allvars(Dispatching(Grace(i)))
       /\ WF_allvars(Dispatching(sigkilled[i] /\ Die(i)))

----------------------------------------------------------------------------
\* Each connector that could not be prepared and each entry of the planner's
\* answer has one result, the numbers are those of the list's places, and an
\* entry's result is what became of it: dropped if it is no step, else the
\* answer of the step made of it, in the order of the entries.
ResultsAreTheirSteps ==
  phase = "returned" =>
    /\ \A n \in 1..Len(answer) : answer[n].step = n
    /\ \A m, n \in 1..Len(answer) : answer[m].of = answer[n].of => m = n
    /\ <<"planner">> \in {answer[n].of : n \in 1..Len(answer)} \/ unprepared = Enabled \/
       \A k \in 1..Len(entries) : \E n \in 1..Len(answer) :
         /\ answer[n].of = <<"entry", k>>
         /\ answer[n].outcome =
              IF entries[k]
              THEN results[Steppable(SubSeq(entries, 1, k))]
              ELSE "PLAN_ENTRY_INVALID"

\* Whatever the planner answers and the children do, a call returns, unless
\* the parent ends.
EveryCallReturns == <>(exited \/ phase \in {"returned", "rejected"})
=============================================================================

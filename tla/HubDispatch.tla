---------------------------- MODULE HubDispatch -----------------------------
(***************************************************************************)
(* dispatchPlan (src/hub/dispatch.ts): the steps of a plan run as child    *)
(* processes, at most `Concurrency` awaited at a time, each with a timeout *)
(* and a cap on its output, all under one AbortSignal and one set of       *)
(* parent-exit handlers.                                                   *)
(*                                                                         *)
(* Actors: the parent's event loop, which runs one handler at a time; the  *)
(* children (external), which write, die and may ignore SIGTERM; and the   *)
(* caller, who may abort, or end the parent, at any time.  The workers are *)
(* interchangeable, so they are counted, not named: one is free when fewer *)
(* than Concurrency started steps are unanswered.                          *)
(***************************************************************************)
EXTENDS Naturals, FiniteSets

CONSTANTS
  Steps,        \* plan.length
  Concurrency,  \* opts.concurrency, after Math.max(1, _)
  None

ASSUME StepsIsNat == Steps \in Nat
ASSUME ConcurrencyIsPositive == Concurrency \in Nat \ {0}

Step == 1..Steps
Outcome == {"envelope", "TIMEOUT", "ABORTED", "STDOUT_CAP_EXCEEDED", "DISPATCH_FAILED",
            "ENVELOPE_PARSE_ERROR"}
ASSUME NoneIsNoOutcome == None \notin Outcome

\* What the parent has read of a child's standard output: a beginning (or
\* garbage), a whole JSON envelope, or more than the cap.  What a child
\* writes matters only once it is read.
Output == {"nothing", "part", "whole", "flood"}
LongerThan(o) ==
  CASE o = "nothing" -> {"part", "whole", "flood"}
    [] o = "part"    -> {"whole", "flood"}
    [] o = "whole"   -> {"flood"}
    [] o = "flood"   -> {}

VARIABLES
  next,      \* the first step no worker has taken
  results,   \* the answers, each in its slot; None: not answered
  child,     \* the child process of each step
  read,      \* what the parent has read of its output (stdoutBuf, stdoutBytes)
  live,      \* liveChildren
  killed,    \* child.killed: a signal has been sent
  sigkilled, \* the signal was SIGKILL
  grace,     \* the SIGKILL timer is armed
  aborted,   \* signal.aborted
  exited     \* the parent process has gone

vars == <<next, results, child, read, live, killed, sigkilled, grace,
          aborted, exited>>

TypeOK ==
  /\ next \in 1..(Steps + 1)
  /\ results \in [Step -> Outcome \cup {None}]
  /\ child \in [Step -> {"none", "stillborn", "running", "dead", "gone"}]
  /\ read \in [Step -> Output]
  /\ live \subseteq Step
  /\ killed \in [Step -> BOOLEAN]
  /\ sigkilled \in [Step -> BOOLEAN]
  /\ grace \in [Step -> BOOLEAN]
  /\ aborted \in BOOLEAN
  /\ exited \in BOOLEAN

Init ==
  /\ next = 1
  /\ results = [i \in Step |-> None]
  /\ child = [i \in Step |-> "none"]
  /\ read = [i \in Step |-> "nothing"]
  /\ live = {}
  /\ killed = [i \in Step |-> FALSE]
  /\ sigkilled = [i \in Step |-> FALSE]
  /\ grace = [i \in Step |-> FALSE]
  /\ aborted = FALSE
  /\ exited = FALSE

----------------------------------------------------------------------------
\* The closures of runStep.

\* A bug: `settled` is not looked at.
FinishAgain(S, o) ==
  /\ results' = [i \in Step |-> IF i \in S THEN o ELSE results[i]]
  /\ live' = live \ S

\* finish: only the first answer counts; cleanup takes the child out of
\* liveChildren.
Finish(S, o) ==
  /\ results' = [i \in Step |-> IF i \in S /\ results[i] = None THEN o ELSE results[i]]
  /\ live' = live \ {i \in S : results[i] = None}

\* A process that kill() still finds: a dead one is reaped with its "exit".
Unreaped(i) == child[i] \in {"running", "dead"}

\* A bug: the child is not signalled.
KillNone(S) ==
  /\ killed' = killed
  /\ grace' = [i \in Step |-> IF i \in S THEN results[i] # None ELSE grace[i]]

\* killChild and then finish: SIGTERM is sent to a child not yet reaped, and
\* the SIGKILL timer is armed; but the cleanup of a first answer clears it.
KillChild(S) ==
  /\ killed' = [i \in Step |-> killed[i] \/ (i \in S /\ Unreaped(i))]
  /\ grace' = [i \in Step |-> IF i \in S THEN results[i] # None ELSE grace[i]]

\* Cleanup also clears the SIGKILL timer.
ClearGrace(i) == grace' = [grace EXCEPT ![i] = @ /\ results[i] # None]

----------------------------------------------------------------------------
\* The workers.  Between a step's answer and the next step's start there are
\* only microtasks, so no event comes in between.

Waiting == {i \in Step : i < next /\ results[i] = None}
WorkerFree == next <= Steps /\ Cardinality(Waiting) < Concurrency
Event == ~exited /\ ~WorkerFree

\* A bug: cancellation is not looked at before a step is started.
PickRegardless ==
  /\ ~exited /\ WorkerFree
  /\ next' = next + 1
  /\ \E c \in {"running", "stillborn"} : child' = [child EXCEPT ![next] = c]
  /\ live' = live \cup {next}
  /\ UNCHANGED <<results, read, killed, sigkilled, grace, aborted, exited>>

\* The worker's loop body up to its await.  A step is answered at once when
\* the signal is aborted, and when its connector is not prepared or its spawn
\* throws; otherwise it gets a child, which may yet turn out not to exist.
Pick ==
  /\ ~exited /\ WorkerFree
  /\ next' = next + 1
  /\ \/ /\ Finish({next}, IF aborted THEN "ABORTED" ELSE "DISPATCH_FAILED")
        /\ UNCHANGED child
     \/ /\ ~aborted
        /\ \E c \in {"running", "stillborn"} : child' = [child EXCEPT ![next] = c]
        /\ live' = live \cup {next}
        /\ UNCHANGED results
  /\ UNCHANGED <<read, killed, sigkilled, grace, aborted, exited>>

----------------------------------------------------------------------------
\* The parent's event handlers.

\* A bug: the timer is cleared by the first output.
TimeoutOfSilent(i) ==
  /\ Event
  /\ i \in Waiting /\ read[i] = "nothing"
  /\ KillChild({i})
  /\ Finish({i}, "TIMEOUT")
  /\ UNCHANGED <<next, child, read, sigkilled, aborted, exited>>

\* setTimeout(timeoutMs), which cleanup clears.
Timeout(i) ==
  /\ Event
  /\ i \in Waiting
  /\ KillChild({i})
  /\ Finish({i}, "TIMEOUT")
  /\ UNCHANGED <<next, child, read, sigkilled, aborted, exited>>

\* child.stdout "data": a listener that answering the step does not remove.
\* (What is read after "exit" has no effect.)
Data(i) ==
  /\ Event
  /\ child[i] \in {"running", "dead"}
  /\ \E o \in LongerThan(read[i]) :
       /\ read' = [read EXCEPT ![i] = o]
       /\ IF o = "flood"
          THEN KillChild({i}) /\ Finish({i}, "STDOUT_CAP_EXCEEDED")
          ELSE UNCHANGED <<killed, grace, results, live>>
  /\ UNCHANGED <<next, child, sigkilled, aborted, exited>>

\* child "error": there never was a process.
SpawnError(i) ==
  /\ Event
  /\ child[i] = "stillborn"
  /\ child' = [child EXCEPT ![i] = "gone"]
  /\ Finish({i}, "DISPATCH_FAILED")
  /\ ClearGrace(i)
  /\ UNCHANGED <<next, read, killed, sigkilled, aborted, exited>>

Parsed(o) ==
  CASE o = "nothing" -> "DISPATCH_FAILED"
    [] o = "whole"   -> "envelope"
    [] OTHER         -> "ENVELOPE_PARSE_ERROR"

\* child "exit": judged by what has been read so far; the rest is lost.
ExitEvent(i) ==
  /\ Event
  /\ child[i] = "dead"
  /\ child' = [child EXCEPT ![i] = "gone"]
  /\ Finish({i}, Parsed(read[i]))
  /\ ClearGrace(i)
  /\ UNCHANGED <<next, read, killed, sigkilled, aborted, exited>>

\* The SIGKILL timer, where something left it armed.
Grace(i) ==
  /\ Event
  /\ grace[i]
  /\ grace' = [grace EXCEPT ![i] = FALSE]
  /\ sigkilled' = [sigkilled EXCEPT ![i] = @ \/ (~killed[i] /\ Unreaped(i))]
  /\ killed' = [killed EXCEPT ![i] = @ \/ Unreaped(i)]
  /\ UNCHANGED <<next, results, child, read, live, aborted, exited>>

\* The caller aborts: the listeners of all waiting steps run in one go.
Abort ==
  /\ Event
  /\ ~aborted
  /\ aborted' = TRUE
  /\ KillChild(Waiting)
  /\ Finish(Waiting, "ABORTED")
  /\ UNCHANGED <<next, child, read, sigkilled, exited>>

\* SIGINT, SIGTERM or the end of the parent: teardown.
ParentExit ==
  /\ Event
  /\ exited' = TRUE
  /\ killed' = [i \in Step |-> killed[i] \/ (i \in live /\ Unreaped(i))]
  /\ live' = {}
  /\ UNCHANGED <<next, results, child, read, sigkilled, grace, aborted>>

----------------------------------------------------------------------------
\* The children.

Die(i) ==
  /\ child[i] = "running"
  /\ child' = [child EXCEPT ![i] = "dead"]
  /\ UNCHANGED <<next, results, read, live, killed, sigkilled, grace,
                 aborted, exited>>

Next ==
  \/ Pick
  \/ \E i \in Step :
       \/ Timeout(i) \/ Data(i) \/ SpawnError(i) \/ ExitEvent(i) \/ Grace(i)
       \/ Die(i)
  \/ Abort
  \/ ParentExit

\* Node runs its microtasks and its timers.  A child owes nobody anything:
\* only SIGKILL is sure to end it.
Fairness ==
  /\ WF_vars(Pick)
  /\ \A i \in Step :
       /\ WF_vars(Timeout(i))
       /\ WF_vars(Grace(i))
       /\ WF_vars(sigkilled[i] /\ Die(i))

Spec == Init /\ [][Next]_vars
FairSpec == Spec /\ Fairness

----------------------------------------------------------------------------
\* Properties.

Results == INSTANCE StepResults WITH Empty <- None

\* dispatchPlan keeps the promise of StepResults: exits, timeouts, floods of
\* output and aborts may race, but a slot is filled once, in bounded
\* disorder, and after an abort with ABORTED only.
ImplementsStepResults == Results!Spec

\* No child outlives an exiting parent unasked: one that still runs then has
\* been signalled, be its step answered (and so out of liveChildren) or not.
ParentExitSparesNone ==
  exited => \A i \in Step : child[i] = "running" => killed[i]

\* An envelope comes, whole, from a child that is gone and was not killed: it is
\* never the leavings of one that was timed out, aborted or capped.  Its exit
\* code is not looked at.
EnvelopeIsWhole ==
  \A i \in Step : results[i] = "envelope" =>
    child[i] = "gone" /\ read[i] = "whole" /\ ~killed[i]

\* "SIGTERM then SIGKILL after grace": a child that was timed out ends.
HungChildIsKilled ==
  \A i \in Step : results[i] = "TIMEOUT" ~> exited \/ child[i] # "running"

\* "Maximum number of concurrent connector subprocesses."  It does not hold: a
\* worker goes on when its step is answered, before its child has ended.
ChildrenAreBounded == Cardinality({i \in Step : child[i] = "running"}) <= Concurrency

=============================================================================

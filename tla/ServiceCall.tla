---------------------------- MODULE ServiceCall -----------------------------
(***************************************************************************)
(* One call of a service connector's action from the policy gate to its    *)
(* answer: the requests of its script in order, each sent through the      *)
(* retry loop of HttpClient.request, and the service (external), which may *)
(* do what it is asked and fail to say so, or do it after the client has   *)
(* given up on the attempt.  The gate is PolicyGate's; the throttle and    *)
(* the delays between the attempts are HttpClient's and left out here.     *)
(***************************************************************************)
EXTENDS PolicyGate, ServiceTerms

CONSTANTS
  Actions,      \* the labelled actions considered
  FloorOf,      \* the floor aspects each connector declares
  MaxAttempts,  \* HttpClient's maxAttempts
  None

ASSUME AttemptsArePositive == MaxAttempts \in Nat \ {0}
ASSUME ActionsAreScripts ==
  \A a \in Actions : /\ a.class \in Classification
                     /\ a.script \in Seq(Request) /\ a.script # <<>>

VARIABLES
  rules,    \* the rules in force
  call,     \* the action called
  asked,    \* what its arguments ask of the service, None for a read
  pc,       \* where the call is
  step,     \* the request of the script it is at
  attempt,  \* the attempts made at that request
  reply,    \* the answer on its way back to the client
  strays,   \* given-up attempts the service may still see
  done,     \* how often the service has done what was asked
  result    \* what the call returned

vars == <<rules, call, asked, pc, step, attempt, reply, strays, done, result>>
service == <<strays, done>>

Replies == {"done", "undone", "refused", "failed", "garbled"}
Results == {"success", "escalate", "denied", "refused", "rejected", "unavailable"}

ASSUME NoneIsNothing == None \notin Replies \cup Results \cup Effect

Asks(a) == UNION {a.script[i].effects : i \in DOMAIN a.script}

TypeOK ==
  /\ rules \in Rules
  /\ call \in Actions
  /\ asked \in Asks(call) \cup {None}
  /\ pc \in {"gate", "ready", "waiting", "returned"}
  /\ step \in 0..Len(call.script)
  /\ attempt \in 0..MaxAttempts
  /\ reply \in Replies \cup {None}
  /\ strays \in Nat
  /\ done \in Nat
  /\ result \in Results \cup {None}

\* Any rules the operator can have in force, and any call.
Init ==
  /\ call \in Actions
  /\ rules \in {r \in Rules : \A x \in FloorOf[call.connector] : r.aspects[x] # "success"}
  /\ asked \in IF Asks(call) = {} THEN {None} ELSE Asks(call)
  /\ pc = "gate"
  /\ step = 0
  /\ attempt = 0
  /\ reply = None
  /\ strays = 0
  /\ done = 0
  /\ result = None

----------------------------------------------------------------------------
request == call.script[step]
mutating == request.effects # {}

Return(r) ==
  /\ pc' = "returned"
  /\ result' = r

\* createConnector: the gate, under approval mode auto.
Decision == CheckPolicy(call.class, rules, "auto", FALSE, FALSE)

Refuse ==
  /\ pc = "gate" /\ Decision # "success"
  /\ Return(Decision)
  /\ UNCHANGED <<rules, call, asked, step, attempt, reply, service>>

\* The handler starts; it may reject the arguments by itself.
Approve ==
  /\ pc = "gate" /\ Decision = "success"
  /\ \/ /\ pc' = "ready"
        /\ step' = 1
        /\ UNCHANGED result
     \/ /\ Return("rejected")
        /\ UNCHANGED step
  /\ UNCHANGED <<rules, call, asked, attempt, reply, service>>

Send ==
  /\ pc = "ready"
  /\ pc' = "waiting"
  /\ attempt' = attempt + 1
  /\ UNCHANGED <<rules, call, asked, step, reply, service, result>>

\* The service acts on the attempt and answers: it does what it is asked
\* ("garbled": and its answer cannot be read), it refuses (4xx), it fails
\* (5xx, 429) before or after doing it, or it says in a 2xx that nothing was
\* done, as GraphQL does.
Serve ==
  /\ pc = "waiting" /\ reply = None
  /\ \E r \in Replies :
       /\ r = "undone" => request.graphql
       /\ reply' = r
       /\ done' \in IF ~mutating THEN {done}
                    ELSE CASE r \in {"done", "garbled"}   -> {done + 1}
                           [] r = "failed"                -> {done, done + 1}
                           [] r \in {"refused", "undone"} -> {done}
  /\ UNCHANGED <<rules, call, asked, pc, step, attempt, strays, result>>

\* A bug: a handler that does not look at `success`.
ReceiveUnchecked ==
  /\ pc = "waiting" /\ reply \in {"done", "undone"}
  /\ IF step < Len(call.script)
     THEN /\ pc' = "ready" /\ step' = step + 1 /\ attempt' = 0
          /\ UNCHANGED result
     ELSE /\ Return("success")
          /\ UNCHANGED <<step, attempt>>
  /\ reply' = None
  /\ UNCHANGED <<rules, call, asked, service>>

\* A 2xx that can be read: the handler goes on to its next request or returns
\* what it was told, unless it finds something missing.
Receive ==
  /\ pc = "waiting" /\ reply \in {"done", "undone"}
  /\ \/ /\ reply = "done" /\ step < Len(call.script)
        /\ pc' = "ready" /\ step' = step + 1 /\ attempt' = 0
        /\ UNCHANGED result
     \/ /\ reply = "done" /\ step = Len(call.script)
        /\ Return("success")
        /\ UNCHANGED <<step, attempt>>
     \/ /\ reply = "undone" \/ request.checked
        /\ Return("rejected")
        /\ UNCHANGED <<step, attempt>>
  /\ reply' = None
  /\ UNCHANGED <<rules, call, asked, service>>

\* throwIfHttpError: a 4xx ends the call.
Refused ==
  /\ pc = "waiting" /\ reply = "refused"
  /\ Return("refused")
  /\ reply' = None
  /\ UNCHANGED <<rules, call, asked, step, attempt, service>>

\* A bug: the first attempt is not counted.
AgainOnceMore ==
  /\ IF request.retried /\ attempt <= MaxAttempts
     THEN pc' = "ready" /\ UNCHANGED result
     ELSE Return("unavailable")
  /\ UNCHANGED attempt

\* The attempt failed in a way that may pass: try again, or give up.
Again ==
  /\ IF request.retried /\ attempt < MaxAttempts
     THEN pc' = "ready" /\ UNCHANGED result
     ELSE Return("unavailable")
  /\ UNCHANGED attempt

\* A bug: a 2xx that cannot be read is reported like a refusal.
FailedAsRefused ==
  /\ pc = "waiting" /\ reply \in {"failed", "garbled"}
  /\ IF reply = "garbled" THEN Return("refused") /\ UNCHANGED attempt ELSE Again
  /\ reply' = None
  /\ UNCHANGED <<rules, call, asked, step, service>>

\* A 5xx, a 429, or an answer that cannot be read.
Failed ==
  /\ pc = "waiting" /\ reply \in {"failed", "garbled"}
  /\ Again
  /\ reply' = None
  /\ UNCHANGED <<rules, call, asked, step, service>>

\* A bug: the timer of the first attempt is not armed again for the others.
GiveUpFirst ==
  /\ pc = "waiting" /\ attempt = 1
  /\ Again
  /\ reply' = None
  /\ strays' \in IF reply = None /\ mutating THEN {strays, strays + 1} ELSE {strays}
  /\ UNCHANGED <<rules, call, asked, step, done>>

\* The timer fires or the connection breaks: an answer on its way is lost, and
\* a request on its way may still arrive.
GiveUpAttempt ==
  /\ pc = "waiting"
  /\ Again
  /\ reply' = None
  /\ strays' \in IF reply = None /\ mutating THEN {strays, strays + 1} ELSE {strays}
  /\ UNCHANGED <<rules, call, asked, step, done>>

\* The service does what an attempt that was given up asks, or refuses it.
StrayArrives ==
  /\ strays > 0
  /\ strays' = strays - 1
  /\ done' \in {done, done + 1}
  /\ UNCHANGED <<rules, call, asked, pc, step, attempt, reply, result>>

Next ==
  \/ Refuse \/ Approve
  \/ Send \/ Serve \/ Receive \/ Refused \/ Failed \/ GiveUpAttempt
  \/ StrayArrives

\* Node runs the continuations and the timers; the service owes us nothing.
Fairness ==
  /\ WF_vars(Refuse) /\ WF_vars(Approve)
  /\ WF_vars(Send) /\ WF_vars(Receive) /\ WF_vars(Refused) /\ WF_vars(Failed)
  /\ WF_vars(GiveUpAttempt)

Spec == Init /\ [][Next]_vars
FairSpec == Spec /\ Fairness

----------------------------------------------------------------------------
\* Properties.

\* What the README makes of an effect: "a delete is a `write` carrying a
\* `delete` aspect", and merging is for administrators.
NaturalClass(e) ==
  [kind |-> IF e = "merge" THEN "admin" ELSE "write",
   aspects |-> IF e = "remove" THEN {"delete"} ELSE {}]

\* The rules would let a call through that is declared as doing just this.
Permits(e) == CombinedRule(NaturalClass(e), rules) = "success"

\* "A delete carries a `delete` aspect": whatever the arguments, nothing is
\* changed on a service, by a call or by one of its attempts that arrives
\* after the answer, that the rules would not let a call declared as doing
\* just that change.  Two of Notion's updates break this.
OnlyPermittedEffects == done + strays > 0 => Permits(asked)

\* The same but for them: reads leave no trace, merges are for administrators,
\* and where deletes are not permitted nothing is removed under another name
\* than that of an update, whose arguments may archive what it updates, and
\* then only where updates are permitted.
EffectsArePermitted ==
  done + strays > 0 =>
    \/ Permits(asked)
    \/ asked = "remove" /\ "change" \in Asks(call) /\ Permits("change")

\* A write reported as a success has been done, whatever was lost, repeated
\* or answered with a 2xx on the way.
SuccessMeansDone == result = "success" /\ asked # None => done > 0

\* The service never does more than it was sent, and without a retry it does
\* it exactly once for a success and not at all for a refusal, for good.
OneAttemptIsExact ==
  /\ done + strays <= attempt
  /\ pc = "returned" /\ attempt = 1 /\ asked # None =>
       /\ result = "success" => done = 1 /\ strays = 0
       /\ result = "refused" => done = 0 /\ strays = 0

\* Every call that has been through the gate returns, however the service behaves.
EveryCallReturns == pc # "gate" ~> pc = "returned"

=============================================================================

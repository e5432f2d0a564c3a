-------------------------- MODULE ServiceCallProofs --------------------------
(***************************************************************************)
(* Proofs about ServiceCall, for every table of actions, every rules an    *)
(* operator may have in force and every number of attempts; and about      *)
(* Listing, for lists, limits and pages of any size.                       *)
(***************************************************************************)
EXTENDS ServiceCall, Listing, PolicyGateProofs, SequenceTheorems, TLAPS

\* An action declares what its arguments can make it do: it is for
\* administrators, or of the kind of each of its effects, and carries the
\* aspects of each unless it is an update.
EffectsAreDeclared ==
  \A a \in Actions : \A e \in Asks(a) :
    \/ a.class.kind = "admin"
    \/ /\ a.class.kind = NaturalClass(e).kind
       /\ NaturalClass(e).aspects \subseteq a.class.aspects \/ "change" \in Asks(a)

\* A script changes something with its last request only.
EffectsComeLast ==
  \A a \in Actions : \A i \in DOMAIN a.script :
    a.script[i].effects # {} => i = Len(a.script)

----------------------------------------------------------------------------
\* The invariant, in parts.

Placed ==
  /\ pc \in {"ready", "waiting"} => step \in 1..Len(call.script)
  /\ pc = "gate" => step = 0 /\ attempt = 0
  /\ pc = "ready" => attempt < MaxAttempts
  /\ pc = "waiting" => attempt > 0
  /\ reply # None => pc = "waiting"
  /\ result # None => pc = "returned"

\* Past the gate with permission, for something to do if something was done.
Permitted ==
  /\ step > 0 => Decision = "success"
  /\ done + strays > 0 => step > 0 /\ Asks(call) # {}
  /\ asked = None => Asks(call) = {}

\* What the script has behind it is done.
Passed ==
  /\ \A i \in DOMAIN call.script :
       i < step \/ result = "success" => call.script[i].effects = {} \/ done > 0
  /\ reply = "done" => request.effects = {} \/ done > 0

IInv == TypeOK /\ Placed /\ Permitted /\ Passed

\* Done and still to be done are no more than was sent; and less, while the
\* attempt under way, or the last one, has had no effect.
Counted ==
  /\ done + strays <= attempt
  /\ pc = "waiting" /\ reply \in {None, "refused", "undone"} => done + strays < attempt
  /\ result = "refused" => done + strays < attempt

\* The request that changes something is the last one.
AtTheLast == done + strays > 0 => step = Len(call.script)

CInv == Counted /\ AtTheLast

----------------------------------------------------------------------------
LEMMA RequestIsTyped ==
  ASSUME TypeOK, NEW i \in DOMAIN call.script
  PROVE  /\ call.script[i] \in Request
         /\ call.script[i].effects \subseteq Asks(call)
<1>1. call \in Actions /\ call.script \in Seq(Request)
  BY ActionsAreScripts DEF TypeOK
<1> QED BY <1>1 DEF Asks

LEMMA ScriptHasLength ==
  ASSUME TypeOK
  PROVE  /\ Len(call.script) \in Nat \ {0}
         /\ DOMAIN call.script = 1..Len(call.script)
<1>1. call \in Actions
  BY DEF TypeOK
<1> QED BY <1>1, ActionsAreScripts

LEMMA InitEstablishesIInv == Init => IInv /\ CInv
<1> SUFFICES ASSUME Init PROVE IInv /\ CInv
  OBVIOUS
<1>1. TypeOK
  <2>1. Len(call.script) \in Nat
    BY ActionsAreScripts DEF Init
  <2> QED BY <2>1, AttemptsArePositive DEF Init, TypeOK
<1>2. Placed
  BY DEF Init, Placed
<1>3. Permitted
  <2>1. asked = None => Asks(call) = {}
    <3>1. \A e \in Asks(call) : e \in Effect
      <4>1. \A i \in DOMAIN call.script : call.script[i].effects \subseteq Effect
        BY <1>1, RequestIsTyped DEF Request
      <4> QED BY <4>1 DEF Asks
    <3> QED BY <3>1, NoneIsNothing DEF Init
  <2> QED BY <2>1 DEF Init, Permitted
<1>4. Passed
  BY <1>1, ScriptHasLength, NoneIsNothing DEF Init, Passed, Results, Replies
<1>5. CInv
  BY NoneIsNothing DEF Init, CInv, Counted, AtTheLast, Results
<1> QED BY <1>1, <1>2, <1>3, <1>4, <1>5 DEF IInv

----------------------------------------------------------------------------
\* The steps, but those of the gate.  Those that leave rules, call and asked
\* alone keep the decision and the script.
LEMMA PermittedIsKept ==
  ASSUME Permitted, UNCHANGED <<rules, call, asked>>,
         step' > 0 => step > 0 \/ Decision = "success",
         step > 0 => step' > 0,
         done' + strays' > 0 => done + strays > 0 \/ (step > 0 /\ Asks(call) # {})
  PROVE  Permitted'
<1>1. (step > 0 => Decision = "success")'
  BY DEF Permitted, Decision
<1>2. (done + strays > 0 => step > 0 /\ Asks(call) # {})'
  BY DEF Permitted
<1>3. (asked = None => Asks(call) = {})'
  BY DEF Permitted
<1> QED BY <1>1, <1>2, <1>3 DEF Permitted

LEMMA StepKeepsIInv == IInv /\ [Next]_vars => IInv'
<1> SUFFICES ASSUME IInv, [Next]_vars PROVE IInv'
  OBVIOUS
<1> USE DEF IInv
<1>0. /\ Len(call.script) \in Nat \ {0}
      /\ DOMAIN call.script = 1..Len(call.script)
  BY ScriptHasLength
<1>1. ASSUME Refuse PROVE IInv'
  <2>1. Decision \in Rule
    <3>1. call.class \in Classification /\ rules \in Rules
      BY ActionsAreScripts DEF TypeOK
    <3> QED BY <3>1, GateIsStrict DEF Decision, ApprovalMode
  <2>2. result' \in Results
    BY <1>1, <2>1 DEF Refuse, Return, Results, Rule
  <2>3. TypeOK'
    BY <1>1, <2>2 DEF Refuse, Return, TypeOK, service
  <2>4. Placed' /\ Permitted'
    BY <1>1, <2>2, NoneIsNothing, PermittedIsKept DEF Refuse, Return, Placed, service
  <2>5. Passed'
    BY <1>1, <2>2 DEF Refuse, Return, Passed, service, request
  <2> QED BY <2>3, <2>4, <2>5
<1>2. ASSUME Approve PROVE IInv'
  <2>4. step' \in 0..Len(call.script) /\ (pc' = "ready" => step' \in 1..Len(call.script))
    BY <1>0, <1>2 DEF Approve, Return, TypeOK
  <2>1. TypeOK' /\ Placed'
    BY <1>2, <2>4, AttemptsArePositive, NoneIsNothing
    DEF Approve, Return, TypeOK, Placed, service, Results
  <2>3. Permitted'
    BY <1>0, <1>2, PermittedIsKept DEF Approve, Return, service, TypeOK, Placed
  <2>2. Passed'
    BY <1>0, <1>2, NoneIsNothing DEF Approve, Return, Passed, service, request, Placed, Replies
  <2> QED BY <2>1, <2>2, <2>3
<1>3. ASSUME Send PROVE IInv'
  <2>1. TypeOK' /\ Placed'
    BY <1>3, AttemptsArePositive DEF Send, TypeOK, Placed, service
  <2>3. Permitted'
    BY <1>0, <1>3, PermittedIsKept DEF Send, Return, service, TypeOK, Placed
  <2>2. Passed'
    BY <1>3 DEF Send, Passed, service, request
  <2> QED BY <2>1, <2>2, <2>3
<1>4. ASSUME Serve PROVE IInv'
  <2>1. PICK r \in Replies :
          /\ reply' = r
          /\ done' \in IF ~mutating THEN {done}
                       ELSE CASE r \in {"done", "garbled"}   -> {done + 1}
                              [] r = "failed"                -> {done, done + 1}
                              [] r \in {"refused", "undone"} -> {done}
    BY <1>4 DEF Serve
  <2>2. /\ done' \in {done, done + 1}
        /\ mutating /\ r = "done" => done' = done + 1
        /\ ~mutating => done' = done
    BY <2>1 DEF Replies
  <2>3. done' \in Nat /\ done' >= done /\ (mutating /\ r = "done" => done' > 0)
    BY <2>2 DEF TypeOK
  <2>4. TypeOK' /\ Placed'
    BY <1>4, <2>1, <2>3 DEF Serve, TypeOK, Placed
  <2>5. mutating => Asks(call) # {}
    BY <1>0, <1>4, RequestIsTyped DEF Serve, Placed, mutating, request
  <2>6. Permitted'
    BY <1>0, <1>4, <2>2, <2>5, PermittedIsKept DEF Serve, Placed, TypeOK
  <2>7. Passed'
    BY <1>4, <2>1, <2>3 DEF Serve, Passed, request, mutating, TypeOK
  <2> QED BY <2>4, <2>6, <2>7
<1>5. ASSUME Receive PROVE IInv'
  <2>1. TypeOK' /\ Placed'
    BY <1>0, <1>5, AttemptsArePositive, NoneIsNothing
    DEF Receive, Return, TypeOK, Placed, service, Results
  <2>3. Permitted'
    BY <1>0, <1>5, PermittedIsKept DEF Receive, Return, service, TypeOK, Placed
  <2>2. Passed'
    <3>1. \A j \in DOMAIN call.script :
            j < step \/ (j = step /\ reply = "done") => call.script[j].effects = {} \/ done > 0
      BY DEF Passed, request
    <3>2. \A j \in DOMAIN call.script :
            j < step' \/ result' = "success" => j < step \/ (j = step /\ reply = "done")
      BY <1>0, <1>5, NoneIsNothing DEF Receive, Return, TypeOK, Placed, Results
    <3> QED BY <1>5, <3>1, <3>2, NoneIsNothing DEF Receive, Passed, service, Replies
  <2> QED BY <2>1, <2>2, <2>3
<1>6. ASSUME Refused PROVE IInv'
  <2>1. TypeOK' /\ Placed'
    BY <1>6, NoneIsNothing
    DEF Refused, Return, TypeOK, Placed, service, Results
  <2>3. Permitted'
    BY <1>0, <1>6, PermittedIsKept DEF Refused, Return, service, TypeOK, Placed
  <2>2. Passed'
    BY <1>6, NoneIsNothing DEF Refused, Return, Passed, service, request, Replies
  <2> QED BY <2>1, <2>2, <2>3
<1>7. ASSUME Again, pc = "waiting", reply' = None,
             UNCHANGED <<rules, call, asked, step, done>>,
             strays' = strays \/ (strays' = strays + 1 /\ Asks(call) # {})
      PROVE  IInv'
  <2>1. TypeOK' /\ Placed'
    BY <1>7, NoneIsNothing DEF Again, Return, TypeOK, Placed, Results
  <2>2. Permitted'
    <3>1. step > 0
      BY <1>0, <1>7 DEF Placed
    <3>2. done' + strays' > 0 => done + strays > 0 \/ Asks(call) # {}
      BY <1>7
    <3> QED BY <1>7, <3>1, <3>2, PermittedIsKept
  <2>3. Passed'
    BY <1>7, NoneIsNothing DEF Again, Return, Passed, request, Replies, Placed
  <2> QED BY <2>1, <2>2, <2>3
<1>8. ASSUME Failed PROVE IInv'
  BY <1>7, <1>8 DEF Failed, TypeOK, service
<1>9. ASSUME GiveUpAttempt PROVE IInv'
  <2>1. mutating => Asks(call) # {}
    BY <1>0, <1>9, RequestIsTyped DEF GiveUpAttempt, Placed, mutating, request
  <2> QED BY <1>7, <1>9, <2>1 DEF GiveUpAttempt, TypeOK
<1>10. ASSUME StrayArrives PROVE IInv'
  <2>1. TypeOK' /\ Placed'
    BY <1>10 DEF StrayArrives, TypeOK, Placed
  <2>3. Permitted'
    <3>1. done + strays > 0
      BY <1>10 DEF StrayArrives, TypeOK
    <3> QED BY <1>10, <3>1, PermittedIsKept DEF StrayArrives
  <2>2. Passed'
    BY <1>10 DEF StrayArrives, Passed, request, TypeOK
  <2> QED BY <2>1, <2>2, <2>3
<1>11. ASSUME UNCHANGED vars PROVE IInv'
  BY <1>11 DEF vars, TypeOK, Placed, Permitted, Passed, Decision, request
<1> QED
  BY <1>1, <1>2, <1>3, <1>4, <1>5, <1>6, <1>8, <1>9, <1>10, <1>11 DEF Next

LEMMA IInvHolds == Spec => []IInv
<1>1. Init => IInv
  BY InitEstablishesIInv
<1> QED BY <1>1, StepKeepsIInv, PTL DEF Spec

\* Counting needs the scripts to change nothing before their last request:
\* then the attempts counted anew for each request are all there were.
LEMMA StepKeepsCInv ==
  ASSUME EffectsComeLast, IInv, CInv, [Next]_vars
  PROVE  CInv'
<1> USE DEF CInv, IInv
<1>0. /\ Len(call.script) \in Nat \ {0}
      /\ DOMAIN call.script = 1..Len(call.script)
      /\ done \in Nat /\ strays \in Nat /\ attempt \in Nat
  BY ScriptHasLength, AttemptsArePositive DEF TypeOK
<1>1. pc = "waiting" /\ mutating => step = Len(call.script)
  BY <1>0 DEF EffectsComeLast, TypeOK, Placed, mutating, request
<1>2. ASSUME Refuse PROVE CInv'
  <2>1. Decision # "refused" /\ Decision # None
    <3>1. call.class \in Classification /\ rules \in Rules
      BY ActionsAreScripts DEF TypeOK
    <3>2. Decision \in Rule
      BY <3>1, GateIsStrict DEF Decision, ApprovalMode
    <3> QED BY <3>2, NoneIsNothing DEF Rule, Results
  <2> QED BY <1>2, <2>1 DEF Refuse, Return, Counted, AtTheLast, service
<1>3. ASSUME Approve PROVE CInv'
  <2>1. done + strays = 0
    BY <1>0, <1>3 DEF Approve, Permitted, Placed
  <2> QED BY <1>0, <1>3, <2>1, NoneIsNothing
          DEF Approve, Return, Counted, AtTheLast, service, Placed, Results
<1>4. ASSUME Send PROVE CInv'
  BY <1>0, <1>4, NoneIsNothing
  DEF Send, Counted, AtTheLast, service, Placed, Results
<1>5. ASSUME Serve PROVE CInv'
  <2>1. PICK r \in Replies :
          /\ reply' = r
          /\ done' \in IF ~mutating THEN {done}
                       ELSE CASE r \in {"done", "garbled"}   -> {done + 1}
                              [] r = "failed"                -> {done, done + 1}
                              [] r \in {"refused", "undone"} -> {done}
    BY <1>5 DEF Serve
  <2>2. /\ done' = done \/ (done' = done + 1 /\ mutating)
        /\ r \in {"refused", "undone"} => done' = done
    BY <2>1 DEF Replies
  <2>3. Counted'
    BY <1>0, <1>5, <2>1, <2>2, NoneIsNothing DEF Serve, Counted, Placed, Results, Replies
  <2>4. AtTheLast'
    BY <1>0, <1>1, <1>5, <2>2 DEF Serve, AtTheLast
  <2> QED BY <2>3, <2>4
<1>6. ASSUME Receive PROVE CInv'
  <2>1. step < Len(call.script) => done + strays = 0
    BY <1>0 DEF AtTheLast
  <2>2. Counted'
    BY <1>0, <1>6, <2>1, NoneIsNothing
    DEF Receive, Return, Counted, Placed, service, Results
  <2>3. AtTheLast'
    BY <1>0, <1>6, <2>1 DEF Receive, AtTheLast, service
  <2> QED BY <2>2, <2>3
<1>7. ASSUME Refused PROVE CInv'
  BY <1>7 DEF Refused, Return, Counted, AtTheLast, service
<1>8. ASSUME Again, pc = "waiting", reply' = None, UNCHANGED <<call, step, done>>,
             \/ strays' = strays
             \/ strays' = strays + 1 /\ reply = None /\ mutating
      PROVE  CInv'
  <2>1. Counted'
    BY <1>0, <1>8, NoneIsNothing DEF Again, Return, Counted, Placed, Results
  <2>2. AtTheLast'
    BY <1>0, <1>1, <1>8 DEF AtTheLast
  <2> QED BY <2>1, <2>2
<1>9. ASSUME Failed PROVE CInv'
  BY <1>8, <1>9 DEF Failed, service
<1>10. ASSUME GiveUpAttempt PROVE CInv'
  BY <1>8, <1>10 DEF GiveUpAttempt
<1>11. ASSUME StrayArrives PROVE CInv'
  <2>0. PICK n \in Nat : strays = n + 1 /\ strays' = n
    <3>1. strays - 1 \in Nat /\ strays = (strays - 1) + 1 /\ strays' = strays - 1
      BY <1>0, <1>11 DEF StrayArrives
    <3> QED BY <3>1
  <2>1. done' = done \/ done' = done + 1
    BY <1>11 DEF StrayArrives
  <2>2. done + strays \in Nat /\ done + strays > 0
    BY <1>0, <2>0
  <2>3. Counted'
    <3>1. done' + strays' <= done + strays
      BY <1>0, <2>0, <2>1
    <3>2. done' + strays' \in Nat
      BY <1>0, <2>0, <2>1
    <3>3. /\ done + strays <= attempt => done' + strays' <= attempt
          /\ done + strays < attempt => done' + strays' < attempt
      BY <1>0, <2>2, <3>1, <3>2
    <3> QED BY <1>11, <3>3 DEF StrayArrives, Counted
  <2>4. AtTheLast'
    BY <1>11, <2>2 DEF StrayArrives, AtTheLast
  <2> QED BY <2>3, <2>4
<1>12. ASSUME UNCHANGED vars PROVE CInv'
  BY <1>12 DEF vars, Counted, AtTheLast
<1> QED
  BY <1>2, <1>3, <1>4, <1>5, <1>6, <1>7, <1>9, <1>10, <1>11, <1>12 DEF Next

LEMMA CInvHolds == EffectsComeLast => (Spec => []CInv)
<1> SUFFICES ASSUME EffectsComeLast PROVE Spec => []CInv
  OBVIOUS
<1>1. Init => CInv
  BY InitEstablishesIInv
<1>2. IInv /\ CInv /\ [Next]_vars => CInv'
  BY StepKeepsCInv
<1> QED BY <1>1, <1>2, IInvHolds, PTL DEF Spec

----------------------------------------------------------------------------
\* Every variable of a call keeps its type, whatever the service does.
THEOREM TypeCorrect == Spec => []TypeOK
<1>1. IInv => TypeOK
  BY DEF IInv
<1> QED BY <1>1, IInvHolds, PTL

\* If the actions declare what they may do, but for updates that may remove,
\* nothing is done on a service that the rules would not let a call declared as
\* doing just that do, except that a permitted update may remove: the gate
\* judges the declaration only, the requests come later.
THEOREM EffectsArePermittedHolds ==
  EffectsAreDeclared => (Spec => []EffectsArePermitted)
<1> SUFFICES ASSUME EffectsAreDeclared PROVE Spec => []EffectsArePermitted
  OBVIOUS
<1>1. ASSUME IInv, done + strays > 0
      PROVE  \/ Permits(asked)
             \/ asked = "remove" /\ "change" \in Asks(call) /\ Permits("change")
  <2>1. /\ call \in Actions
        /\ call.class \in Classification
        /\ rules \in Rules
        /\ asked \in Asks(call)
        /\ Decision = "success"
    BY <1>1, ActionsAreScripts DEF IInv, TypeOK, Permitted
  <2>2. /\ rules[call.class.kind] = "success"
        /\ \A a \in call.class.aspects : rules.aspects[a] \in {"success", Unset}
    BY <2>1, GateIsStrict DEF Decision, ApprovalMode
  <2>3. call.class.kind # "admin"
    BY <2>1, <2>2 DEF Rules
  <2>4. /\ call.class.kind = NaturalClass(asked).kind
        /\ \/ NaturalClass(asked).aspects \subseteq call.class.aspects
           \/ "change" \in Asks(call)
    BY <2>1, <2>3 DEF EffectsAreDeclared
  <2>5. CASE NaturalClass(asked).aspects \subseteq call.class.aspects
    <3>1. NaturalClass(asked) \in Classification
      BY <2>1, <2>4, <2>5 DEF NaturalClass, Classification, Kind
    <3> QED BY <2>1, <2>2, <2>4, <2>5, <3>1, PermittedPartsPermit DEF Permits
  <2>6. CASE ~(NaturalClass(asked).aspects \subseteq call.class.aspects)
    <3>1. asked = "remove" /\ "change" \in Asks(call)
      BY <2>4, <2>6 DEF NaturalClass
    <3>2. NaturalClass("change") = [kind |-> "write", aspects |-> {}]
      BY DEF NaturalClass
    <3>3. NaturalClass("change") \in Classification
      BY <3>2 DEF Classification, Kind
    <3>4. rules[NaturalClass("change").kind] = "success"
      BY <2>2, <2>4, <3>1, <3>2 DEF NaturalClass
    <3> QED BY <2>1, <3>1, <3>2, <3>3, <3>4, PermittedPartsPermit DEF Permits
  <2> QED BY <2>5, <2>6
<1>2. IInv => EffectsArePermitted
  BY <1>1 DEF EffectsArePermitted
<1> QED BY <1>2, IInvHolds, PTL

LEMMA SuccessIsDone ==
  ASSUME IInv, result = "success", asked # None
  PROVE  done > 0
<1>1. asked \in Asks(call)
  BY DEF IInv, TypeOK
<1>2. PICK i \in DOMAIN call.script : asked \in call.script[i].effects
  BY <1>1 DEF Asks
<1> QED BY <1>2 DEF IInv, Passed

\* A success of a call that was to change something means it is changed,
\* through lost answers, attempts that took effect unseen, and 2xx answers that
\* say nothing was done.
THEOREM SuccessMeansDoneHolds == Spec => []SuccessMeansDone
<1>1. IInv => SuccessMeansDone
  BY SuccessIsDone DEF SuccessMeansDone
<1> QED BY <1>1, IInvHolds, PTL

\* With scripts that change something last, the service never does more than it
\* was sent: once, if no attempt was repeated, for a success, and never for a
\* refusal.
THEOREM OneAttemptIsExactHolds ==
  EffectsComeLast => (Spec => []OneAttemptIsExact)
<1>1. ASSUME IInv, CInv PROVE OneAttemptIsExact
  <2>1. done \in Nat /\ strays \in Nat
    BY <1>1 DEF IInv, TypeOK
  <2>2. result = "success" /\ asked # None => done > 0
    BY <1>1, SuccessIsDone
  <2> QED BY <1>1, <2>1, <2>2 DEF CInv, Counted, OneAttemptIsExact
<1> QED BY <1>1, IInvHolds, CInvHolds, PTL

----------------------------------------------------------------------------
(***************************************************************************)
(* Listing, which shares nothing with ServiceCall.                         *)
(***************************************************************************)

\* Pages.

Fetched == (page - 1) * perPage

LEMMA LesserIs ==
  ASSUME NEW a \in Nat, NEW b \in Nat
  PROVE  Least(a, b) \in Nat /\ Least(a, b) <= a /\ Least(a, b) <= b /\ Least(a, b) \in {a, b}
BY DEF Least

LEMMA PerPageIs ==
  ASSUME ListingTypeOK
  PROVE  perPage \in Nat \ {0} /\ perPage <= maxResults /\ perPage <= PageCap /\ maxResults \in Nat
<1>1. PageCap \in Nat \ {0} /\ maxResults \in Nat \ {0}
  BY PagesArePositive DEF ListingTypeOK
<1> QED BY <1>1 DEF perPage, Least

LEMMA PagesAddUp ==
  ASSUME NEW p \in Nat \ {0}, NEW q \in Nat \ {0}
  PROVE  (p - 1) * q \in Nat /\ p * q = (p - 1) * q + q /\ ((p + 1) - 1) * q = p * q
<1>1. p - 1 \in Nat /\ (p + 1) - 1 = p
  OBVIOUS
<1>2. \A a \in Nat : a * q \in Nat /\ (a + 1) * q = a * q + q
  OBVIOUS
<1>3. (p - 1) + 1 = p
  OBVIOUS
<1> QED BY <1>1, <1>2, <1>3

\* A limit of whole pages is reached by whole pages.
LEMMA WholePages ==
  ASSUME ListingTypeOK, whole, page > 0, Fetched < maxResults
  PROVE  Fetched + perPage <= maxResults
<1> DEFINE k == Fetched
           q == perPage
           a == page - 1
<1>1. q \in Nat \ {0} /\ q <= maxResults /\ q <= PageCap /\ maxResults \in Nat \ {0} /\ PageCap \in Nat \ {0}
  BY PerPageIs, PagesArePositive DEF ListingTypeOK
<1>2. a \in Nat /\ k = a * q
  BY DEF ListingTypeOK, Fetched
<1>3. q = PageCap \/ q = maxResults
  BY <1>1 DEF perPage, Least
<1>4. PICK b \in Nat : maxResults = b * q
  <2>1. CASE q = maxResults
    <3>1. maxResults = 1 * q
      BY <1>1, <2>1
    <3> QED BY <3>1
  <2>2. CASE q # maxResults
    <3>1. q = PageCap /\ maxResults % PageCap = 0
      BY <1>1, <1>3, <2>2 DEF whole
    <3>2. maxResults = (maxResults \div PageCap) * PageCap + (maxResults % PageCap)
      BY <1>1
    <3>3. maxResults \div PageCap \in Nat
      BY <1>1
    <3>4. maxResults = (maxResults \div PageCap) * q
      BY <1>1, <3>1, <3>2, <3>3
    <3> QED BY <3>3, <3>4
  <2> QED BY <2>1, <2>2
<1> HIDE DEF k, q, a
<1>5. a < b
  <2>1. \A x, y \in Nat : x <= y => x * q <= y * q
    BY <1>1
  <2>2. a * q < b * q
    BY <1>2, <1>4 DEF k
  <2>3. a * q \in Nat /\ b * q \in Nat
    BY <1>1, <1>2, <1>4
  <2>4. ~(b <= a)
    BY <1>2, <1>4, <2>1, <2>2, <2>3
  <2> QED BY <1>2, <1>4, <2>4
<1>6. (a + 1) * q <= b * q
  <2>1. \A x, y \in Nat : x <= y => x * q <= y * q
    BY <1>1
  <2>2. a + 1 \in Nat /\ a + 1 <= b
    BY <1>2, <1>4, <1>5
  <2> QED BY <1>4, <2>1, <2>2
<1>7. (a + 1) * q = a * q + q
  <2>1. \A x \in Nat : (x + 1) * q = x * q + q
    BY <1>1
  <2> QED BY <1>2, <2>1
<1>8. k + q <= maxResults
  BY <1>2, <1>4, <1>6, <1>7
<1> QED BY <1>8 DEF k, q

\* A page is what the list has from Fetched on, as much as fits.
LEMMA ChunkIs ==
  ASSUME ListingTypeOK, page > 0
  PROVE  /\ Fetched \in Nat /\ Len(list) \in Nat
         /\ Chunk(page) \in Seq(Item)
         /\ Len(Chunk(page)) \in Nat /\ Len(Chunk(page)) <= perPage
         /\ Len(Chunk(page)) = perPage => Fetched + perPage <= Len(list)
         /\ Len(Chunk(page)) < perPage => /\ Len(list) < Fetched + perPage
                                          /\ Len(list) <= Fetched + Len(Chunk(page))
         /\ Fetched <= Len(list) => Fetched + Len(Chunk(page)) <= Len(list)
         /\ \A i \in 1..Len(Chunk(page)) :
              Fetched + i \in 1..Len(list) /\ Chunk(page)[i] = list[Fetched + i]
<1> DEFINE k == Fetched
           q == perPage
           N == Len(list)
           e == Least(page * q, N)
           C == SubSeq(list, k + 1, e)
<1>1. N \in Nat /\ \A i \in 1..N : list[i] \in Item
  BY LenProperties, ElementOfSeq DEF ListingTypeOK
<1>2. q \in Nat \ {0} /\ page \in Nat \ {0}
  BY PerPageIs DEF ListingTypeOK
<1>3. k \in Nat /\ page * q = k + q
  BY <1>2, PagesAddUp DEF Fetched
<1>4. Chunk(page) = C
  BY DEF Chunk, Fetched
<1>5. e \in Nat /\ e <= k + q /\ e <= N /\ (e = k + q \/ e = N)
  <2>1. page * q \in Nat
    BY <1>2, <1>3
  <2> QED BY <1>1, <1>3, <2>1 DEF Least
<1> HIDE DEF k, q, N, e
<1>6. k + 1 \in Int /\ e \in Int /\ \A i \in (k + 1)..e : list[i] \in Item
  BY <1>1, <1>3, <1>5
<1>7. /\ C \in Seq(Item) /\ Len(C) = IF k + 1 <= e THEN e - (k + 1) + 1 ELSE 0
      /\ \A i \in 1..(e - (k + 1) + 1) : C[i] = list[k + 1 + i - 1]
  BY <1>6, SubSeqProperties
<1> HIDE DEF C
<1>8. Len(C) = IF k < e THEN e - k ELSE 0
  BY <1>3, <1>5, <1>7
<1>9. ASSUME NEW i \in 1..Len(C) PROVE k + i \in 1..N /\ C[i] = list[k + i]
  <2>1. k < e /\ Len(C) = e - k
    BY <1>3, <1>5, <1>8
  <2>2. i \in 1..(e - (k + 1) + 1) /\ k + 1 + i - 1 = k + i /\ k + i \in 1..N
    BY <1>1, <1>3, <1>5, <2>1
  <2> QED BY <1>7, <2>2
<1>10. /\ Len(C) \in Nat /\ Len(C) <= q
       /\ Len(C) = q => k + q <= N
       /\ Len(C) < q => N < k + q /\ N <= k + Len(C)
       /\ k <= N => k + Len(C) <= N
  BY <1>1, <1>2, <1>3, <1>5, <1>8
<1> QED BY <1>1, <1>3, <1>4, <1>7, <1>9, <1>10 DEF k, q, N

----------------------------------------------------------------------------
\* The inductive invariant.

\* While the listing goes on, the pages read were full and not enough.
PagesWereFull == page > 0 => Len(acc) = Fetched /\ Fetched < maxResults

\* What was there at the beginning is the older end of the list.
OriginalIsOlder ==
  /\ Len(original) <= Len(list)
  /\ \A i \in 1..Len(original) : original[i] = list[Len(list) - Len(original) + i]
  /\ \A i \in 1..(Len(list) - Len(original)) : list[i] \notin Range(original)

\* An item pushed onto a page already read had been read before.
NoneIsMissed ==
  page > 0 =>
    \A i \in 1..Len(list) :
      i <= Fetched /\ list[i] \in Range(original) => list[i] \in Range(acc)

\* As long as the list is as it was, what was read is its beginning.
IsBeginning(got) == Len(got) <= Len(list) /\ \A i \in 1..Len(got) : got[i] = list[i]
StillTheBeginning == ~added => list = original /\ (page > 0 => IsBeginning(acc))

LInv ==
  /\ ListingTypeOK
  /\ PagesWereFull
  /\ removed = {} => OriginalIsOlder /\ NoneIsMissed /\ StillTheBeginning
  /\ AnswerIsThePrefix
  /\ UntruncatedIsWhole

LEMMA InitHasLInv == InitListing => LInv
<1> SUFFICES ASSUME InitListing PROVE LInv
  OBVIOUS
<1>1. PICK n \in 0..MaxItems : list = [i \in 1..n |-> i]
  BY DEF InitListing
<1>2. n \in Nat /\ \A i \in 1..n : i \in Item
  BY <1>1, PagesArePositive DEF Item
<1>3. list \in Seq(Item) /\ Len(list) = n /\ IsInjective(list)
  BY <1>1, <1>2 DEF IsInjective
<1>4. <<>> \in Seq(Item) /\ Len(<<>>) = 0
  BY EmptySeq
<1>5. maxResults \in Nat \ {0} /\ maxResults \in Limits
  BY PagesArePositive DEF InitListing
<1>6. ListingTypeOK
  <2>1. list \in Seq(Item) /\ IsInjective(list) /\ original \in Seq(Item)
    BY <1>3 DEF InitListing
  <2>2. acc \in Seq(Item) /\ items \in Seq(Item) /\ Len(items) <= maxResults
    BY <1>4, <1>5 DEF InitListing
  <2> QED BY <1>5, <2>1, <2>2 DEF InitListing, ListingTypeOK
<1>7. Fetched = 0
  <2>1. perPage \in Nat
    BY <1>6, PerPageIs
  <2> QED BY <2>1 DEF Fetched, InitListing
<1>8. PagesWereFull /\ NoneIsMissed
  BY <1>4, <1>5, <1>7 DEF PagesWereFull, NoneIsMissed, InitListing
<1>9. OriginalIsOlder /\ StillTheBeginning
  BY <1>3, <1>4 DEF OriginalIsOlder, StillTheBeginning, IsBeginning, InitListing
<1>10. AnswerIsThePrefix /\ UntruncatedIsWhole
  BY DEF AnswerIsThePrefix, UntruncatedIsWhole, returned, InitListing
<1> QED BY <1>6, <1>8, <1>9, <1>10 DEF LInv

----------------------------------------------------------------------------
\* A page is read.

Got == acc \o Chunk(page)

LEMMA GotIs ==
  ASSUME LInv, page > 0
  PROVE  /\ Got \in Seq(Item) /\ Len(Got) = Fetched + Len(Chunk(page))
         /\ \A i \in 1..Fetched : Got[i] = acc[i]
         /\ \A i \in 1..Len(Chunk(page)) : Got[Fetched + i] = list[Fetched + i]
<1> DEFINE C == Chunk(page)
           k == Fetched
<1>1. C \in Seq(Item) /\ Len(C) \in Nat /\ \A i \in 1..Len(C) : C[i] = list[k + i]
  BY ChunkIs DEF LInv
<1>2. acc \in Seq(Item) /\ Len(acc) = k /\ k \in Nat
  BY ChunkIs DEF LInv, ListingTypeOK, PagesWereFull
<1> HIDE DEF C, k
<1>3. /\ acc \o C \in Seq(Item) /\ Len(acc \o C) = Len(acc) + Len(C)
      /\ \A i \in 1..(Len(acc) + Len(C)) :
           (acc \o C)[i] = IF i <= Len(acc) THEN acc[i] ELSE C[i - Len(acc)]
  BY <1>1, <1>2, ConcatProperties
<1>4. ASSUME NEW i \in 1..k PROVE (acc \o C)[i] = acc[i]
  <2>1. i \in 1..(k + Len(C)) /\ i <= k
    BY <1>1, <1>2
  <2> QED BY <1>2, <1>3, <2>1
<1>5. ASSUME NEW i \in 1..Len(C) PROVE (acc \o C)[k + i] = list[k + i]
  <2>1. k + i \in 1..(k + Len(C)) /\ ~(k + i <= k) /\ (k + i) - k = i
    BY <1>1, <1>2
  <2> QED BY <1>1, <1>2, <1>3, <2>1
<1> QED BY <1>2, <1>3, <1>4, <1>5 DEF Got, C, k

\* Nothing of what was there is missed on the pages up to this one.
LEMMA GotMissesNone ==
  ASSUME LInv, page > 0, removed = {},
         NEW i \in 1..Len(list), i <= Fetched + Len(Chunk(page)), list[i] \in Range(original)
  PROVE  list[i] \in Range(Got)
<1>1. /\ Fetched \in Nat /\ Len(list) \in Nat /\ Len(Chunk(page)) \in Nat
      /\ Chunk(page) \in Seq(Item) /\ acc \in Seq(Item)
  BY ChunkIs DEF LInv, ListingTypeOK
<1>2. CASE i <= Fetched
  <2>1. list[i] \in Range(acc)
    BY <1>2 DEF LInv, NoneIsMissed
  <2>2. Range(Got) = Range(acc) \cup Range(Chunk(page))
    BY <1>1, RangeConcatenation DEF Got
  <2> QED BY <2>1, <2>2
<1>3. CASE ~(i <= Fetched)
  <2>1. i - Fetched \in 1..Len(Chunk(page)) /\ Fetched + (i - Fetched) = i
    BY <1>1, <1>3
  <2>2. Got[i] = list[i]
    BY <2>1, GotIs
  <2>3. Got \in Seq(Item) /\ i \in 1..Len(Got)
    BY <1>1, <2>1, GotIs
  <2>4. i \in DOMAIN Got
    BY <2>3, LenProperties
  <2> QED BY <2>2, <2>4 DEF Range
<1> QED BY <1>2, <1>3

LEMMA GotIsTheBeginning ==
  ASSUME LInv, page > 0, removed = {}, ~added
  PROVE  IsBeginning(Got)
<1>1. Fetched \in Nat /\ Len(list) \in Nat /\ Len(Chunk(page)) \in Nat
  BY ChunkIs DEF LInv
<1>2. Len(acc) = Fetched /\ Fetched <= Len(list) /\ \A i \in 1..Fetched : acc[i] = list[i]
  BY DEF LInv, PagesWereFull, StillTheBeginning, IsBeginning
<1>3. /\ Len(Got) = Fetched + Len(Chunk(page))
      /\ \A i \in 1..Fetched : Got[i] = acc[i]
      /\ \A i \in 1..Len(Chunk(page)) : Got[Fetched + i] = list[Fetched + i]
  BY GotIs
<1>4. Len(Got) <= Len(list)
  BY <1>2, <1>3, ChunkIs DEF LInv
<1>5. ASSUME NEW i \in 1..Len(Got) PROVE Got[i] = list[i]
  <2>1. CASE i <= Fetched
    <3>1. i \in 1..Fetched
      BY <1>1, <2>1
    <3> QED BY <1>2, <1>3, <3>1
  <2>2. CASE ~(i <= Fetched)
    <3>1. i - Fetched \in 1..Len(Chunk(page)) /\ Fetched + (i - Fetched) = i
      BY <1>1, <1>3, <2>2
    <3> QED BY <1>3, <3>1
  <2> QED BY <2>1, <2>2
<1> QED BY <1>4, <1>5 DEF IsBeginning

\* The first so many items of a sequence.
LEMMA FirstOnes ==
  ASSUME NEW s \in Seq(Item), NEW m \in Nat, m <= Len(s)
  PROVE  /\ SubSeq(s, 1, m) \in Seq(Item) /\ Len(SubSeq(s, 1, m)) = m
         /\ \A i \in 1..m : SubSeq(s, 1, m)[i] = s[i]
<1>1. Len(s) \in Nat /\ \A i \in 1..Len(s) : s[i] \in Item
  BY LenProperties, ElementOfSeq
<1>2. 1 \in Int /\ m \in Int /\ \A i \in 1..m : s[i] \in Item
  BY <1>1
<1>3. /\ SubSeq(s, 1, m) \in Seq(Item)
      /\ Len(SubSeq(s, 1, m)) = IF 1 <= m THEN m - 1 + 1 ELSE 0
      /\ \A i \in 1..(m - 1 + 1) : SubSeq(s, 1, m)[i] = s[1 + i - 1]
  BY <1>2, SubSeqProperties
<1>4. Len(SubSeq(s, 1, m)) = m
  BY <1>3
<1>5. ASSUME NEW i \in 1..m PROVE SubSeq(s, 1, m)[i] = s[i]
  <2>1. i \in 1..(m - 1 + 1) /\ 1 + i - 1 = i
    OBVIOUS
  <2> QED BY <1>3, <2>1
<1> QED BY <1>3, <1>4, <1>5

\* The listing returns what it has got.
LEMMA GiveKeepsLInv ==
  ASSUME LInv, page > 0, acc' = Got, UNCHANGED <<list, maxResults, original, added, removed>>,
         NEW more \in BOOLEAN, Give(Got, more),
         more => Len(Chunk(page)) = perPage /\ Len(Got) >= maxResults,
         ~more => Len(Chunk(page)) < perPage
  PROVE  LInv'
<1> DEFINE N == Len(list)
           m == Least(maxResults, Len(Got))
<1>1. Got \in Seq(Item) /\ Len(Got) \in Nat /\ N \in Nat /\ maxResults \in Nat \ {0}
  <2>1. Got \in Seq(Item)
    BY GotIs
  <2>2. list \in Seq(Item) /\ maxResults \in Nat \ {0}
    BY PagesArePositive DEF LInv, ListingTypeOK
  <2> QED BY <2>1, <2>2, LenProperties
<1>2. m \in Nat /\ m <= maxResults /\ m <= Len(Got) /\ m \in {maxResults, Len(Got)}
  BY <1>1, LesserIs
<1>3. page' = 0 /\ items' = SubSeq(Got, 1, m) /\ truncated' = more
  BY DEF Give
<1>4. items' \in Seq(Item) /\ Len(items') = m /\ \A i \in 1..m : items'[i] = Got[i]
  BY <1>1, <1>2, <1>3, FirstOnes
<1>5. ListingTypeOK'
  BY <1>1, <1>2, <1>3, <1>4 DEF LInv, ListingTypeOK
<1>6. AnswerIsThePrefix'
  <2> SUFFICES ASSUME removed = {}, ~added
               PROVE  items' = SubSeq(original, 1, Least(maxResults, Len(original)))
    BY DEF AnswerIsThePrefix
  <2>1. Len(Got) <= N /\ \A i \in 1..Len(Got) : Got[i] = list[i]
    BY GotIsTheBeginning DEF IsBeginning
  <2>2. list = original
    BY DEF LInv, StillTheBeginning
  <2>3. m = Least(maxResults, N)
    <3>1. CASE more
      BY <1>1, <2>1, <3>1 DEF Least
    <3>2. CASE ~more
      <4>1. N <= Len(Got)
        BY <3>2, GotIs, ChunkIs DEF LInv
      <4> QED BY <1>1, <2>1, <4>1
    <3> QED BY <3>1, <3>2
  <2>4. list \in Seq(Item) /\ m <= N
    BY <1>1, <1>2, <2>1 DEF LInv, ListingTypeOK
  <2> HIDE DEF m
  <2>5. /\ SubSeq(list, 1, m) \in Seq(Item) /\ Len(SubSeq(list, 1, m)) = m
        /\ \A i \in 1..m : SubSeq(list, 1, m)[i] = list[i]
    BY <1>2, <2>4, FirstOnes
  <2>6. \A i \in 1..m : items'[i] = SubSeq(list, 1, m)[i]
    <3>1. \A i \in 1..m : i \in 1..Len(Got)
      BY <1>1, <1>2
    <3> QED BY <1>4, <2>1, <2>5, <3>1
  <2>7. items' = SubSeq(list, 1, m)
    BY <1>4, <2>5, <2>6, SeqEqual
  <2> QED BY <2>2, <2>3, <2>7
<1>7. UntruncatedIsWhole'
  <2> SUFFICES ASSUME ~more, whole, removed = {}, NEW x \in Range(original)
               PROVE  x \in Range(items')
    BY <1>3 DEF UntruncatedIsWhole, whole
  <2>1. Len(Chunk(page)) < perPage /\ N <= Fetched + Len(Chunk(page)) /\ Len(Chunk(page)) \in Nat
    BY ChunkIs DEF LInv
  <2>2. Fetched + perPage <= maxResults /\ Fetched \in Nat /\ perPage \in Nat
    BY WholePages, PerPageIs, ChunkIs DEF LInv, PagesWereFull
  <2>3. Len(Got) = Fetched + Len(Chunk(page))
    BY GotIs
  <2>4. m = Len(Got)
    BY <1>1, <2>1, <2>2, <2>3 DEF Least
  <2>5. items' = Got
    BY <1>1, <1>3, <2>4, SubSeqFull
  <2>6. PICK i \in 1..N : list[i] = x
    <3>1. PICK j \in DOMAIN original : original[j] = x
      BY DEF Range
    <3>2. original \in Seq(Item)
      BY DEF LInv, ListingTypeOK
    <3>3. j \in 1..Len(original) /\ Len(original) \in Nat
      BY <3>1, <3>2, LenProperties
    <3>4. Len(original) <= N /\ list[N - Len(original) + j] = x
      BY <3>1, <3>3 DEF LInv, OriginalIsOlder
    <3>5. N - Len(original) + j \in 1..N
      BY <1>1, <3>3, <3>4
    <3> QED BY <3>4, <3>5
  <2>7. i <= Fetched + Len(Chunk(page))
    BY <1>1, <2>1, <2>2, <2>6
  <2>8. x \in Range(Got)
    BY <2>6, <2>7, GotMissesNone
  <2> QED BY <2>5, <2>8
<1>8. removed' = {} => OriginalIsOlder' /\ NoneIsMissed' /\ StillTheBeginning'
  BY <1>3 DEF LInv, OriginalIsOlder, NoneIsMissed, StillTheBeginning
<1> QED BY <1>3, <1>5, <1>6, <1>7, <1>8 DEF LInv, PagesWereFull

\* The listing goes on to its next page.
LEMMA GoingOnKeepsLInv ==
  ASSUME LInv, page > 0, acc' = Got, UNCHANGED <<list, maxResults, original, added, removed>>,
         Len(Chunk(page)) = perPage, ~(Len(Got) >= maxResults),
         page' = page + 1, UNCHANGED answer
  PROVE  LInv'
<1>1. /\ Got \in Seq(Item) /\ Len(Got) = Fetched + perPage
      /\ Fetched \in Nat /\ perPage \in Nat \ {0} /\ maxResults \in Nat /\ page \in Nat
  BY GotIs, ChunkIs, PerPageIs DEF LInv, ListingTypeOK
<1>2. Fetched' = Fetched + perPage
  <2>1. page \in Nat \ {0} /\ perPage' = perPage
    BY <1>1 DEF perPage
  <2>2. (page - 1) * perPage + perPage = ((page + 1) - 1) * perPage
    BY <1>1, <2>1, PagesAddUp
  <2> QED BY <2>1, <2>2 DEF Fetched
<1>3. ListingTypeOK'
  BY <1>1 DEF answer, LInv, ListingTypeOK
<1>4. PagesWereFull'
  BY <1>1, <1>2 DEF PagesWereFull
<1>5. removed' = {} => OriginalIsOlder'
  BY DEF LInv, OriginalIsOlder
<1>6. removed' = {} => NoneIsMissed'
  BY <1>2, GotMissesNone DEF NoneIsMissed
<1>7. removed' = {} => StillTheBeginning'
  <2> SUFFICES ASSUME removed = {}, ~added PROVE list = original /\ IsBeginning(Got)
    BY DEF StillTheBeginning, IsBeginning
  <2> QED BY GotIsTheBeginning DEF LInv, StillTheBeginning
<1>8. AnswerIsThePrefix' /\ UntruncatedIsWhole'
  BY <1>1 DEF AnswerIsThePrefix, UntruncatedIsWhole, returned
<1> QED BY <1>3, <1>4, <1>5, <1>6, <1>7, <1>8 DEF LInv

LEMMA FetchPageKeepsLInv == LInv /\ FetchPage => LInv'
<1> SUFFICES ASSUME LInv, FetchPage PROVE LInv'
  OBVIOUS
<1>1. page > 0 /\ acc' = Got /\ UNCHANGED <<list, maxResults, original, added, removed>>
  BY DEF FetchPage, Got
<1>2. /\ Len(Chunk(page)) \in Nat /\ perPage \in Nat /\ Len(Chunk(page)) <= perPage
      /\ Len(Got) \in Nat /\ maxResults \in Nat
  BY <1>1, GotIs, LenProperties, ChunkIs, PerPageIs DEF LInv
<1>3. CASE Len(Chunk(page)) < perPage
  <2>1. Give(Got, FALSE)
    BY <1>1, <1>2, <1>3 DEF FetchPage, Give
  <2> QED BY <1>1, <1>3, <2>1, GiveKeepsLInv
<1>4. CASE Len(Chunk(page)) = perPage /\ Len(Got) >= maxResults
  <2>1. Give(Got, TRUE)
    BY <1>1, <1>2, <1>4 DEF FetchPage, Give
  <2> QED BY <1>1, <1>4, <2>1, GiveKeepsLInv
<1>5. CASE Len(Chunk(page)) = perPage /\ ~(Len(Got) >= maxResults)
  <2>1. page' = page + 1 /\ UNCHANGED answer
    BY <1>1, <1>2, <1>5 DEF FetchPage, Give
  <2> QED BY <1>1, <1>5, <2>1, GoingOnKeepsLInv
<1> QED BY <1>2, <1>3, <1>4, <1>5

----------------------------------------------------------------------------
\* The others.

LEMMA AddKeepsLInv == LInv /\ Add => LInv'
<1> SUFFICES ASSUME LInv, Add PROVE LInv'
  OBVIOUS
<1>1. PICK x \in Item \ (Range(list) \cup removed \cup Range(original)) : list' = <<x>> \o list
  BY DEF Add
<1>2. /\ page > 1 /\ added' = TRUE
      /\ UNCHANGED <<maxResults, page, acc, items, truncated, original, removed>>
  BY DEF Add, answer
<1> DEFINE N == Len(list)
<1>3. list \in Seq(Item) /\ N \in Nat /\ DOMAIN list = 1..N
  BY LenProperties DEF LInv, ListingTypeOK
<1>4. <<x>> \in Seq(Item) /\ Len(<<x>>) = 1 /\ <<x>>[1] = x
  OBVIOUS
<1>5. /\ list' \in Seq(Item) /\ Len(list') = N + 1
      /\ list'[1] = x /\ \A i \in 1..N : list'[i + 1] = list[i]
  <2>1. /\ <<x>> \o list \in Seq(Item) /\ Len(<<x>> \o list) = 1 + N
        /\ \A i \in 1..(1 + N) : (<<x>> \o list)[i] = IF i <= 1 THEN <<x>>[i] ELSE list[i - 1]
    BY <1>3, <1>4, ConcatProperties
  <2>2. \A i \in 1..N : i + 1 \in 1..(1 + N) /\ ~(i + 1 <= 1) /\ (i + 1) - 1 = i
    BY <1>3
  <2>3. 1 \in 1..(1 + N)
    BY <1>3
  <2> QED BY <1>1, <1>3, <1>4, <2>1, <2>2, <2>3
<1>6. DOMAIN list' = 1..(N + 1)
  BY <1>5, LenProperties
<1>7. \A i \in 2..(N + 1) : i - 1 \in 1..N /\ list'[i] = list[i - 1]
  <2> SUFFICES ASSUME NEW i \in 2..(N + 1) PROVE i - 1 \in 1..N /\ list'[i] = list[i - 1]
    OBVIOUS
  <2>1. i - 1 \in 1..N /\ (i - 1) + 1 = i
    BY <1>3
  <2> QED BY <1>5, <2>1
<1>8. \A i \in 1..N : list[i] # x
  BY <1>1, <1>3 DEF Range
<1> HIDE DEF N
<1>9. ListingTypeOK'
  <2>1. IsInjective(list')
    <3> SUFFICES ASSUME NEW a \in 1..(N + 1), NEW b \in 1..(N + 1), list'[a] = list'[b]
                 PROVE  a = b
      BY <1>6 DEF IsInjective
    <3>1. \A c, d \in 1..N : list[c] = list[d] => c = d
      BY <1>3 DEF LInv, ListingTypeOK, IsInjective
    <3>2. (a = 1 \/ a \in 2..(N + 1)) /\ (b = 1 \/ b \in 2..(N + 1))
      BY <1>3
    <3>3. CASE a = 1 /\ b \in 2..(N + 1)
      BY <1>5, <1>7, <1>8, <3>3
    <3>4. CASE b = 1 /\ a \in 2..(N + 1)
      BY <1>5, <1>7, <1>8, <3>4
    <3>5. CASE a \in 2..(N + 1) /\ b \in 2..(N + 1)
      <4>1. a - 1 \in 1..N /\ b - 1 \in 1..N /\ list[a - 1] = list[b - 1]
        BY <1>7, <3>5
      <4>2. a - 1 = b - 1
        BY <3>1, <4>1
      <4> QED BY <3>5, <4>2
    <3> QED BY <3>2, <3>3, <3>4, <3>5
  <2> QED BY <1>2, <1>5, <2>1 DEF LInv, ListingTypeOK
<1>10. Fetched' = Fetched /\ perPage' = perPage
  BY <1>2 DEF Fetched, perPage
<1>11. PagesWereFull'
  BY <1>2, <1>10 DEF LInv, PagesWereFull
<1>12. ASSUME removed = {} PROVE OriginalIsOlder' /\ NoneIsMissed'
  <2>1. /\ Len(original) <= N
        /\ \A i \in 1..Len(original) : original[i] = list[N - Len(original) + i]
        /\ \A i \in 1..(N - Len(original)) : list[i] \notin Range(original)
    BY <1>12 DEF LInv, OriginalIsOlder, N
  <2>2. Len(original) \in Nat /\ x \notin Range(original)
    BY <1>1, LenProperties DEF LInv, ListingTypeOK
  <2>3. ASSUME NEW i \in 1..Len(original)
        PROVE  original[i] = list'[(N + 1) - Len(original) + i]
    <3>1. /\ N - Len(original) + i \in 1..N
          /\ (N - Len(original) + i) + 1 = (N + 1) - Len(original) + i
      BY <1>3, <2>1, <2>2
    <3> QED BY <1>5, <2>1, <3>1
  <2>4. ASSUME NEW i \in 1..((N + 1) - Len(original)) PROVE list'[i] \notin Range(original)
    <3>1. CASE i = 1
      BY <1>5, <2>2, <3>1
    <3>2. CASE i # 1
      <4>1. i \in 2..(N + 1) /\ i - 1 \in 1..(N - Len(original))
        BY <1>3, <2>1, <2>2, <3>2
      <4> QED BY <1>7, <2>1, <4>1
    <3> QED BY <3>1, <3>2
  <2>5. Len(original) <= N + 1
    BY <1>3, <2>1, <2>2
  <2>6. OriginalIsOlder'
    BY <1>2, <1>5, <2>3, <2>4, <2>5 DEF OriginalIsOlder
  <2>7. ASSUME NEW i \in 1..(N + 1), i <= Fetched, list'[i] \in Range(original)
        PROVE  list'[i] \in Range(acc)
    <3>1. i # 1
      BY <1>5, <2>2, <2>7
    <3>2. i \in 2..(N + 1)
      BY <1>3, <3>1
    <3>3. Fetched \in Nat
      <4>1. page > 0
        BY <1>2 DEF LInv, ListingTypeOK
      <4> QED BY <4>1, ChunkIs DEF LInv
    <3>4. i - 1 \in 1..N /\ i - 1 <= Fetched /\ list'[i] = list[i - 1]
      BY <1>3, <1>7, <2>7, <3>2, <3>3
    <3>5. page > 0
      BY <1>2 DEF LInv, ListingTypeOK
    <3> QED BY <1>12, <2>7, <3>4, <3>5 DEF LInv, NoneIsMissed, N
  <2>8. NoneIsMissed'
    BY <1>2, <1>5, <1>10, <2>7 DEF NoneIsMissed
  <2> QED BY <2>6, <2>8
<1>13. StillTheBeginning'
  BY <1>2 DEF StillTheBeginning
<1>14. AnswerIsThePrefix' /\ UntruncatedIsWhole'
  BY <1>2 DEF AnswerIsThePrefix, UntruncatedIsWhole, returned, LInv, ListingTypeOK
<1> QED BY <1>2, <1>9, <1>11, <1>12, <1>13, <1>14 DEF LInv

LEMMA WithdrawKeepsLInv == LInv /\ Withdraw => LInv'
<1> SUFFICES ASSUME LInv, Withdraw PROVE LInv'
  OBVIOUS
<1>1. PICK n \in DOMAIN list : list' = RemoveAt(list, n) /\ removed' = removed \cup {list[n]}
  BY DEF Withdraw
<1>2. page > 1 /\ UNCHANGED <<maxResults, page, acc, items, truncated, original, added>>
  BY DEF Withdraw, answer
<1> DEFINE N == Len(list)
           A == SubSeq(list, 1, n - 1)
           B == SubSeq(list, n + 1, N)
<1>3. list \in Seq(Item) /\ N \in Nat /\ n \in 1..N /\ \A i \in 1..N : list[i] \in Item
  BY LenProperties, ElementOfSeq DEF LInv, ListingTypeOK
<1>4. list' = A \o B
  BY <1>1 DEF RemoveAt
<1>5. A \in Seq(Item) /\ Len(A) = n - 1 /\ \A i \in 1..(n - 1) : A[i] = list[i]
  BY <1>3, FirstOnes
<1> HIDE DEF N, A
<1>6. B \in Seq(Item) /\ Len(B) = N - n /\ \A i \in 1..(N - n) : B[i] = list[n + i]
  <2>1. n + 1 \in Int /\ N \in Int /\ \A i \in (n + 1)..N : list[i] \in Item
    BY <1>3
  <2>2. /\ B \in Seq(Item) /\ Len(B) = IF n + 1 <= N THEN N - (n + 1) + 1 ELSE 0
        /\ \A i \in 1..(N - (n + 1) + 1) : B[i] = list[n + 1 + i - 1]
    BY <2>1, SubSeqProperties
  <2>3. \A i \in 1..(N - n) : i \in 1..(N - (n + 1) + 1) /\ n + 1 + i - 1 = n + i
    BY <1>3
  <2> HIDE DEF B
  <2> QED BY <1>3, <2>2, <2>3
<1> HIDE DEF B
<1>7. /\ list' \in Seq(Item) /\ Len(list') = N - 1
      /\ \A i \in 1..(N - 1) : list'[i] = IF i < n THEN list[i] ELSE list[i + 1]
  <2>1. /\ A \o B \in Seq(Item) /\ Len(A \o B) = Len(A) + Len(B)
        /\ \A i \in 1..(Len(A) + Len(B)) : (A \o B)[i] = IF i <= Len(A) THEN A[i] ELSE B[i - Len(A)]
    BY <1>5, <1>6, ConcatProperties
  <2>2. Len(A) + Len(B) = N - 1
    BY <1>3, <1>5, <1>6
  <2>3. ASSUME NEW i \in 1..(N - 1) PROVE (A \o B)[i] = IF i < n THEN list[i] ELSE list[i + 1]
    <3>1. CASE i < n
      <4>1. i \in 1..(n - 1) /\ i <= Len(A)
        BY <1>3, <1>5, <3>1
      <4> QED BY <1>5, <2>1, <2>2, <3>1, <4>1
    <3>2. CASE ~(i < n)
      <4>1. ~(i <= Len(A)) /\ i - Len(A) \in 1..(N - n) /\ n + (i - Len(A)) = i + 1
        BY <1>3, <1>5, <3>2
      <4> QED BY <1>6, <2>1, <2>2, <3>2, <4>1
    <3> QED BY <3>1, <3>2
  <2> QED BY <1>4, <2>1, <2>2, <2>3
<1>8. ListingTypeOK'
  <2>1. IsInjective(list')
    <3>1. \A c, d \in 1..N : list[c] = list[d] => c = d
      BY <1>3, LenProperties DEF LInv, ListingTypeOK, IsInjective, N
    <3>2. DOMAIN list' = 1..(N - 1)
      BY <1>7, LenProperties
    <3> SUFFICES ASSUME NEW a \in 1..(N - 1), NEW b \in 1..(N - 1), list'[a] = list'[b]
                 PROVE  a = b
      BY <3>2 DEF IsInjective
    <3> DEFINE to(i) == IF i < n THEN i ELSE i + 1
    <3>3. to(a) \in 1..N /\ to(b) \in 1..N
      BY <1>3
    <3>4. list[to(a)] = list[to(b)]
      BY <1>7
    <3>5. to(a) = to(b)
      BY <3>1, <3>3, <3>4
    <3> QED BY <1>3, <3>5
  <2>2. removed' \subseteq Item
    BY <1>1, <1>3 DEF LInv, ListingTypeOK
  <2> QED BY <1>2, <1>7, <2>1, <2>2 DEF LInv, ListingTypeOK
<1>9. PagesWereFull'
  BY <1>2 DEF LInv, PagesWereFull, Fetched, perPage
<1>10. removed' # {}
  BY <1>1
<1>11. AnswerIsThePrefix' /\ UntruncatedIsWhole'
  BY <1>2, <1>10 DEF AnswerIsThePrefix, UntruncatedIsWhole
<1> QED BY <1>8, <1>9, <1>10, <1>11 DEF LInv

THEOREM ListingInvariance == ListingSpec => []LInv
<1>1. LInv /\ UNCHANGED lvars => LInv'
  BY DEF lvars, LInv, ListingTypeOK, PagesWereFull, OriginalIsOlder, NoneIsMissed,
         StillTheBeginning, IsBeginning, AnswerIsThePrefix, UntruncatedIsWhole, Fetched,
         perPage, returned, whole
<1>2. LInv /\ [ListingNext]_lvars => LInv'
  BY <1>1, FetchPageKeepsLInv, AddKeepsLInv, WithdrawKeepsLInv DEF ListingNext
<1> QED BY <1>2, InitHasLInv, PTL DEF ListingSpec

\* Every variable keeps its type; no more items are returned than were asked for.
THEOREM ListingTypeCorrect == ListingSpec => []ListingTypeOK
BY ListingInvariance, PTL DEF LInv

\* A list that does not change is answered with its first items, for any
\* limit and any size of a page.
THEOREM AnswerIsThePrefixHolds == ListingSpec => []AnswerIsThePrefix
BY ListingInvariance, PTL DEF LInv

\* Whatever is added between the pages, a listing of whole pages that does not
\* say it is truncated holds all that was there from beginning to end.
THEOREM UntruncatedIsWholeHolds == ListingSpec => []UntruncatedIsWhole
BY ListingInvariance, PTL DEF LInv

=============================================================================

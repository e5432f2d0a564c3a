--------------------------- MODULE DbAccessProofs ---------------------------
(***************************************************************************)
(* Proofs about DbAccess, for any number of calls and servers.  The        *)
(* invariant ties the connections that are out to the pools they came      *)
(* from: a pool is entered once, under its builder's name, so a connection *)
(* whose pool has left the table never finds it there again.               *)
(***************************************************************************)
EXTENDS DbAccess, TLAPS

Asked(c) == request[c] # None

\* A call has its request, and a pool from when it may connect.
CallsFit ==
  \A c \in Call :
    /\ pc[c] # "idle" => Asked(c)
    /\ pc[c] \in {"idle", "build"} => entry[c] = None
    /\ pc[c] \in {"connect", "run"} => entry[c] # None

\* e is the name of a pool that was built, and of one for server s.
IsPoolFor(e, s) ==
  /\ pc[e] \in {"connect", "run", "done"}
  /\ Asked(e) /\ request[e].server = s

PoolsFit ==
  /\ \A s \in Server : pools[s] # None => IsPoolFor(pools[s], s)
  /\ \A c \in Call : entry[c] # None => Asked(c) /\ IsPoolFor(entry[c], request[c].server)

\* What a pool holds open is out and came from it; what is out belongs to a
\* call that has connected; what is in use and came from a pool that is in
\* the table is noted there.
HandlesFit ==
  /\ \A e, c \in Call : c \in open[e] => c \in held /\ entry[c] = e
  /\ \A c \in held : pc[c] \in {"run", "done"} /\ entry[c] # None
  /\ \A c \in held :
       pc[c] = "run" /\ pools[request[c].server] = entry[c] => c \in open[entry[c]]

IInv ==
  /\ TypeOK
  /\ CallsFit
  /\ PoolsFit
  /\ HandlesFit
  /\ HandlesComeBack
  /\ RegistryIsEmptyAtRest

----------------------------------------------------------------------------
\* The judgements yield statuses: what is no "allow" is refused by name, and
\* the second judgement always comes to one.
LEMMA JudgementsAreTyped ==
  /\ \A rule \in Rule \ {"allow"} : StatusOf(rule) \in Status
  /\ \A r \in Request : \A live : Verdict(r, live) \in Status
  /\ \A r \in Request : Issued(r) \subseteq Grant
<1>1. \A rule \in Rule \ {"allow"} : StatusOf(rule) \in Status
  BY DEF Rule, StatusOf, Status
<1>2. ASSUME NEW r \in Request, NEW live PROVE Verdict(r, live) \in Status
  <2>1. /\ r.what \in {"schema", "read", "unbounded", "write"}
        /\ r.mode \in ApprovalMode
    BY DEF Request
  <2>2. CASE r.what \in {"schema", "write", "unbounded"}
    BY <2>2 DEF Verdict, Status
  <2>3. CASE r.what = "read"
    BY <2>1, <2>3 DEF Verdict, Status, ApprovalMode
  <2> QED BY <2>1, <2>2, <2>3
<1>3. \A r \in Request : Issued(r) \subseteq Grant
  BY DEF Issued, Grant
<1> QED BY <1>1, <1>2, <1>3

\* Before the first call the tables are empty and the invariant holds.
LEMMA InitEstablishesIInv == Init => IInv
  BY NoneIsNoCall
  DEF Init, IInv, TypeOK, CallsFit, PoolsFit, HandlesFit, HandlesComeBack, RegistryIsEmptyAtRest

\* BeginBadly: the call ends where it began.
LEMMA BeginBadlyKeepsIInv ==
  ASSUME IInv, NEW c \in Call, NEW r \in Inputs, BeginBadly(c, r)
  PROVE  IInv'
<1> USE NoneIsNoCall DEF IInv
<1>1. TypeOK'
  BY DEF BeginBadly, Answer, TypeOK, tables, permits, Status
<1>2. CallsFit'
  BY DEF BeginBadly, Answer, TypeOK, tables, CallsFit, Asked
<1>3. PoolsFit'
  BY DEF BeginBadly, Answer, TypeOK, tables, CallsFit, PoolsFit, IsPoolFor, Asked
<1>4. HandlesFit'
  BY DEF BeginBadly, Answer, TypeOK, tables, CallsFit, HandlesFit, Asked
<1>5. HandlesComeBack'
  BY DEF BeginBadly, Answer, TypeOK, tables, CallsFit, HandlesFit, HandlesComeBack, Asked
<1>6. RegistryIsEmptyAtRest'
  BY DEF BeginBadly, Answer, TypeOK, RegistryIsEmptyAtRest
<1> QED BY <1>1, <1>2, <1>3, <1>4, <1>5, <1>6

\* Begin: refused, the call ends and the registry is empty; let through, it
\* has a request and, if there is a pool for its server, that pool.
LEMMA BeginKeepsIInv ==
  ASSUME IInv, NEW c \in Call, NEW r \in Inputs, Begin(c, r)
  PROVE  IInv'
<1> USE NoneIsNoCall DEF IInv
<1>1. r \in Request /\ r.server \in Server
  BY InputsAreRequests DEF Request
<1>2. TypeOK'
  <2>1. ~PassesRules(r) => StatusOf(r.rule) \in Status
    BY <1>1, JudgementsAreTyped DEF PassesRules, Request
  <2>2. grants' \in [File -> SUBSET Grant] /\ approvals' \subseteq Server \X Grant
    BY <1>1, JudgementsAreTyped DEF Begin, TypeOK
  <2> QED BY <1>1, <2>1, <2>2 DEF Begin, Answer, TypeOK
<1>3. CallsFit'
  BY <1>1 DEF Begin, Answer, TypeOK, CallsFit, Asked
<1>4. PoolsFit'
  BY <1>1 DEF Begin, Answer, TypeOK, CallsFit, PoolsFit, IsPoolFor, Asked
<1>5. HandlesFit'
  BY <1>1 DEF Begin, Answer, TypeOK, CallsFit, HandlesFit, Asked
<1>6. HandlesComeBack'
  BY <1>1 DEF Begin, Answer, TypeOK, CallsFit, HandlesFit, HandlesComeBack, Asked
<1>7. RegistryIsEmptyAtRest'
  BY DEF Begin, Answer, TypeOK, RegistryIsEmptyAtRest
<1> QED BY <1>2, <1>3, <1>4, <1>5, <1>6, <1>7

\* Built: a pool no call has been given yet replaces the one in the table.
LEMMA BuiltKeepsIInv ==
  ASSUME IInv, NEW c \in Call, Built(c)
  PROVE  IInv'
<1> USE NoneIsNoCall DEF IInv
<1>1. Asked(c) /\ request[c].server \in Server
  BY InputsAreRequests DEF Built, CallsFit, Asked, TypeOK, Request
<1>2. TypeOK'
  BY <1>1 DEF Built, Answer, TypeOK, Status, permits
<1>3. CallsFit'
  BY <1>1 DEF Built, Answer, TypeOK, CallsFit, Asked
<1>4. PoolsFit'
  BY <1>1 DEF Built, Answer, TypeOK, CallsFit, PoolsFit, IsPoolFor, Asked
<1>5. \A d \in held : d # c /\ entry[d] # c
  BY DEF Built, PoolsFit, IsPoolFor, HandlesFit, TypeOK
<1>6. HandlesFit'
  BY <1>1, <1>5 DEF Built, Answer, TypeOK, CallsFit, HandlesFit, Asked
<1>7. HandlesComeBack'
  BY <1>1, <1>5 DEF Built, Answer, TypeOK, CallsFit, HandlesFit, HandlesComeBack, Asked
<1>8. RegistryIsEmptyAtRest'
  BY DEF Built, Answer, TypeOK, RegistryIsEmptyAtRest
<1> QED BY <1>2, <1>3, <1>4, <1>6, <1>7, <1>8

\* NoConnection: nothing was out yet.
LEMMA NoConnectionKeepsIInv ==
  ASSUME IInv, NEW c \in Call, NoConnection(c)
  PROVE  IInv'
<1> USE NoneIsNoCall DEF IInv
<1>1. TypeOK'
  BY DEF NoConnection, Answer, TypeOK, tables, permits, Status
<1>2. CallsFit'
  BY DEF NoConnection, Answer, TypeOK, tables, CallsFit, Asked
<1>3. PoolsFit'
  BY DEF NoConnection, Answer, TypeOK, tables, CallsFit, PoolsFit, IsPoolFor, Asked
<1>4. HandlesFit' /\ HandlesComeBack'
  BY DEF NoConnection, Answer, TypeOK, tables, CallsFit, HandlesFit, HandlesComeBack, Asked
<1>5. RegistryIsEmptyAtRest'
  BY DEF NoConnection, Answer, TypeOK, RegistryIsEmptyAtRest
<1> QED BY <1>1, <1>2, <1>3, <1>4, <1>5

\* A call that ends by Release, with its own connection noted in its pool in
\* `opened`, gives it back if that pool is still in the table.
LEMMA ReleaseKeepsIInv ==
  ASSUME IInv, NEW c \in Call, pc[c] \in {"connect", "run"},
         NEW opened \in [Call -> SUBSET Call], NEW out \in SUBSET Call,
         NEW s \in Status,
         out \in {held, held \cup {c}},
         \A e, d \in Call : d # c => (d \in opened[e] <=> d \in open[e]),
         \A e \in Call : c \in opened[e] => e = entry[c],
         c \in out /\ pools[request[c].server] = entry[c] => c \in opened[entry[c]],
         \A e, d \in Call : d \in opened[e] => d \in out,
         Answer(c, s), Release(c, opened, out),
         UNCHANGED <<request, pools, entry, permits>>
  PROVE  IInv'
<1> USE NoneIsNoCall DEF IInv
<1>1. Asked(c) /\ request[c].server \in Server /\ entry[c] \in Call
  BY InputsAreRequests DEF CallsFit, Asked, TypeOK, Request
<1>2. /\ open' \in [Call -> SUBSET Call] /\ held' \subseteq Call
      /\ \A d \in Call : d # c => (d \in held' <=> d \in held)
      /\ \A e, d \in Call : d # c => (d \in open'[e] <=> d \in open[e])
  BY <1>1 DEF Release, TypeOK
<1>3. c \in held' => pools[request[c].server] # entry[c]
  BY <1>1 DEF Release, TypeOK
<1>4. \A e \in Call : c \in open'[e] => c \in held' /\ e = entry[c]
  BY <1>1 DEF Release, TypeOK
<1>5. TypeOK'
  BY <1>2 DEF Answer, Release, TypeOK, permits
<1>6. CallsFit' /\ PoolsFit'
  BY <1>1 DEF Answer, TypeOK, CallsFit, PoolsFit, IsPoolFor, Asked
<1>7. HandlesFit'
  <2>1. \A e, d \in Call : d \in open'[e] => d \in held' /\ entry'[d] = e
    BY <1>2, <1>4 DEF HandlesFit
  <2>2. \A d \in held' : pc'[d] \in {"run", "done"} /\ entry'[d] # None
    BY <1>1, <1>2 DEF HandlesFit, Answer, TypeOK
  <2>3. \A d \in held' : pc'[d] = "run" => d # c
    BY DEF Answer, TypeOK
  <2>4. \A d \in held' : pc'[d] = "run" /\ pools'[request'[d].server] = entry'[d]
                           => d \in open'[entry'[d]]
    BY <1>2, <2>2, <2>3 DEF HandlesFit, Answer, TypeOK
  <2> QED BY <2>1, <2>2, <2>4 DEF HandlesFit
<1>8. HandlesComeBack'
  BY <1>2, <1>3 DEF HandlesComeBack, Answer, TypeOK
<1>9. RegistryIsEmptyAtRest'
  BY DEF Release, RegistryIsEmptyAtRest
<1> QED BY <1>5, <1>6, <1>7, <1>8, <1>9

\* Connected: sent, the connection is noted in its pool; refused, it is
\* given back at once.
LEMMA ConnectedKeepsIInv ==
  ASSUME IInv, NEW c \in Call, Connected(c)
  PROVE  IInv'
<1> USE NoneIsNoCall DEF IInv
<1> DEFINE opened == [open EXCEPT ![entry[c]] = @ \cup {c}]
           verdict == Verdict(request[c], grants[GrantFile[request[c].server]])
<1>1. Asked(c) /\ request[c] \in Request /\ entry[c] \in Call
  BY InputsAreRequests DEF Connected, CallsFit, Asked, TypeOK
<1>2. verdict \in Status
  BY <1>1, JudgementsAreTyped
<1>3. pc[c] = "connect" /\ c \notin held
  BY DEF Connected, HandlesFit
<1>4. /\ opened \in [Call -> SUBSET Call]
      /\ \A e, d \in Call : d # c => (d \in opened[e] <=> d \in open[e])
      /\ \A e \in Call : c \in opened[e] => e = entry[c]
      /\ c \in opened[entry[c]]
      /\ \A e, d \in Call : d \in opened[e] => d \in held \cup {c}
  BY <1>1, <1>3 DEF TypeOK, HandlesFit
<1>5. CASE verdict = "ok"
  <2>1. /\ pc' = [pc EXCEPT ![c] = "run"] /\ open' = opened /\ held' = held \cup {c}
        /\ UNCHANGED <<result, registered, request, pools, entry, grants, approvals>>
    BY <1>5 DEF Connected, permits
  <2>2. TypeOK'
    BY <1>4, <2>1 DEF TypeOK
  <2>3. CallsFit' /\ PoolsFit'
    BY <1>1, <2>1 DEF TypeOK, CallsFit, PoolsFit, IsPoolFor, Asked
  <2>4. HandlesFit'
    <3> HIDE DEF opened
    <3>1. \A e, d \in Call : d \in open'[e] => d \in held' /\ entry'[d] = e
      BY <1>4, <2>1 DEF HandlesFit
    <3>2. \A d \in held' : pc'[d] \in {"run", "done"} /\ entry'[d] # None
      BY <1>1, <2>1 DEF HandlesFit, TypeOK
    <3>3. \A d \in held' : pc'[d] = "run" /\ pools'[request'[d].server] = entry'[d]
                             => d \in open'[entry'[d]]
      BY <1>4, <2>1, <3>2 DEF HandlesFit, TypeOK
    <3> QED BY <3>1, <3>2, <3>3 DEF HandlesFit
  <2>5. HandlesComeBack'
    BY <2>1 DEF HandlesComeBack, TypeOK
  <2>6. RegistryIsEmptyAtRest'
    BY <2>1 DEF RegistryIsEmptyAtRest, TypeOK
  <2> QED BY <2>2, <2>3, <2>4, <2>5, <2>6
<1>6. CASE verdict # "ok"
  <2>1. /\ Answer(c, verdict) /\ Release(c, opened, held \cup {c})
        /\ UNCHANGED <<request, pools, entry, permits>>
    BY <1>6 DEF Connected
  <2>2. held \cup {c} \in SUBSET Call
    BY DEF TypeOK
  <2> HIDE DEF opened, verdict, IInv
  <2> QED BY <1>2, <1>3, <1>4, <2>1, <2>2, ReleaseKeepsIInv DEF IInv
<1> QED BY <1>5, <1>6

\* runOnEnv's finally, after the database has answered.
LEMMA ReturnKeepsIInv ==
  ASSUME IInv, NEW c \in Call, Return(c)
  PROVE  IInv'
<1>1. PICK s \in {"ok", "error"} : Answer(c, s)
  BY DEF Return
<1>2. s \in Status
  BY DEF Status
<1>3. /\ pc[c] = "run" /\ Release(c, open, held)
      /\ UNCHANGED <<request, pools, entry, permits>>
  BY DEF Return
<1>4. /\ open \in [Call -> SUBSET Call] /\ held \in SUBSET Call
      /\ \A e \in Call : c \in open[e] => e = entry[c]
      /\ c \in held /\ pools[request[c].server] = entry[c] => c \in open[entry[c]]
      /\ \A e, d \in Call : d \in open[e] => d \in held
  BY <1>3 DEF IInv, TypeOK, HandlesFit
<1> QED BY <1>1, <1>2, <1>3, <1>4, ReleaseKeepsIInv

\* Shutdown: what the table's pools have open is closed, and no connection
\* that is still out finds its pool in an empty table.
LEMMA ShutdownKeepsIInv ==
  ASSUME IInv, Shutdown
  PROVE  IInv'
<1> USE NoneIsNoCall DEF IInv
<1>1. /\ pools' = [s \in Server |-> None]
      /\ held' \subseteq held
      /\ \A e \in Call : open'[e] \in {open[e], {}}
      /\ open' \in [Call -> SUBSET Call]
      /\ UNCHANGED <<pc, request, result, registered, entry, grants, approvals>>
  BY DEF Shutdown, TypeOK, permits
<1>2. \A e, d \in Call : d \in open'[e] => d \in held'
  <2>1. SUFFICES ASSUME NEW e \in Call, NEW d \in Call, d \in open'[e]
                 PROVE  d \in held'
    OBVIOUS
  <2> DEFINE gone == {pools[s] : s \in Server} \ {None}
  <2>2. e \notin gone /\ d \in open[e]
    BY <2>1 DEF Shutdown, TypeOK
  <2>3. \A f \in gone : f \in Call
    BY DEF TypeOK
  <2>4. d \notin UNION {open[f] : f \in gone}
    BY <2>2, <2>3 DEF HandlesFit
  <2> QED BY <2>2, <2>4 DEF Shutdown, HandlesFit
<1>3. TypeOK'
  BY <1>1 DEF TypeOK
<1>4. CallsFit' /\ PoolsFit'
  BY <1>1 DEF TypeOK, CallsFit, PoolsFit, IsPoolFor, Asked
<1>5. \A c \in held' : Asked(c) /\ request[c].server \in Server
  BY <1>1, InputsAreRequests DEF HandlesFit, CallsFit, Asked, TypeOK, Request
<1>6. HandlesFit'
  BY <1>1, <1>2, <1>5 DEF HandlesFit, TypeOK
<1>7. HandlesComeBack'
  BY <1>1, <1>5 DEF HandlesComeBack, HandlesFit, TypeOK
<1>8. RegistryIsEmptyAtRest'
  BY <1>1 DEF RegistryIsEmptyAtRest
<1> QED BY <1>3, <1>4, <1>6, <1>7, <1>8

\* Grants come and go without a call moving.
LEMMA GrantsKeepIInv ==
  ASSUME IInv, Lapse \/ GrantElsewhere
  PROVE  IInv'
<1>1. UNCHANGED <<pc, request, result, registered, pools, entry, open, held>>
  BY DEF Lapse, GrantElsewhere, tables
<1>2. grants' \in [File -> SUBSET Grant] /\ approvals' \subseteq Server \X Grant
  BY ElsewhereIsGranted DEF IInv, TypeOK, Lapse, GrantElsewhere
<1> QED BY <1>1, <1>2
        DEF IInv, TypeOK, CallsFit, PoolsFit, IsPoolFor, HandlesFit, HandlesComeBack,
            RegistryIsEmptyAtRest, Asked

\* Whatever order calls, shutdowns and grants come in, the tables and the
\* calls fit together (IInv).
THEOREM IInvHolds == Spec => []IInv
<1>1. Init => IInv
  BY InitEstablishesIInv
<1>2. IInv /\ [Next]_vars => IInv'
  <2> SUFFICES ASSUME IInv, [Next]_vars PROVE IInv'
    OBVIOUS
  <2>1. CASE \E c \in Call, r \in Inputs : BeginBadly(c, r) \/ Begin(c, r)
    BY <2>1, BeginBadlyKeepsIInv, BeginKeepsIInv
  <2>2. CASE \E c \in Call : Step(c)
    BY <2>2, BuiltKeepsIInv, NoConnectionKeepsIInv, ConnectedKeepsIInv, ReturnKeepsIInv DEF Step
  <2>3. CASE Shutdown
    BY <2>3, ShutdownKeepsIInv
  <2>4. CASE Lapse \/ GrantElsewhere
    BY <2>4, GrantsKeepIInv
  <2>5. CASE UNCHANGED vars
    BY <2>5 DEF vars, IInv, TypeOK, CallsFit, PoolsFit, IsPoolFor, HandlesFit,
                HandlesComeBack, RegistryIsEmptyAtRest, Asked
  <2> QED BY <2>1, <2>2, <2>3, <2>4, <2>5 DEF Next
<1> QED BY <1>1, <1>2, PTL DEF Spec

----------------------------------------------------------------------------
\* Every variable of the connector's two tables and of its calls keeps its
\* type (TypeOK), for any set of calls, servers and requests.
THEOREM TypeCorrect == Spec => []TypeOK
<1>1. IInv => TypeOK
  BY DEF IInv
<1> QED BY <1>1, IInvHolds, PTL

\* However first calls race, registries are cleared and pools are shut down,
\* releaseConnection fails to close a connection only if its pool is no longer
\* the one in the table (HandlesComeBack).
THEOREM HandlesComeBackHolds == Spec => []HandlesComeBack
<1>1. IInv => HandlesComeBack
  BY DEF IInv
<1> QED BY <1>1, IInvHolds, PTL

\* clearEnvironments on every path of runOnEnv leaves nothing registered once
\* no call is under way (RegistryIsEmptyAtRest).
THEOREM RegistryIsEmptyAtRestHolds == Spec => []RegistryIsEmptyAtRest
<1>1. IInv => RegistryIsEmptyAtRest
  BY DEF IInv
<1> QED BY <1>1, IInvHolds, PTL

----------------------------------------------------------------------------
\* Every live grant was given for a server that has this file.
GrantsWereGiven ==
  \A s \in Server : \A g \in grants[GrantFile[s]] : Approved(s, g)

\* Only a request the rules let through gets to a pool.
GatedFirst == \A c \in Call : pc[c] \in {"build", "connect", "run"} => PassesRules(request[c])

PInv == GrantsWereGiven /\ GatedFirst /\ RunsAsPermitted

\* Approvals are never taken back.
LEMMA ApprovalsStay ==
  ASSUME approvals \subseteq approvals', NEW s \in Server, NEW g, Approved(s, g)
  PROVE  Approved(s, g)'
BY DEF Approved

\* What is running stays permitted while nothing more is sent.
LEMMA RunsStayPermitted ==
  ASSUME RunsAsPermitted, approvals \subseteq approvals',
         \A d \in Call : pc'[d] = "run" => pc[d] = "run" /\ request'[d] = request[d]
  PROVE  RunsAsPermitted'
<1>1. ASSUME NEW s, NEW g, Approved(s, g) PROVE Approved(s, g)'
  BY <1>1 DEF Approved
<1>2. ASSUME NEW d \in Call, pc'[d] = "run", NEW q, q = request'[d], q.what # "schema"
      PROVE  /\ q.rule = "allow"
             /\ q.what = "read" =>
                  \/ q.mode = "auto"
                  \/ q.mode = "confirm_once" /\ Approved(q.server, "session")'
                  \/ q.mode = "grant_required" /\ Approved(q.server, "read")'
  <2>1. pc[d] = "run" /\ q = request[d]
    BY <1>2
  <2>2. /\ q.rule = "allow"
        /\ q.what = "read" =>
             \/ q.mode = "auto"
             \/ q.mode = "confirm_once" /\ Approved(q.server, "session")
             \/ q.mode = "grant_required" /\ Approved(q.server, "read")
    BY <1>2, <2>1 DEF RunsAsPermitted
  <2> QED BY <1>1, <2>2
<1> QED BY <1>2 DEF RunsAsPermitted

\* No step of runOnEnv sends, or makes possible to send, what nobody approved
\* for a server of the same file.
LEMMA StepKeepsPInv ==
  ASSUME IInv, PInv, [Next]_vars
  PROVE  PInv'
<1> USE NoneIsNoCall, ServersHaveFiles
<1>1. ASSUME NEW c \in Call, NEW r \in Inputs, Begin(c, r)
      PROVE  PInv'
  <2>1. r \in Request /\ r.server \in Server
    BY InputsAreRequests DEF Request
  <2>2. GrantsWereGiven'
    <3>1. ~r.approve => Issued(r) = {}
      BY DEF Issued
    <3>2. \A s \in Server : GrantFile[s] # GrantFile[r.server] =>
            grants'[GrantFile[s]] = grants[GrantFile[s]]
      BY <1>1, <2>1 DEF Begin, IInv, TypeOK
    <3>3. grants'[GrantFile[r.server]] = grants[GrantFile[r.server]] \cup Issued(r)
      BY <1>1, <2>1 DEF Begin, IInv, TypeOK
    <3>4. /\ approvals \subseteq approvals'
          /\ r.approve => approvals' = approvals \cup ({r.server} \X Issued(r))
      BY <1>1 DEF Begin
    <3>5. ASSUME NEW s \in Server, NEW g \in grants'[GrantFile[s]]
          PROVE  Approved(s, g)'
      <4>1. CASE g \in grants[GrantFile[s]]
        BY <3>4, <4>1, ApprovalsStay DEF PInv, GrantsWereGiven
      <4>2. CASE g \notin grants[GrantFile[s]]
        <5>1. GrantFile[s] = GrantFile[r.server] /\ g \in Issued(r) /\ r.approve
          BY <3>1, <3>2, <3>3, <3>5, <4>2
        <5>2. <<r.server, g>> \in approvals'
          BY <3>4, <5>1
        <5> QED BY <2>1, <5>1, <5>2 DEF Approved
      <4> QED BY <4>1, <4>2
    <3> QED BY <3>5 DEF GrantsWereGiven
  <2>3. GatedFirst'
    BY <1>1 DEF Begin, Answer, PInv, GatedFirst, IInv, TypeOK, PassesRules
  <2>4. RunsAsPermitted'
    <3>1. approvals \subseteq approvals'
      BY <1>1 DEF Begin
    <3>2. \A d \in Call : pc'[d] = "run" => pc[d] = "run" /\ request'[d] = request[d]
      BY <1>1 DEF Begin, Answer, IInv, TypeOK
    <3> QED BY <3>1, <3>2, RunsStayPermitted DEF PInv
  <2> QED BY <2>2, <2>3, <2>4 DEF PInv
<1>2. ASSUME NEW c \in Call, Connected(c)
      PROVE  PInv'
  <2> DEFINE r == request[c]
             live == grants[GrantFile[r.server]]
  <2>1. r \in Request /\ r.server \in Server /\ PassesRules(r)
    BY <1>2, InputsAreRequests
    DEF Connected, IInv, CallsFit, Asked, TypeOK, Request, PInv, GatedFirst
  <2>2. UNCHANGED <<request, grants, approvals>>
    BY <1>2 DEF Connected, permits
  <2>3. pc'[c] = "run" => Verdict(r, live) = "ok"
    BY <1>2 DEF Connected, Answer, IInv, TypeOK
  <2>4. \A d \in Call : d # c => pc'[d] = pc[d]
    BY <1>2 DEF Connected, Answer, IInv, TypeOK
  <2>5. ASSUME Verdict(r, live) = "ok", r.what # "schema"
        PROVE  /\ r.rule = "allow"
               /\ r.what = "read" =>
                    \/ r.mode = "auto"
                    \/ r.mode = "confirm_once" /\ Approved(r.server, "session")
                    \/ r.mode = "grant_required" /\ Approved(r.server, "read")
    <3>1. r.rule = "allow"
      BY <2>1, <2>5 DEF PassesRules
    <3>2. ASSUME r.what = "read"
          PROVE  \/ r.mode = "auto"
                 \/ r.mode = "confirm_once" /\ "session" \in live
                 \/ r.mode = "grant_required" /\ "read" \in live
      <4>1. r.mode \in ApprovalMode
        BY <2>1 DEF Request
      <4> HIDE DEF r, live
      <4> QED BY <2>5, <3>2, <4>1 DEF Verdict, ApprovalMode
    <3>3. \A g \in live : Approved(r.server, g)
      BY <2>1 DEF PInv, GrantsWereGiven
    <3> QED BY <3>1, <3>2, <3>3
  <2>6. RunsAsPermitted'
    BY <2>2, <2>3, <2>4, <2>5 DEF PInv, RunsAsPermitted, Approved
  <2>7. GrantsWereGiven' /\ GatedFirst'
    BY <1>2, <2>1, <2>2, <2>4 DEF PInv, GrantsWereGiven, GatedFirst, Approved
  <2> QED BY <2>6, <2>7 DEF PInv
<1>3. ASSUME NEW c \in Call, Built(c) \/ NoConnection(c) \/ Return(c)
      PROVE  PInv'
  <2>1. /\ UNCHANGED <<request, grants, approvals>>
        /\ pc'[c] \in {"connect", "done"}
        /\ pc'[c] = "connect" => pc[c] = "build"
        /\ \A d \in Call : d # c => pc'[d] = pc[d]
    BY <1>3 DEF Built, NoConnection, Return, Answer, permits, IInv, TypeOK
  <2>2. GrantsWereGiven'
    BY <2>1 DEF PInv, GrantsWereGiven, Approved
  <2>3. GatedFirst'
    BY <2>1 DEF PInv, GatedFirst
  <2>4. RunsAsPermitted'
    BY <2>1, RunsStayPermitted DEF PInv
  <2> QED BY <2>2, <2>3, <2>4 DEF PInv
<1>4. ASSUME NEW c \in Call, NEW r \in Inputs, BeginBadly(c, r)
      PROVE  PInv'
  <2>1. /\ UNCHANGED <<grants, approvals>>
        /\ pc'[c] = "done"
        /\ \A d \in Call : d # c => pc'[d] = pc[d] /\ request'[d] = request[d]
    BY <1>4 DEF BeginBadly, Answer, permits, IInv, TypeOK
  <2>2. GrantsWereGiven'
    BY <2>1 DEF PInv, GrantsWereGiven, Approved
  <2>3. GatedFirst'
    BY <2>1 DEF PInv, GatedFirst
  <2>4. RunsAsPermitted'
    BY <2>1, RunsStayPermitted DEF PInv
  <2> QED BY <2>2, <2>3, <2>4 DEF PInv
<1>5. CASE Shutdown \/ UNCHANGED vars
  <2>1. UNCHANGED <<pc, request, grants, approvals>>
    BY <1>5 DEF Shutdown, vars, permits
  <2> QED BY <2>1 DEF PInv, GrantsWereGiven, GatedFirst, RunsAsPermitted, Approved
<1>6. CASE Lapse
  <2>1. UNCHANGED <<pc, request, approvals>> /\ \A f \in File : grants'[f] \subseteq grants[f]
    BY <1>6 DEF Lapse, tables, IInv, TypeOK
  <2> QED BY <2>1 DEF PInv, GrantsWereGiven, GatedFirst, RunsAsPermitted, Approved
<1>7. CASE GrantElsewhere
  <2>1. PICK a \in Elsewhere : /\ grants' = [grants EXCEPT ![GrantFile[a[1]]] = @ \cup {a[2]}]
                               /\ approvals' = approvals \cup {a}
    BY <1>7 DEF GrantElsewhere
  <2>2. a = <<a[1], a[2]>> /\ a[1] \in Server
    BY ElsewhereIsGranted
  <2>3. UNCHANGED <<pc, request>> /\ approvals \subseteq approvals'
    BY <1>7, <2>1 DEF GrantElsewhere
  <2>4. ASSUME NEW s \in Server, NEW g \in grants'[GrantFile[s]]
        PROVE  Approved(s, g)'
    <3>1. CASE g \in grants[GrantFile[s]]
      BY <2>3, <3>1, ApprovalsStay DEF PInv, GrantsWereGiven
    <3>2. CASE g \notin grants[GrantFile[s]]
      <4>1. GrantFile[s] = GrantFile[a[1]] /\ g = a[2]
        BY <2>1, <2>2, <2>4, <3>2 DEF IInv, TypeOK
      <4>2. <<a[1], g>> \in approvals'
        BY <2>1, <2>2, <4>1
      <4> QED BY <2>2, <4>1, <4>2 DEF Approved
    <3> QED BY <3>1, <3>2
  <2>5. GrantsWereGiven'
    BY <2>4 DEF GrantsWereGiven
  <2>6. GatedFirst' /\ RunsAsPermitted'
    BY <2>3, RunsStayPermitted DEF PInv, GatedFirst
  <2> QED BY <2>5, <2>6 DEF PInv
<1> QED BY <1>1, <1>2, <1>3, <1>4, <1>5, <1>6, <1>7 DEF Next, Step

\* What reaches a database is permitted by the rules and by an approval for a
\* server with the same grant file (RunsAsPermitted), whichever aliases the
\* names of the files tell apart.
THEOREM RunsAsPermittedHolds == Spec => []RunsAsPermitted
<1>1. Init => PInv
  BY ServersHaveFiles DEF Init, PInv, GrantsWereGiven, GatedFirst, RunsAsPermitted
<1>2. IInv /\ PInv /\ [Next]_vars => PInv'
  BY StepKeepsPInv
<1>3. PInv => RunsAsPermitted
  BY DEF PInv
<1> QED BY <1>1, <1>2, <1>3, IInvHolds, PTL DEF Spec

=============================================================================

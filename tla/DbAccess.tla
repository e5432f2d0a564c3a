------------------------------ MODULE DbAccess ------------------------------
(***************************************************************************)
(* The database connector's runOnEnv (src/connectors/db/dispatcher.ts) and *)
(* the two process-wide tables under it: the registry of environments      *)
(* (lib/environments.ts) and the connection pools (lib/connection.ts).     *)
(* Calls run concurrently in one process, cut at their awaits:             *)
(*   Begin      configuration, registration, grants, the pre-connect gate, *)
(*              and getConnection up to its first await                    *)
(*   Built      the driver is loaded and its pool entered in the table     *)
(*   Connected  the driver (external) has handed out a connection; the     *)
(*              statement is judged again and, if allowed, sent            *)
(*   Return     the database (external) has answered                       *)
(* A pool is named by the call that built it and a connection by the call  *)
(* it was opened for.  Grants live in files that other processes share and *)
(* that time empties.  All calls find the same configuration.              *)
(***************************************************************************)
EXTENDS Naturals, FiniteSets

CONSTANTS
  Call,       \* the calls of runOnEnv, each made once
  Server,     \* the server aliases of the configuration
  File,       \* grant files
  GrantFile,  \* grantStorePathFor: the grant file of each alias
  Inputs,     \* the requests considered
  Elsewhere,  \* the approvals, <<server, grant>>, other processes may be given
  None

Rule == {"allow", "present", "escalate", "deny"}
ApprovalMode == {"auto", "confirm_once", "confirm_each", "grant_required"}
Grant == {"read", "session"}
\* What a call asks for: an introspection, a read, a SELECT without bounds
\* that unbounded_select does not allow, or a change; the strictest rule of
\* the statement's operations; the approval mode in force; approve_grant.
Request == [server : Server, what : {"schema", "read", "unbounded", "write"},
            rule : Rule, mode : ApprovalMode, approve : BOOLEAN]
Status == {"ok", "error", "denied", "escalate", "present_only"}

ASSUME InputsAreRequests == Inputs \subseteq Request
ASSUME ElsewhereIsGranted == Elsewhere \subseteq Server \X Grant
ASSUME ServersHaveFiles == GrantFile \in [Server -> File]
ASSUME NoneIsNoCall == None \notin Call /\ None \notin Inputs

VARIABLES
  pc,          \* where each call is
  request,     \* what it asked for
  result,      \* the status it returned
  registered,  \* _registry: the aliases that have an environment
  pools,       \* _pools: the pool of each alias
  entry,       \* the pool a call got its connection from
  open,        \* openConnections of each pool
  held,        \* the connections the drivers have out
  grants,      \* the live grants of each file
  approvals    \* history: the grants people gave, by alias

vars == <<pc, request, result, registered, pools, entry, open, held, grants, approvals>>
tables == <<pools, entry, open, held>>
permits == <<grants, approvals>>

TypeOK ==
  /\ pc \in [Call -> {"idle", "build", "connect", "run", "done"}]
  /\ request \in [Call -> Inputs \cup {None}]
  /\ result \in [Call -> Status \cup {None}]
  /\ registered \subseteq Server
  /\ pools \in [Server -> Call \cup {None}]
  /\ entry \in [Call -> Call \cup {None}]
  /\ open \in [Call -> SUBSET Call]
  /\ held \subseteq Call
  /\ grants \in [File -> SUBSET Grant]
  /\ approvals \subseteq Server \X Grant

Init ==
  /\ pc = [c \in Call |-> "idle"]
  /\ request = [c \in Call |-> None]
  /\ result = [c \in Call |-> None]
  /\ registered = {}
  /\ pools = [s \in Server |-> None]
  /\ entry = [c \in Call |-> None]
  /\ open = [c \in Call |-> {}]
  /\ held = {}
  /\ grants = [f \in File |-> {}]
  /\ approvals = {}

----------------------------------------------------------------------------
\* Judging a request.

StatusOf(rule) ==
  CASE rule = "deny"     -> "denied"
    [] rule = "present"  -> "present_only"
    [] rule = "escalate" -> "escalate"

\* The pre-connect gate looks at the rules alone.
PassesRules(r) == r.what = "schema" \/ r.rule = "allow"

\* executeQuery's own check: an allowed read goes on to the approval mode.
Verdict(r, live) ==
  CASE r.what \in {"schema", "write"} -> "ok"
    [] r.what = "unbounded"           -> "escalate"
    [] r.what = "read" ->
         CASE r.mode = "auto"           -> "ok"
           [] r.mode = "confirm_once"   -> IF "session" \in live THEN "ok" ELSE "escalate"
           [] r.mode = "confirm_each"   -> "escalate"
           [] r.mode = "grant_required" -> IF "read" \in live THEN "ok" ELSE "denied"

\* Each of the two modes that wait for a grant, with the kind it waits for.
GrantOf == {<<"grant_required", "read">>, <<"confirm_once", "session">>}

\* A bug: approve_grant is not looked at.
IssuedUnasked(r) ==
  {g \in Grant : r.what # "schema" /\ <<r.mode, g>> \in GrantOf}

\* What approve_grant issues: before the gate, whatever the gate will say.
Issued(r) ==
  {g \in Grant : r.what # "schema" /\ r.approve /\ <<r.mode, g>> \in GrantOf}

----------------------------------------------------------------------------
\* The calls.

Answer(c, s) ==
  /\ pc' = [pc EXCEPT ![c] = "done"]
  /\ result' = [result EXCEPT ![c] = s]

\* The configuration cannot be loaded, or does not name the server; or an
\* environment cannot be registered, upon which the registry is cleared.
BeginBadly(c, r) ==
  /\ pc[c] = "idle"
  /\ request' = [request EXCEPT ![c] = r]
  /\ registered' \in {registered, {}}
  /\ Answer(c, "error")
  /\ UNCHANGED <<tables, permits>>

\* Every server of a plugin configuration is registered; of a legacy one,
\* only the one asked for.  Past the gate, the pool's absence decides whether
\* a driver is to be loaded.
Begin(c, r) ==
  /\ pc[c] = "idle"
  /\ request' = [request EXCEPT ![c] = r]
  /\ grants' = [grants EXCEPT ![GrantFile[r.server]] = @ \cup Issued(r)]
  /\ approvals' = IF r.approve THEN approvals \cup ({r.server} \X Issued(r)) ELSE approvals
  /\ \/ /\ ~PassesRules(r)
        /\ registered' = {}
        /\ Answer(c, StatusOf(r.rule))
        /\ UNCHANGED entry
     \/ /\ PassesRules(r)
        /\ \E R \in {Server, {r.server}} : registered' = registered \cup R
        /\ pc' = [pc EXCEPT ![c] = IF pools[r.server] = None THEN "build" ELSE "connect"]
        /\ entry' = [entry EXCEPT ![c] = pools[r.server]]
        /\ UNCHANGED result
  /\ UNCHANGED <<pools, open, held>>

\* The new pool replaces whatever is in the table; then the environment is
\* looked up again, and may be gone.
Built(c) ==
  /\ pc[c] = "build"
  /\ pools' = [pools EXCEPT ![request[c].server] = c]
  /\ entry' = [entry EXCEPT ![c] = c]
  /\ IF request[c].server \in registered
     THEN pc' = [pc EXCEPT ![c] = "connect"] /\ UNCHANGED <<result, registered>>
     ELSE Answer(c, "error") /\ registered' = {}
  /\ UNCHANGED <<request, open, held, permits>>

\* A bug: the early return forgets clearEnvironments.
NoConnectionUncleared(c) ==
  /\ pc[c] \in {"build", "connect"}
  /\ Answer(c, "error")
  /\ UNCHANGED <<request, registered, tables, permits>>

\* The driver cannot be loaded, or its connect fails.
NoConnection(c) ==
  /\ pc[c] \in {"build", "connect"}
  /\ Answer(c, "error")
  /\ registered' = {}
  /\ UNCHANGED <<request, tables, permits>>

\* runOnEnv's finally: releaseConnection looks the pool up by alias and
\* closes what it finds there; then clearEnvironments.
Release(c, opened, out) ==
  LET e == pools[request[c].server]
  IN  /\ IF e # None /\ c \in opened[e]
         THEN open' = [opened EXCEPT ![e] = @ \ {c}] /\ held' = out \ {c}
         ELSE open' = opened /\ held' = out
      /\ registered' = {}

\* A bug: what is noted in openConnections is not what the caller gets.
ConnectedUnawaited(c) ==
  /\ pc[c] = "connect"
  /\ LET r       == request[c]
         verdict == Verdict(r, grants[GrantFile[r.server]])
     IN  IF verdict = "ok"
         THEN /\ pc' = [pc EXCEPT ![c] = "run"]
              /\ held' = held \cup {c}
              /\ UNCHANGED <<result, registered, open>>
         ELSE Answer(c, verdict) /\ Release(c, open, held \cup {c})
  /\ UNCHANGED <<request, pools, entry, permits>>

Connected(c) ==
  /\ pc[c] = "connect"
  /\ LET r       == request[c]
         opened  == [open EXCEPT ![entry[c]] = @ \cup {c}]
         verdict == Verdict(r, grants[GrantFile[r.server]])
     IN  IF verdict = "ok"
         THEN /\ pc' = [pc EXCEPT ![c] = "run"]
              /\ open' = opened
              /\ held' = held \cup {c}
              /\ UNCHANGED <<result, registered>>
         ELSE Answer(c, verdict) /\ Release(c, opened, held \cup {c})
  /\ UNCHANGED <<request, pools, entry, permits>>

\* The database answers, or fails.
Return(c) ==
  /\ pc[c] = "run"
  /\ \E s \in {"ok", "error"} : Answer(c, s)
  /\ Release(c, open, held)
  /\ UNCHANGED <<request, pools, entry, permits>>

----------------------------------------------------------------------------
\* Around the calls.

\* SIGINT or SIGTERM in a host that lives on, or its call of shutdownAll():
\* every connection of every pool in the table is closed.
Shutdown ==
  /\ \E s \in Server : pools[s] # None
  /\ LET gone == {pools[s] : s \in Server} \ {None}
     IN  /\ held' = held \ UNION {open[e] : e \in gone}
         /\ open' = [e \in Call |-> IF e \in gone THEN {} ELSE open[e]]
  /\ pools' = [s \in Server |-> None]
  /\ UNCHANGED <<pc, request, result, registered, entry, permits>>

\* A grant expires; or another process, which had read the file before the
\* grant was in it, writes it back.
Lapse ==
  /\ \E f \in File : \E g \in grants[f] : grants' = [grants EXCEPT ![f] = @ \ {g}]
  /\ UNCHANGED <<pc, request, result, registered, tables, approvals>>

\* Somebody approves in another process.
GrantElsewhere ==
  /\ \E a \in Elsewhere \ approvals :
       /\ grants' = [grants EXCEPT ![GrantFile[a[1]]] = @ \cup {a[2]}]
       /\ approvals' = approvals \cup {a}
  /\ UNCHANGED <<pc, request, result, registered, tables>>

Step(c) ==
  \/ Built(c)
  \/ NoConnection(c)
  \/ Connected(c)
  \/ Return(c)

Next ==
  \/ \E c \in Call, r \in Inputs : BeginBadly(c, r) \/ Begin(c, r)
  \/ \E c \in Call : Step(c)
  \/ Shutdown
  \/ Lapse
  \/ GrantElsewhere

Spec == Init /\ [][Next]_vars

----------------------------------------------------------------------------
\* Properties.

\* A finished call has given its connection back, unless its pool has left
\* the table under it: first calls that raced, clears of the registry by
\* others, refusals after connecting and shutdowns leak nothing else.
HandlesComeBack ==
  \A c \in held : pc[c] = "done" => pools[request[c].server] # entry[c]

\* When no call is under way the registry is empty: on every path the last
\* call to end leaves no environment behind for a later one to find.
RegistryIsEmptyAtRest ==
  (\A c \in Call : pc[c] \in {"idle", "done"}) => registered = {}

\* Somebody has approved that kind of grant for a server that has the same
\* grant file: itself, or one whose alias becomes the same file name.
Approved(s, g) == \E t \in Server : GrantFile[t] = GrantFile[s] /\ <<t, g>> \in approvals

\* What is sent to a database is allowed by the rules and, for a read, by the
\* approval mode: under confirm_each never, under the others only if somebody
\* has approved that kind of grant for a server of the same grant file, here or
\* in another process, however grants come, lapse and are shared.
RunsAsPermitted ==
  \A c \in Call : pc[c] = "run" /\ request[c].what # "schema" =>
    LET r == request[c]
    IN  /\ r.rule = "allow"
        /\ r.what = "read" =>
             \/ r.mode = "auto"
             \/ r.mode = "confirm_once" /\ Approved(r.server, "session")
             \/ r.mode = "grant_required" /\ Approved(r.server, "read")

\* "Distinct DB targets never share a grant": a read that waits for an approval
\* is sent only if one was given for its very server.  This one does not hold:
\* two aliases may become the same file name.
GrantsAreNotShared ==
  \A c \in Call : pc[c] = "run" /\ request[c].what = "read" =>
    \A g \in Grant : <<request[c].mode, g>> \in GrantOf => <<request[c].server, g>> \in approvals

\* "Every query passes through the policy gate before any driver loads or any
\* connection opens": a call that is told no has not been near a pool.
RefusedOpensNothing ==
  \A c \in Call : result[c] \in {"denied", "escalate", "present_only"} => entry[c] = None

=============================================================================

---------------------------- MODULE DriverSession ----------------------------
(***************************************************************************)
(* A database driver (src/connectors/db/lib/drivers/) and the calls that   *)
(* reach it through connection.ts: the pool it creates on the first call,  *)
(* the session a call checks out, the statements executeReadAsync,         *)
(* getSchemaAsync and healthCheck send on it, the rollback when one fails, *)
(* the release and the shutdown.  Every statement the policy permits goes  *)
(* through executeReadAsync, writes too.                                   *)
(*                                                                         *)
(* The engine is chosen at the start: the drivers differ in their scripts  *)
(* and in who holds a session.  The server (external) may take a           *)
(* statement, reject it, or be cut off, before or after taking it.         *)
(* A pool and a session are named by the call they were opened for.        *)
(***************************************************************************)
EXTENDS Naturals, Sequences

CONSTANTS
  Call,     \* the calls that reach the driver, each made once
  Engines,  \* the engines considered
  None

VARIABLES
  engine,   \* the driver's engine
  schema,   \* whether the environment names a schema
  pool,     \* _pool (_client)
  promise,  \* _poolPromise (_clientPromise)
  state,    \* what became of the pool a call created
  shut,     \* shutdownAll has run
  pc,       \* where each call is
  ask,      \* what it asks for
  on,       \* the pool its handle is of
  uses,     \* the session it holds
  at,       \* the statement of its script it is at
  session,  \* the sessions the server has open
  idle,     \* those that wait in a pool
  done,     \* how often the effect of each call was made durable
  result,   \* what the call returned
  lost      \* history: the calls that lost their connection

vars == <<engine, schema, pool, promise, state, shut, pc, ask, on, uses, at,
          session, idle, done, result, lost>>
setting == <<engine, schema>>
pooling == <<pool, promise, state, shut>>
server == <<session, idle, done>>
outcome == <<result, lost>>

----------------------------------------------------------------------------
\* The drivers' scripts.

\* A bug: BEGIN instead of BEGIN READ ONLY.
PostgresqlReadWrite ==
  IF schema THEN <<"set", "begin", "schema", "query", "commit">>
  ELSE <<"set", "begin", "query", "commit">>

PostgresqlRead ==
  IF schema THEN <<"set", "begin-read-only", "schema", "query", "commit">>
  ELSE <<"set", "begin-read-only", "query", "commit">>
PostgresqlSchema == <<"catalogue", "catalogue", "catalogue">>

MysqlRead == <<"session-read-only", "set", "begin", "query", "commit">>
MysqlSchema == <<"catalogue", "catalogue">>

\* A bug: the statement is sent before the transaction begins.
SqlserverReadFirst == <<"query", "begin", "set", "commit">>

SqlserverRead == <<"begin", "set", "query", "commit">>
SqlserverSchema == <<"catalogue", "catalogue">>

OracleRead == IF schema THEN <<"schema", "query">> ELSE <<"query">>
OracleSchema == <<"catalogue", "catalogue", "catalogue">>

MongodbRead == <<"query">>
MongodbSchema == <<"catalogue", "catalogue">>

DynamodbRead == <<"query">>
DynamodbSchema == <<"catalogue", "catalogue">>

SqliteRead == <<"query">>
SqliteSchema == <<"catalogue">>

\* holds: who a session is checked out for.
\* writes: what becomes of a change the policy permits: it is sent as it is,
\*         wrapped in a SELECT, or refused by the driver itself.
\* hides: whether a statement classified as a read can change something.
\* undo: when a failure sends ROLLBACK.
Driver(read, catalogue, holds, writes, hides, undo) ==
  [read |-> read, catalogue |-> catalogue, holds |-> holds,
   writes |-> writes, hides |-> hides, undo |-> undo]

Drivers ==
  [postgresql |-> Driver(PostgresqlRead, PostgresqlSchema, "call", "wrapped", TRUE, "always"),
   mysql      |-> Driver(MysqlRead, MysqlSchema, "call", "wrapped", TRUE, "always"),
   sqlserver  |-> Driver(SqlserverRead, SqlserverSchema, "transaction", "sent", TRUE, "begun"),
   oracle     |-> Driver(OracleRead, OracleSchema, "call", "wrapped", TRUE, "always"),
   mongodb    |-> Driver(MongodbRead, MongodbSchema, "nobody", "refused", TRUE, "never"),
   dynamodb   |-> Driver(DynamodbRead, DynamodbSchema, "nobody", "refused", FALSE, "never"),
   sqlite     |-> Driver(SqliteRead, SqliteSchema, "file", "sent", FALSE, "never")]

ASSUME EnginesHaveDrivers ==
  Engines \subseteq {"postgresql", "mysql", "sqlserver", "oracle", "mongodb", "dynamodb", "sqlite"}

driver == Drivers[engine]

Asks == {"read", "write", "schema", "probe"} \cup
        IF driver.hides THEN {"hidden-write"} ELSE {}

Script(what) ==
  CASE what = "schema" -> driver.catalogue
    [] what = "probe"  -> <<"catalogue">>
    [] OTHER           -> driver.read

----------------------------------------------------------------------------
PoolStates == {"unborn", "creating", "open", "ended", "failed"}
Tx == {"none", "read-only", "read-write"}
\* tx and changes: its open transaction.  readonly: SET SESSION TRANSACTION READ
\* ONLY was done.  timed: a call's deadline is set on it.  spoilt: history, the
\* last ROLLBACK failed on it.  cut: the connection is gone.
Session == [pool : Call \cup {None}, tx : Tx, changes : SUBSET Call, readonly : BOOLEAN,
            timed : BOOLEAN, spoilt : BOOLEAN, cut : BOOLEAN]

ASSUME NoneIsNothing ==
  None \notin Call \cup Session \cup {"success", "error", "read", "write", "hidden-write", "schema", "probe"}

Fresh(p) == [pool |-> p, tx |-> "none", changes |-> {},
             readonly |-> FALSE, timed |-> FALSE, spoilt |-> FALSE, cut |-> FALSE]

TypeOK ==
  /\ engine \in Engines
  /\ schema \in BOOLEAN
  /\ pool \in Call \cup {None}
  /\ promise \in Call \cup {None}
  /\ state \in [Call -> PoolStates]
  /\ shut \in BOOLEAN
  /\ pc \in [Call -> {"idle", "connecting", "running", "undoing", "leaving", "done"}]
  /\ ask \in [Call -> Asks \cup {None}]
  /\ on \in [Call -> Call \cup {None}]
  /\ uses \in [Call -> Call \cup {None}]
  /\ at \in [Call -> Nat]
  /\ \A c \in Call : at[c] <= Len(Script(ask[c]))
  /\ session \in [Call -> Session \cup {None}]
  /\ idle \subseteq Call
  /\ done \in [Call -> 0..1]
  /\ result \in [Call -> {"success", "error", "nothing", None}]
  /\ lost \subseteq Call

Init ==
  /\ engine \in Engines
  /\ schema \in BOOLEAN
  /\ pool = None
  /\ promise = None
  /\ state = [c \in Call |-> "unborn"]
  /\ shut = FALSE
  /\ pc = [c \in Call |-> "idle"]
  /\ ask = [c \in Call |-> None]
  /\ on = [c \in Call |-> None]
  /\ uses = [c \in Call |-> None]
  /\ at = [c \in Call |-> 0]
  /\ session = [c \in Call |-> None]
  /\ idle = {}
  /\ done = [c \in Call |-> 0]
  /\ result = [c \in Call |-> None]
  /\ lost = {}

----------------------------------------------------------------------------
\* The pool.

\* A bug: a creation that is under way is not waited for.
EnsurePoolAlone(c) ==
  IF pool # None
  THEN on' = [on EXCEPT ![c] = pool] /\ UNCHANGED <<promise, state>>
  ELSE /\ on' = [on EXCEPT ![c] = c]
       /\ promise' = c
       /\ state' = [state EXCEPT ![c] = "creating"]

\* _ensurePool: the pool, else the promise of one (kept when it was
\* rejected), else a new one.
EnsurePool(c) ==
  CASE pool # None ->
         on' = [on EXCEPT ![c] = pool] /\ UNCHANGED <<promise, state>>
    [] pool = None /\ promise # None ->
         on' = [on EXCEPT ![c] = promise] /\ UNCHANGED <<promise, state>>
    [] pool = None /\ promise = None ->
         /\ on' = [on EXCEPT ![c] = c]
         /\ promise' = c
         /\ state' = [state EXCEPT ![c] = "creating"]

Connect(c) ==
  /\ pc[c] = "idle"
  /\ \E what \in Asks : ask' = [ask EXCEPT ![c] = what]
  /\ pc' = [pc EXCEPT ![c] = "connecting"]
  /\ IF driver.holds = "file" THEN UNCHANGED <<on, promise, state>> ELSE EnsurePool(c)
  /\ UNCHANGED <<setting, pool, shut, uses, at, server, outcome>>

\* The pool is the driver's from now on, even after a shutdown.
PoolOpens(p) ==
  /\ state[p] = "creating"
  /\ state' = [state EXCEPT ![p] = "open"]
  /\ pool' = p
  /\ UNCHANGED <<setting, promise, shut, pc, ask, on, uses, at, server, outcome>>

\* The client library is missing, or the server does not let it in.
PoolFails(p) ==
  /\ state[p] = "creating"
  /\ state' = [state EXCEPT ![p] = "failed"]
  /\ UNCHANGED <<setting, pool, promise, shut, pc, ask, on, uses, at, server, outcome>>

\* shutdownAll closes what is out and ends the pool.
Shutdown ==
  /\ ~shut
  /\ shut' = TRUE
  /\ pool' = None
  /\ promise' = None
  /\ state' = IF pool = None THEN state ELSE [state EXCEPT ![pool] = "ended"]
  /\ session' = [s \in Call |-> IF s \in idle /\ session[s].pool = pool THEN None
                                ELSE session[s]]
  /\ idle' = {s \in idle : session[s].pool # pool}
  /\ UNCHANGED <<setting, pc, ask, on, uses, at, done, outcome>>

----------------------------------------------------------------------------
\* Sessions.

statement(c) == Script(ask[c])[at[c]]
executing(c) == ask[c] \notin {"schema", "probe"}

\* A session in the hands of a call: sqlserver.ts takes one for a transaction,
\* oracle.ts sets callTimeout on it as executeReadAsync starts.
Taken(x, c) ==
  [x EXCEPT !.tx = IF driver.holds = "transaction" THEN "read-write" ELSE @,
            !.timed = @ \/ (engine = "oracle" /\ executing(c))]

\* The pool (external) hands out an idle session or opens one.
Acquire(c) ==
  \/ \E s \in {i \in idle : session[i].pool = on[c]} :
       /\ session' = [session EXCEPT ![s] = Taken(@, c)]
       /\ idle' = idle \ {s}
       /\ uses' = [uses EXCEPT ![c] = s]
  \/ /\ session' = [session EXCEPT ![c] = Taken(Fresh(on[c]), c)]
     /\ uses' = [uses EXCEPT ![c] = c]
     /\ UNCHANGED idle

\* What is left of a session its holder gives up: it waits in the pool, unless
\* the pool has ended or the connection is gone.
PutBack(s, x) ==
  IF x.pool # None /\ state[x.pool] = "open" /\ ~x.cut
  THEN session' = [session EXCEPT ![s] = x] /\ idle' = idle \cup {s}
  ELSE session' = [session EXCEPT ![s] = None] /\ UNCHANGED idle

\* Whether the call has to send ROLLBACK before it answers.
owesRollback(c) ==
  /\ executing(c)
  /\ \/ driver.undo = "always"
     \/ driver.undo = "begun" /\ uses[c] # None

\* A bug: the catch block answers and sends nothing.
FailAtOnce(c) ==
  /\ pc' = [pc EXCEPT ![c] = "leaving"]
  /\ result' = [result EXCEPT ![c] = IF executing(c) THEN "error" ELSE "nothing"]

\* A catch block: an error, or for a catalogue [] and for a probe false.
Fail(c) ==
  /\ pc' = [pc EXCEPT ![c] = IF owesRollback(c) THEN "undoing" ELSE "leaving"]
  /\ result' = [result EXCEPT ![c] = IF executing(c) THEN "error" ELSE "nothing"]

\* A bug: a statement is skipped.
ProceedTwice(c) ==
  /\ at' = [at EXCEPT ![c] = @ + 2]
  /\ UNCHANGED <<pc, result>>

\* The next statement, or the answer.  getSchemaAsync stops when there are no
\* tables.
Proceed(c) ==
  \/ /\ at[c] < Len(Script(ask[c]))
     /\ at' = [at EXCEPT ![c] = @ + 1]
     /\ UNCHANGED <<pc, result>>
  \/ /\ at[c] = Len(Script(ask[c])) \/ ask[c] = "schema"
     /\ pc' = [pc EXCEPT ![c] = "leaving"]
     /\ result' = [result EXCEPT ![c] = "success"]
     /\ UNCHANGED at

\* The pool, once it is there, gives the call its handle.
Checkout(c) ==
  /\ pc[c] = "connecting"
  /\ CASE driver.holds = "call" -> state[on[c]] = "open" /\ Acquire(c)
       [] driver.holds = "file" -> /\ session' = [session EXCEPT ![c] = Fresh(None)]
                                   /\ uses' = [uses EXCEPT ![c] = c]
                                   /\ UNCHANGED idle
       [] OTHER -> /\ state[on[c]] \in {"open", "ended"}
                   /\ UNCHANGED <<session, idle, uses>>
  /\ pc' = [pc EXCEPT ![c] = "running"]
  /\ at' = [at EXCEPT ![c] = 1]
  /\ UNCHANGED <<setting, pooling, ask, on, done, outcome>>

\* There is no pool, or no session to be had from it.
NoHandle(c) ==
  /\ pc[c] = "connecting"
  /\ CASE driver.holds = "call" -> state[on[c]] \in {"open", "ended", "failed"}
       [] driver.holds = "file" -> TRUE
       [] OTHER                 -> state[on[c]] = "failed"
  /\ pc' = [pc EXCEPT ![c] = "done"]
  /\ result' = [result EXCEPT ![c] = "error"]
  /\ UNCHANGED <<setting, pooling, ask, on, uses, at, server, lost>>

----------------------------------------------------------------------------
\* Statements.

\* The session a statement runs on: the call's own, or one the pool lends it
\* for the statement.
current(c) == IF uses[c] = None THEN Fresh(on[c]) ELSE session[uses[c]]

changing(c) == ask[c] \in {"write", "hidden-write"}

\* What the server lets through.  A change wrapped in a SELECT is a syntax
\* error; a hidden one fails in a read-only transaction, and as a pipeline
\* that mongodb.ts goes on with $limit; oracle runs it in a transaction of
\* its own.
Admitted(c) ==
  /\ IF uses[c] = None THEN state[on[c]] = "open" ELSE ~session[uses[c]].cut
  /\ statement(c) = "query" =>
       /\ ask[c] = "write" => driver.writes = "sent"
       /\ ask[c] = "hidden-write" => /\ current(c).tx # "read-only"
                                     /\ driver.holds # "nobody"

\* What a statement leaves of its session.
After(c, x) ==
  CASE statement(c) = "begin-read-only"   -> [x EXCEPT !.tx = "read-only"]
    [] statement(c) = "begin"             ->
         [x EXCEPT !.tx = IF x.readonly THEN "read-only" ELSE "read-write"]
    [] statement(c) = "session-read-only" -> [x EXCEPT !.readonly = TRUE]
    [] statement(c) = "set"               -> [x EXCEPT !.timed = TRUE]
    [] statement(c) = "commit"            ->
         [x EXCEPT !.tx = "none", !.changes = {}, !.spoilt = FALSE]
    [] statement(c) = "query" /\ changing(c) /\ x.tx # "none" ->
         [x EXCEPT !.changes = @ \cup {c}]
    [] OTHER -> x

\* Whose changes it makes durable.
Durable(c, x) ==
  CASE statement(c) = "commit" -> x.changes
    [] statement(c) = "query" /\ changing(c) /\ x.tx = "none" -> {c}
    [] OTHER -> {}

Bump(cs) == done' = [d \in Call |-> IF d \in cs THEN done[d] + 1 ELSE done[d]]

begins(c) == statement(c) = "begin" /\ driver.holds = "transaction"
commits(c) == statement(c) = "commit" /\ driver.holds = "transaction"

\* mongodb.ts and dynamodb.ts look at the operation before they send it.
Refuse(c) ==
  /\ pc[c] = "running" /\ statement(c) = "query"
  /\ ask[c] = "write" /\ driver.writes = "refused"
  /\ Fail(c)
  /\ UNCHANGED <<setting, pooling, ask, on, uses, at, server, lost>>

sends(c) == pc[c] = "running" /\ ~(ask[c] = "write" /\ driver.writes = "refused")

\* tx.begin takes a session.
Begin(c) ==
  /\ sends(c) /\ begins(c)
  /\ state[on[c]] = "open"
  /\ Acquire(c)
  /\ at' = [at EXCEPT ![c] = @ + 1]
  /\ UNCHANGED <<setting, pooling, pc, ask, on, done, outcome>>

Accept(c) ==
  /\ sends(c) /\ ~begins(c) /\ Admitted(c)
  /\ LET x == current(c) IN
       /\ Bump(Durable(c, x))
       /\ CASE uses[c] = None -> UNCHANGED <<session, idle, uses>>
            [] uses[c] # None /\ commits(c) ->
                 PutBack(uses[c], After(c, x)) /\ uses' = [uses EXCEPT ![c] = None]
            [] OTHER -> /\ session' = [session EXCEPT ![uses[c]] = After(c, x)]
                        /\ UNCHANGED <<idle, uses>>
  /\ Proceed(c)
  /\ UNCHANGED <<setting, pooling, ask, on, lost>>

Reject(c) ==
  /\ sends(c)
  /\ Fail(c)
  /\ UNCHANGED <<setting, pooling, ask, on, uses, at, server, lost>>

\* The connection is lost, and with it an open transaction; the server may
\* have done what it was sent.
LoseConnection(c) ==
  /\ sends(c) /\ ~begins(c) /\ Admitted(c)
  /\ Bump({}) \/ Bump(Durable(c, current(c)))
  /\ session' = IF uses[c] = None THEN session
                ELSE [session EXCEPT ![uses[c]] = [@ EXCEPT !.cut = TRUE, !.tx = "none",
                                                            !.changes = {}]]
  /\ lost' = lost \cup {c}
  /\ Fail(c)
  /\ UNCHANGED <<setting, pooling, ask, on, uses, at, idle>>

\* What ROLLBACK leaves of a session, best effort: the transaction is gone, or
\* the connection is lost with it; or the server does not take the ROLLBACK, and
\* the error is swallowed.  The last is left out for sqlserver, whose server
\* rejects a ROLLBACK only where no transaction is open.
Undone(x) ==
  {[x EXCEPT !.tx = "none", !.changes = {}, !.spoilt = FALSE, !.cut = @ \/ cut] : cut \in BOOLEAN}
    \cup (IF driver.holds = "call" THEN {[x EXCEPT !.spoilt = TRUE]} ELSE {})

Undo(c) ==
  /\ pc[c] = "undoing"
  /\ pc' = [pc EXCEPT ![c] = "leaving"]
  /\ \E x \in Undone(session[uses[c]]) :
       IF driver.holds = "transaction"
       THEN PutBack(uses[c], x) /\ uses' = [uses EXCEPT ![c] = None]
       ELSE session' = [session EXCEPT ![uses[c]] = x] /\ UNCHANGED <<idle, uses>>
  /\ UNCHANGED <<setting, pooling, ask, on, at, done, outcome>>

\* The finally of oracle.ts, then releaseConnection and the driver's close,
\* which it does not reach once shutdownAll has dropped its table.
Leave(c) ==
  /\ pc[c] = "leaving"
  /\ pc' = [pc EXCEPT ![c] = "done"]
  /\ IF uses[c] = None THEN UNCHANGED <<session, idle>>
     ELSE LET x == [session[uses[c]] EXCEPT !.timed = @ /\ engine # "oracle"] IN
          IF shut THEN session' = [session EXCEPT ![uses[c]] = x] /\ UNCHANGED idle
          ELSE PutBack(uses[c], x)
  /\ uses' = [uses EXCEPT ![c] = None]
  /\ UNCHANGED <<setting, pooling, ask, on, at, done, outcome>>

Next ==
  \/ Shutdown
  \/ \E c \in Call :
       \/ Connect(c) \/ PoolOpens(c) \/ PoolFails(c)
       \/ Checkout(c) \/ NoHandle(c)
       \/ Refuse(c) \/ Begin(c) \/ Accept(c) \/ Reject(c) \/ LoseConnection(c)
       \/ Undo(c) \/ Leave(c)

Spec == Init /\ [][Next]_vars

----------------------------------------------------------------------------
\* A session that waits in a pool carries no change over that the COMMIT of a
\* later call would make durable.  A transaction is open on it only where a
\* ROLLBACK failed and the driver released the session as it was, and then a
\* READ ONLY one.  oracle.ts leaves no call's deadline on it (its finally
\* block); statement_timeout, MAX_EXECUTION_TIME and LOCK_TIMEOUT stay.
IdleSessionsAreClean ==
  \A s \in idle : LET x == session[s] IN
    /\ x.changes = {} /\ ~x.cut
    /\ x.tx # "none" => x.tx = "read-only" /\ x.spoilt
    /\ x.timed => engine # "oracle"

\* A change is made durable once if the call reports success, and not at all
\* if it reports an error, unless the connection was lost on the way; what
\* asks for no change makes none.
AllOrNothing ==
  \A c \in Call :
    /\ changing(c) /\ result[c] = "success" => done[c] = 1
    /\ changing(c) /\ result[c] = "error" /\ c \notin lost => done[c] = 0
    /\ ~changing(c) => done[c] = 0

\* The drivers that promise to read only keep the promise whatever the policy
\* lets through: READ ONLY transactions, allow-lists of operations.
ReadsLeaveNoTrace ==
  engine \in {"postgresql", "mysql", "mongodb", "dynamodb"} => \A c \in Call : done[c] = 0

\* Until the shutdown a pool is never created beside another one, and so none
\* is open that the shutdown would not end.
PoolsAreReachable ==
  ~shut => \A p \in Call : state[p] \in {"creating", "open"} =>
             /\ promise = p
             /\ state[p] = "open" => pool = p
=============================================================================

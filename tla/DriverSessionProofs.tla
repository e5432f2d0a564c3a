------------------------- MODULE DriverSessionProofs -------------------------
(***************************************************************************)
(* Proofs about DriverSession, for every engine and any number of calls    *)
(* and sessions, in any order and with any failures.                       *)
(***************************************************************************)
EXTENDS DriverSession, TLAPS

----------------------------------------------------------------------------
\* The invariant, in parts.

AllEngines == {"postgresql", "mysql", "sqlserver", "oracle", "mongodb", "dynamodb", "sqlite"}

\* The engines whose scripts run in a transaction of their own.
transactional == engine \in {"postgresql", "mysql", "sqlserver"}

\* Whether a script has a statement before its i-th, a call is past one.
Precedes(s, what, i) == \E j \in 1..(i - 1) : Script(what)[j] = s
Sent(c, s) == Precedes(s, ask[c], at[c])

begun(c) == Sent(c, "begin") \/ Sent(c, "begin-read-only")

\* The transaction a call is in once it has begun one, and what it changed there.
txNow(c) == IF engine = "sqlserver" THEN "read-write" ELSE "read-only"

changesNow(c) ==
  IF engine = "sqlserver" /\ changing(c) /\ Sent(c, "query") THEN {c} ELSE {}

\* A transaction that is open although no call has begun it: one that a
\* ROLLBACK sent in vain has left.
ReadOnlyAtMost(x) == x.tx # "none" => x.tx = "read-only" /\ engine \in {"postgresql", "mysql"}
Pending(x) == ReadOnlyAtMost(x) /\ (x.tx # "none" => x.spoilt)

\* A session is held by one call, or waits in a pool, and is open; the one
\* that bears a call's name is not opened before that call could open it.
EachHasOneHolder ==
  /\ \A c \in Call : uses[c] # None => session[uses[c]] # None /\ uses[c] \notin idle
  /\ \A c, d \in Call : uses[c] # None /\ uses[c] = uses[d] => c = d
  /\ \A s \in idle : session[s] # None

Unopened(c) ==
  \/ pc[c] \in {"idle", "connecting"}
  \/ pc[c] = "running" /\ begins(c)

\* When a call holds a session.
Holds(c) ==
  /\ Unopened(c) => session[c] = None
  /\ pc[c] \in {"idle", "connecting", "done"} => uses[c] = None
  /\ pc[c] = "running" =>
       (uses[c] # None <=> \/ driver.holds \in {"call", "file"}
                           \/ (driver.holds = "transaction" /\ begun(c)))
  /\ pc[c] = "undoing" => uses[c] # None /\ driver.holds \in {"call", "transaction"}
  /\ pc[c] = "leaving" /\ driver.holds \in {"nobody", "transaction"} => uses[c] = None

\* What a session looks like in the hands of a call.
Works(c) ==
  /\ pc[c] = "running" /\ uses[c] # None =>
       /\ begun(c) => session[uses[c]].tx = txNow(c)
       /\ ~begun(c) => Pending(session[uses[c]])
       /\ session[uses[c]].changes = changesNow(c)
       /\ Sent(c, "session-read-only") => session[uses[c]].readonly
       /\ ~session[uses[c]].cut
  /\ pc[c] = "undoing" /\ uses[c] # None /\ driver.holds = "call" =>
       ReadOnlyAtMost(session[uses[c]]) /\ session[uses[c]].changes = {}
  /\ pc[c] = "leaving" /\ uses[c] # None =>
       Pending(session[uses[c]]) /\ session[uses[c]].changes = {}

\* How far a call has come, and that nothing of it is durable before it ends.
Proceeds(c) ==
  /\ pc[c] \in {"idle", "connecting"} => at[c] = 0
  /\ pc[c] # "idle" => ask[c] \in Asks
  /\ pc[c] = "running" => at[c] >= 1
  /\ pc[c] = "running" /\ changing(c) /\ Sent(c, "query") => engine = "sqlserver"
  /\ pc[c] \in {"idle", "connecting", "running"} => done[c] = 0 /\ result[c] = None

\* AllOrNothing and ReadsLeaveNoTrace, of one call.
Settles(c) ==
  /\ changing(c) /\ result[c] = "success" => done[c] = 1
  /\ changing(c) /\ result[c] = "error" /\ c \notin lost => done[c] = 0
  /\ ~changing(c) => done[c] = 0
  /\ engine \in {"postgresql", "mysql", "mongodb", "dynamodb"} => done[c] = 0

CallFits(c) == Holds(c) /\ Works(c) /\ Proceeds(c) /\ Settles(c)

IdleMayBePending == \A s \in idle : Pending(session[s])

IInv ==
  /\ TypeOK
  /\ EachHasOneHolder
  /\ IdleSessionsAreClean
  /\ IdleMayBePending
  /\ \A c \in Call : CallFits(c)

\* What the driver's fields say of the pools until the shutdown.
OnePool ==
  ~shut => /\ pool # None => promise = pool /\ state[pool] = "open"
           /\ \A p \in Call : state[p] \in {"creating", "open"} =>
                promise = p /\ (state[p] = "open" => pool = p)

----------------------------------------------------------------------------
\* The drivers.

LEMMA DriversDiffer ==
  ASSUME engine \in Engines
  PROVE  /\ driver.holds = "call" <=> engine \in {"postgresql", "mysql", "oracle"}
         /\ driver.holds = "transaction" <=> engine = "sqlserver"
         /\ driver.holds = "nobody" <=> engine \in {"mongodb", "dynamodb"}
         /\ driver.holds = "file" <=> engine = "sqlite"
         /\ driver.holds \in {"call", "transaction", "nobody", "file"}
         /\ driver.writes = "sent" <=> engine \in {"sqlserver", "sqlite"}
         /\ driver.writes = "refused" <=> engine \in {"mongodb", "dynamodb"}
         /\ driver.undo = "always" <=> engine \in {"postgresql", "mysql", "oracle"}
         /\ driver.undo = "begun" <=> engine = "sqlserver"
         /\ driver.hides => engine \notin {"dynamodb", "sqlite"}
<1>1. engine \in AllEngines
  BY EnginesHaveDrivers DEF AllEngines
<1>2. driver = Drivers[engine]
  BY DEF driver
<1>3. CASE engine = "postgresql"
  BY <1>2, <1>3 DEF Drivers, Driver
<1>4. CASE engine = "mysql"
  BY <1>2, <1>4 DEF Drivers, Driver
<1>5. CASE engine = "sqlserver"
  BY <1>2, <1>5 DEF Drivers, Driver
<1>6. CASE engine = "oracle"
  BY <1>2, <1>6 DEF Drivers, Driver
<1>7. CASE engine = "mongodb"
  BY <1>2, <1>7 DEF Drivers, Driver
<1>8. CASE engine = "dynamodb"
  BY <1>2, <1>8 DEF Drivers, Driver
<1>9. CASE engine = "sqlite"
  BY <1>2, <1>9 DEF Drivers, Driver
<1> QED BY <1>1, <1>3, <1>4, <1>5, <1>6, <1>7, <1>8, <1>9 DEF AllEngines

LEMMA AsksDiffer ==
  ASSUME engine \in Engines
  PROVE  /\ Asks \subseteq {"read", "write", "hidden-write", "schema", "probe"}
         /\ "hidden-write" \in Asks => engine \notin {"dynamodb", "sqlite"}
         /\ None \notin Asks
BY DriversDiffer, NoneIsNothing DEF Asks

\* The scripts' statements, one by one.
LEMMA ScriptsAre ==
  ASSUME engine \in Engines, schema \in BOOLEAN, NEW what \in {"read", "write", "hidden-write"}
  PROVE  /\ engine = "postgresql" => Script(what) = PostgresqlRead
         /\ engine = "mysql" => Script(what) = MysqlRead
         /\ engine = "sqlserver" => Script(what) = SqlserverRead
         /\ engine = "oracle" => Script(what) = OracleRead
         /\ engine = "mongodb" => Script(what) = <<"query">>
         /\ engine = "dynamodb" => Script(what) = <<"query">>
         /\ engine = "sqlite" => Script(what) = <<"query">>
<1>1. Script(what) = driver.read
  BY DEF Script
<1>2. engine = "postgresql" => driver.read = PostgresqlRead
  BY DEF driver, Drivers, Driver
<1>3. engine = "mysql" => driver.read = MysqlRead
  BY DEF driver, Drivers, Driver
<1>4. engine = "sqlserver" => driver.read = SqlserverRead
  BY DEF driver, Drivers, Driver
<1>5. engine = "oracle" => driver.read = OracleRead
  BY DEF driver, Drivers, Driver
<1>6. engine = "mongodb" => driver.read = <<"query">>
  BY DEF driver, Drivers, Driver, MongodbRead
<1>7. engine = "dynamodb" => driver.read = <<"query">>
  BY DEF driver, Drivers, Driver, DynamodbRead
<1>8. engine = "sqlite" => driver.read = <<"query">>
  BY DEF driver, Drivers, Driver, SqliteRead
<1> QED BY <1>1, <1>2, <1>3, <1>4, <1>5, <1>6, <1>7, <1>8

LEMMA CataloguesAre ==
  ASSUME engine \in Engines, NEW what \in {"schema", "probe"}
  PROVE  \E n \in 1..3 : /\ Len(Script(what)) = n
                         /\ \A i \in 1..n : Script(what)[i] = "catalogue"
<1>1. CASE what = "probe"
  BY <1>1 DEF Script
<1>2. CASE what = "schema"
  <2>1. Script(what) = driver.catalogue
    BY <1>2 DEF Script
  <2>2. engine \in AllEngines
    BY EnginesHaveDrivers DEF AllEngines
  <2>3. engine \in {"postgresql", "oracle"} => driver.catalogue = <<"catalogue", "catalogue", "catalogue">>
    BY DEF driver, Drivers, Driver, PostgresqlSchema, OracleSchema
  <2>4. engine \in {"mysql", "sqlserver"} => driver.catalogue = <<"catalogue", "catalogue">>
    BY DEF driver, Drivers, Driver, MysqlSchema, SqlserverSchema
  <2>5. engine \in {"mongodb", "dynamodb"} => driver.catalogue = <<"catalogue", "catalogue">>
    BY DEF driver, Drivers, Driver, MongodbSchema, DynamodbSchema
  <2>6. engine = "sqlite" => driver.catalogue = <<"catalogue">>
    BY DEF driver, Drivers, Driver, SqliteSchema
  <2>7. \/ Script(what) = <<"catalogue", "catalogue", "catalogue">>
        \/ Script(what) = <<"catalogue", "catalogue">>
        \/ Script(what) = <<"catalogue">>
    BY <2>1, <2>2, <2>3, <2>4, <2>5, <2>6 DEF AllEngines
  <2> QED BY <2>7
<1> QED BY <1>1, <1>2

LEMMA ScriptsAreNotEmpty ==
  ASSUME engine \in Engines, schema \in BOOLEAN, NEW what \in Asks
  PROVE  Len(Script(what)) \in Nat /\ 1 <= Len(Script(what))
<1>1. CASE what \in {"schema", "probe"}
  BY <1>1, CataloguesAre
<1>2. CASE what \in {"read", "write", "hidden-write"}
  <2>1. engine = "postgresql" => Len(Script(what)) = IF schema THEN 5 ELSE 4
    BY <1>2, ScriptsAre DEF PostgresqlRead
  <2>2. engine = "mysql" => Len(Script(what)) = 5
    BY <1>2, ScriptsAre DEF MysqlRead
  <2>3. engine = "sqlserver" => Len(Script(what)) = 4
    BY <1>2, ScriptsAre DEF SqlserverRead
  <2>4. engine = "oracle" => Len(Script(what)) = IF schema THEN 2 ELSE 1
    BY <1>2, ScriptsAre DEF OracleRead
  <2>5. engine \in {"mongodb", "dynamodb", "sqlite"} => Len(Script(what)) = 1
    BY <1>2, ScriptsAre
  <2> QED BY <2>1, <2>2, <2>3, <2>4, <2>5, EnginesHaveDrivers
<1> QED BY <1>1, <1>2, AsksDiffer

\* What a script has sent before it comes to a statement.
LEMMA ScriptShape ==
  ASSUME engine \in Engines, schema \in BOOLEAN, NEW what \in {"read", "write", "hidden-write"},
         NEW i \in Nat, 1 <= i, i <= Len(Script(what))
  PROVE  /\ Script(what)[i] = "commit" =>
              transactional /\ i = Len(Script(what)) /\ Precedes("query", what, i)
         /\ Script(what)[i] = "query" =>
              IF transactional
              THEN /\ Precedes("begin", what, i) \/ Precedes("begin-read-only", what, i)
                   /\ i < Len(Script(what))
              ELSE i = Len(Script(what))
         /\ Script(what)[i] = "begin" =>
              /\ i < Len(Script(what))
              /\ ~Precedes("query", what, i) /\ ~Precedes("begin", what, i)
              /\ ~Precedes("begin-read-only", what, i)
              /\ engine \in {"mysql", "sqlserver"}
              /\ engine = "mysql" => Precedes("session-read-only", what, i)
              /\ engine = "sqlserver" => i = 1
         /\ Script(what)[i] = "begin-read-only" =>
              engine = "postgresql" /\ i < Len(Script(what))
         /\ Script(what)[i] = "session-read-only" => i < Len(Script(what))
         /\ i = Len(Script(what)) =>
              Script(what)[i] = IF transactional THEN "commit" ELSE "query"
         /\ Precedes("begin", what, i) \/ Precedes("begin-read-only", what, i) => transactional
         /\ engine = "sqlserver" /\ i = 1 => Script(what)[i] = "begin"
<1>1. engine \in AllEngines
  BY EnginesHaveDrivers DEF AllEngines
<1>2. CASE engine = "postgresql"
  <2>1. CASE schema
    <3>1. Script(what) = <<"set", "begin-read-only", "schema", "query", "commit">>
      BY <1>2, <2>1, ScriptsAre DEF PostgresqlRead
    <3>2. i \in 1..5
      BY <3>1
    <3> QED BY <1>2, <3>1, <3>2 DEF transactional, Precedes
  <2>2. CASE ~schema
    <3>1. Script(what) = <<"set", "begin-read-only", "query", "commit">>
      BY <1>2, <2>2, ScriptsAre DEF PostgresqlRead
    <3>2. i \in 1..4
      BY <3>1
    <3> QED BY <1>2, <3>1, <3>2 DEF transactional, Precedes
  <2> QED BY <2>1, <2>2
<1>3. CASE engine = "mysql"
  <2>1. Script(what) = <<"session-read-only", "set", "begin", "query", "commit">>
    BY <1>3, ScriptsAre DEF MysqlRead
  <2>2. i \in 1..5
    BY <2>1
  <2> QED BY <1>3, <2>1, <2>2 DEF transactional, Precedes
<1>4. CASE engine = "sqlserver"
  <2>1. Script(what) = <<"begin", "set", "query", "commit">>
    BY <1>4, ScriptsAre DEF SqlserverRead
  <2>2. i \in 1..4
    BY <2>1
  <2> QED BY <1>4, <2>1, <2>2 DEF transactional, Precedes
<1>5. CASE engine = "oracle"
  <2>1. CASE schema
    <3>1. Script(what) = <<"schema", "query">>
      BY <1>5, <2>1, ScriptsAre DEF OracleRead
    <3> QED BY <1>5, <3>1 DEF transactional, Precedes
  <2>2. CASE ~schema
    <3>1. Script(what) = <<"query">>
      BY <1>5, <2>2, ScriptsAre DEF OracleRead
    <3> QED BY <1>5, <3>1 DEF transactional, Precedes
  <2> QED BY <2>1, <2>2
<1>6. CASE engine \in {"mongodb", "dynamodb", "sqlite"}
  <2>1. Script(what) = <<"query">>
    BY <1>6, ScriptsAre
  <2> QED BY <1>6, <2>1 DEF transactional, Precedes
<1> QED BY <1>1, <1>2, <1>3, <1>4, <1>5, <1>6 DEF AllEngines

\* Neither the engine nor its schema changes.
LEMMA SettingKeepsScripts ==
  ASSUME UNCHANGED setting
  PROVE  /\ driver' = driver /\ Asks' = Asks
         /\ \A what : Script(what)' = Script(what)
<1>1. engine' = engine /\ schema' = schema
  BY DEF setting
<1>2. /\ PostgresqlRead' = PostgresqlRead /\ OracleRead' = OracleRead
      /\ MysqlRead' = MysqlRead /\ SqlserverRead' = SqlserverRead
      /\ MongodbRead' = MongodbRead /\ DynamodbRead' = DynamodbRead /\ SqliteRead' = SqliteRead
  BY <1>1 DEF PostgresqlRead, OracleRead, MysqlRead, SqlserverRead, MongodbRead, DynamodbRead,
              SqliteRead
<1>3. Drivers' = Drivers
  BY <1>2 DEF Drivers, Driver, PostgresqlSchema, MysqlSchema, SqlserverSchema, OracleSchema,
              MongodbSchema, DynamodbSchema, SqliteSchema
<1>4. driver' = driver
  BY <1>1, <1>3 DEF driver
<1> QED BY <1>4 DEF Asks, Script

\* Where a running call is in its script.
LEMMA RunningCall ==
  ASSUME TypeOK, NEW c \in Call, Proceeds(c), pc[c] = "running"
  PROVE  /\ ask[c] \in Asks
         /\ executing(c) <=> ask[c] \in {"read", "write", "hidden-write"}
         /\ changing(c) => executing(c)
         /\ executing(c) =>
              /\ statement(c) = "commit" => at[c] = Len(Script(ask[c])) /\ Sent(c, "query")
              /\ statement(c) = "commit" => transactional
              /\ statement(c) = "query" =>
                   IF transactional THEN begun(c) /\ at[c] < Len(Script(ask[c]))
                   ELSE at[c] = Len(Script(ask[c]))
              /\ statement(c) = "begin" =>
                   /\ at[c] < Len(Script(ask[c])) /\ ~Sent(c, "query") /\ ~begun(c)
                   /\ engine \in {"mysql", "sqlserver"}
                   /\ engine = "mysql" => Sent(c, "session-read-only")
                   /\ engine = "sqlserver" => at[c] = 1
              /\ statement(c) = "begin-read-only" =>
                   engine = "postgresql" /\ at[c] < Len(Script(ask[c]))
              /\ at[c] = Len(Script(ask[c])) =>
                   statement(c) = IF transactional THEN "commit" ELSE "query"
              /\ statement(c) = "session-read-only" => at[c] < Len(Script(ask[c]))
              /\ begun(c) => transactional
              /\ engine = "sqlserver" /\ at[c] = 1 => statement(c) = "begin"
         /\ ~executing(c) => statement(c) = "catalogue" /\ \A s : s # "catalogue" => ~Sent(c, s)
<1>1. ask[c] \in Asks /\ at[c] \in Nat /\ at[c] >= 1 /\ at[c] <= Len(Script(ask[c]))
      /\ engine \in Engines /\ schema \in BOOLEAN
  BY DEF TypeOK, Proceeds
<1>2. executing(c) <=> ask[c] \in {"read", "write", "hidden-write"}
  BY <1>1, AsksDiffer DEF executing
<1>3. changing(c) => executing(c)
  BY DEF changing, executing
<1>4. CASE executing(c)
  <2> DEFINE what == ask[c]
             i == at[c]
  <2>1. what \in {"read", "write", "hidden-write"} /\ i \in Nat /\ 1 <= i /\ i <= Len(Script(what))
    BY <1>1, <1>2, <1>4
  <2>2. /\ statement(c) = Script(what)[i]
        /\ \A s : Sent(c, s) <=> Precedes(s, what, i)
        /\ begun(c) <=> Precedes("begin", what, i) \/ Precedes("begin-read-only", what, i)
    BY DEF statement, Sent, begun
  <2> HIDE DEF what, i
  <2> DEFINE script == Script(what)
  <2>3. /\ statement(c) = "commit" => transactional /\ i = Len(script) /\ Sent(c, "query")
        /\ statement(c) = "query" =>
             IF transactional THEN begun(c) /\ i < Len(script) ELSE i = Len(script)
        /\ statement(c) = "begin" =>
             /\ i < Len(script) /\ ~Sent(c, "query") /\ ~begun(c)
             /\ engine \in {"mysql", "sqlserver"}
             /\ engine = "mysql" => Sent(c, "session-read-only")
             /\ engine = "sqlserver" => i = 1
        /\ statement(c) = "begin-read-only" => engine = "postgresql" /\ i < Len(script)
        /\ i = Len(script) => statement(c) = IF transactional THEN "commit" ELSE "query"
        /\ statement(c) = "session-read-only" => i < Len(script)
        /\ begun(c) => transactional
        /\ engine = "sqlserver" /\ i = 1 => statement(c) = "begin"
    BY <1>1, <2>1, <2>2, ScriptShape
  <2> QED BY <1>1, <1>2, <1>3, <1>4, <2>3 DEF what, i
<1>5. CASE ~executing(c)
  <2>1. ask[c] \in {"schema", "probe"}
    BY <1>5 DEF executing
  <2>2. PICK n \in 1..3 : /\ Len(Script(ask[c])) = n
                          /\ \A i \in 1..n : Script(ask[c])[i] = "catalogue"
    BY <1>1, <2>1, CataloguesAre
  <2>3. \A i \in 1..at[c] : Script(ask[c])[i] = "catalogue"
    BY <1>1, <2>2
  <2>4. statement(c) = "catalogue" /\ \A s : s # "catalogue" => ~Sent(c, s)
    BY <1>1, <2>3 DEF statement, Sent, Precedes
  <2> QED BY <1>1, <1>2, <1>3, <1>5, <2>4
<1> QED BY <1>4, <1>5

\* What it has sent once it goes on.
LEMMA GoingOnSends ==
  ASSUME TypeOK, NEW c \in Call, Proceeds(c), pc[c] = "running",
         at' = [at EXCEPT ![c] = @ + 1], ask' = ask, UNCHANGED setting
  PROVE  \A s : Sent(c, s)' <=> Sent(c, s) \/ statement(c) = s
<1>1. at[c] \in Nat /\ at[c] >= 1 /\ at'[c] = at[c] + 1
  BY DEF TypeOK, Proceeds
<1> SUFFICES ASSUME NEW s PROVE Sent(c, s)' <=> Sent(c, s) \/ statement(c) = s
  OBVIOUS
<1>2. Sent(c, s)' <=> \E j \in 1..at[c] : Script(ask[c])[j] = s
  BY <1>1, SettingKeepsScripts DEF Sent, Precedes
<1>3. Sent(c, s) <=> \E j \in 1..(at[c] - 1) : Script(ask[c])[j] = s
  BY DEF Sent, Precedes
<1>4. \A j \in 1..at[c] : j \in 1..(at[c] - 1) \/ j = at[c]
  BY <1>1
<1> QED BY <1>1, <1>2, <1>3, <1>4 DEF statement

\* A call sees nothing of what another one does to a session of its own.
LEMMA OthersFit ==
  ASSUME NEW d \in Call, CallFits(d), UNCHANGED setting,
         pc'[d] = pc[d], ask'[d] = ask[d], uses'[d] = uses[d], at'[d] = at[d],
         done'[d] = done[d], result'[d] = result[d], d \in lost <=> d \in lost',
         uses[d] # None => session'[uses[d]] = session[uses[d]],
         session[d] = None => session'[d] = None
  PROVE  CallFits(d)'
<1>1. \A s : Sent(d, s)' <=> Sent(d, s)
  BY SettingKeepsScripts DEF Sent, Precedes
<1>2. /\ begun(d)' <=> begun(d)
      /\ begins(d)' <=> begins(d)
      /\ changing(d)' <=> changing(d)
  BY <1>1, SettingKeepsScripts DEF begun, begins, statement, changing
<1>3. txNow(d)' = txNow(d) /\ changesNow(d)' = changesNow(d)
  BY <1>1, <1>2 DEF txNow, changesNow, setting
<1>4. Holds(d)'
  BY <1>2, SettingKeepsScripts DEF CallFits, Holds, Unopened
<1>5. Works(d)'
  BY <1>1, <1>2, <1>3, SettingKeepsScripts
     DEF CallFits, Works, Pending, ReadOnlyAtMost, setting
<1>6. Proceeds(d)'
  BY <1>1, <1>2, SettingKeepsScripts DEF CallFits, Proceeds, setting
<1>7. Settles(d)'
  BY <1>2 DEF CallFits, Settles, setting
<1> QED BY <1>4, <1>5, <1>6, <1>7 DEF CallFits

----------------------------------------------------------------------------
\* What a step of one call does to the sessions.

SessionsStaySound(c) ==
  /\ session' \in [Call -> Session \cup {None}]
  /\ idle' \subseteq Call
  /\ uses' \in [Call -> Call \cup {None}]
  /\ EachHasOneHolder' /\ IdleSessionsAreClean' /\ IdleMayBePending'
  /\ \A d \in Call \ {c} :
       /\ uses'[d] = uses[d]
       /\ uses[d] # None => session'[uses[d]] = session[uses[d]]
       /\ session[d] = None => session'[d] = None

\* It leaves them alone.
LEMMA SessionsUntouched ==
  ASSUME IInv, NEW c \in Call, UNCHANGED <<engine, session, idle, uses>>
  PROVE  SessionsStaySound(c)
BY DEF SessionsStaySound, IInv, TypeOK, EachHasOneHolder, IdleSessionsAreClean,
       IdleMayBePending, Pending, ReadOnlyAtMost

\* It does something on the session it holds.
LEMMA SessionUsed ==
  ASSUME IInv, NEW c \in Call, uses[c] # None, NEW x \in Session,
         session' = [session EXCEPT ![uses[c]] = x], UNCHANGED <<engine, idle, uses>>
  PROVE  SessionsStaySound(c) /\ session'[uses[c]] = x
<1>1. /\ session \in [Call -> Session \cup {None}] /\ uses[c] \in Call /\ idle \subseteq Call
      /\ uses \in [Call -> Call \cup {None}]
  BY DEF IInv, TypeOK
<1>2. /\ session' \in [Call -> Session \cup {None}] /\ session'[uses[c]] = x
      /\ \A s \in Call : s # uses[c] => session'[s] = session[s]
  BY <1>1
<1>3. x # None
  BY NoneIsNothing
<1>4. \A d \in Call \ {c} : uses[d] # None => uses[d] \in Call /\ uses[d] # uses[c]
  BY <1>1 DEF IInv, EachHasOneHolder
<1>5. uses[c] \notin idle /\ session[uses[c]] # None
  BY DEF IInv, EachHasOneHolder
<1>6. EachHasOneHolder'
  BY <1>1, <1>2, <1>3, <1>4, <1>5 DEF IInv, EachHasOneHolder
<1>7. IdleSessionsAreClean'
  BY <1>1, <1>2, <1>5 DEF IInv, IdleSessionsAreClean
<1>8. IdleMayBePending'
  BY <1>1, <1>2, <1>5 DEF IInv, IdleMayBePending, Pending, ReadOnlyAtMost
<1>9. \A d \in Call \ {c} :
        /\ uses[d] # None => session'[uses[d]] = session[uses[d]]
        /\ session[d] = None => session'[d] = None
  BY <1>1, <1>2, <1>4, <1>5
<1> QED BY <1>1, <1>2, <1>6, <1>7, <1>8, <1>9 DEF SessionsStaySound

\* It gives its session up: to the pool if it is clean, or for good.
LEMMA SessionGivenUp ==
  ASSUME IInv, NEW c \in Call, uses[c] # None, NEW x \in Session,
         x.timed => engine # "oracle",
         \/ PutBack(uses[c], x) /\ Pending(x) /\ x.changes = {}
         \/ session' = [session EXCEPT ![uses[c]] = x] /\ idle' = idle,
         uses' = [uses EXCEPT ![c] = None], UNCHANGED engine
  PROVE  SessionsStaySound(c) /\ uses'[c] = None
<1> DEFINE s == uses[c]
<1>1. /\ session \in [Call -> Session \cup {None}] /\ s \in Call /\ idle \subseteq Call
      /\ uses \in [Call -> Call \cup {None}]
  BY DEF IInv, TypeOK
<1>2. x # None
  BY NoneIsNothing
<1>3. \A d \in Call \ {c} : uses[d] # None => uses[d] \in Call /\ uses[d] # s
  BY <1>1 DEF IInv, EachHasOneHolder
<1>4. s \notin idle /\ session[s] # None
  BY DEF IInv, EachHasOneHolder
<1>5. /\ uses' \in [Call -> Call \cup {None}] /\ uses'[c] = None
      /\ \A d \in Call \ {c} : uses'[d] = uses[d]
  BY <1>1
<1>6. /\ session' \in [Call -> Session \cup {None}]
      /\ \A t \in Call : t # s => session'[t] = session[t]
      /\ session'[s] = x \/ session'[s] = None
      /\ idle' \subseteq idle \cup {s}
      /\ s \in idle' => session'[s] = x /\ ~x.cut /\ Pending(x) /\ x.changes = {}
  BY <1>1, <1>4 DEF PutBack
<1>7. EachHasOneHolder'
  BY <1>1, <1>2, <1>3, <1>4, <1>5, <1>6 DEF IInv, EachHasOneHolder
<1>8. IdleSessionsAreClean'
  BY <1>1, <1>6 DEF IInv, IdleSessionsAreClean, Pending, ReadOnlyAtMost
<1>9. IdleMayBePending'
  BY <1>1, <1>6 DEF IInv, IdleMayBePending, Pending, ReadOnlyAtMost
<1>10. \A d \in Call \ {c} :
        /\ uses[d] # None => session'[uses[d]] = session[uses[d]]
        /\ session[d] = None => session'[d] = None
  BY <1>1, <1>3, <1>4, <1>6
<1> QED BY <1>1, <1>5, <1>6, <1>7, <1>8, <1>9, <1>10 DEF SessionsStaySound

\* It gets one from the pool, or a new one.
LEMMA SessionAcquired ==
  ASSUME IInv, NEW c \in Call, uses[c] = None, session[c] = None,
         NEW s \in Call, NEW x \in Session,
         s \in idle \/ s = c,
         session' = [session EXCEPT ![s] = x],
         idle' = idle \ {s}, uses' = [uses EXCEPT ![c] = s], UNCHANGED engine
  PROVE  SessionsStaySound(c) /\ uses'[c] = s /\ session'[s] = x
<1>1. /\ session \in [Call -> Session \cup {None}] /\ idle \subseteq Call
      /\ uses \in [Call -> Call \cup {None}]
  BY DEF IInv, TypeOK
<1>2. x # None /\ s # None
  BY NoneIsNothing
<1>3. \A d \in Call : uses[d] # None => uses[d] # s
  BY <1>1 DEF IInv, EachHasOneHolder
<1>4. /\ uses' \in [Call -> Call \cup {None}] /\ uses'[c] = s
      /\ \A d \in Call \ {c} : uses'[d] = uses[d]
  BY <1>1
<1>5. /\ session' \in [Call -> Session \cup {None}] /\ session'[s] = x
      /\ \A t \in Call : t # s => session'[t] = session[t]
  BY <1>1
<1>6. EachHasOneHolder'
  BY <1>1, <1>2, <1>3, <1>4, <1>5 DEF IInv, EachHasOneHolder
<1>7. IdleSessionsAreClean'
  BY <1>1, <1>5 DEF IInv, IdleSessionsAreClean
<1>8. IdleMayBePending'
  BY <1>1, <1>5 DEF IInv, IdleMayBePending, Pending, ReadOnlyAtMost
<1>9. \A d \in Call \ {c} :
        /\ uses[d] # None => session'[uses[d]] = session[uses[d]]
        /\ session[d] = None => session'[d] = None
  <2>1. \A t \in idle : session[t] # None
    BY DEF IInv, EachHasOneHolder
  <2> QED BY <1>1, <1>3, <1>5, <2>1
<1> QED BY <1>1, <1>4, <1>5, <1>6, <1>7, <1>8, <1>9 DEF SessionsStaySound

\* Then the other calls are where they were.
LEMMA StepOfOneCall ==
  ASSUME IInv, NEW c \in Call, TypeOK', CallFits(c)', SessionsStaySound(c), UNCHANGED setting,
         \A d \in Call \ {c} : /\ pc'[d] = pc[d] /\ ask'[d] = ask[d] /\ at'[d] = at[d]
                               /\ done'[d] = done[d] /\ result'[d] = result[d]
                               /\ d \in lost <=> d \in lost'
  PROVE  IInv'
<1>1. \A d \in Call \ {c} : CallFits(d)'
  BY OthersFit DEF IInv, SessionsStaySound
<1> QED BY <1>1 DEF IInv, SessionsStaySound

----------------------------------------------------------------------------
\* The steps, one by one.

LEMMA InitEstablishesIInv == Init => IInv
<1> SUFFICES ASSUME Init PROVE IInv
  OBVIOUS
<1>1. \A c \in Call : Len(Script(ask[c])) \in Nat
  <2>1. \A c \in Call : ask[c] = None
    BY DEF Init
  <2>2. Script(None) = driver.read
    BY NoneIsNothing DEF Script
  <2>3. Script("read") = driver.read
    BY DEF Script
  <2>4. "read" \in Asks /\ engine \in Engines /\ schema \in BOOLEAN
    BY DEF Init, Asks
  <2> QED BY <2>1, <2>2, <2>3, <2>4, ScriptsAreNotEmpty
<1>2. TypeOK
  <2>1. ASSUME NEW c \in Call PROVE at[c] <= Len(Script(ask[c]))
    <3>1. at[c] = 0
      BY DEF Init
    <3>2. Len(Script(ask[c])) \in Nat
      BY <1>1
    <3> QED BY <3>1, <3>2
  <2>2. state \in [Call -> PoolStates] /\ at \in [Call -> Nat] /\ done \in [Call -> 0..1]
    BY DEF Init, PoolStates
  <2>3. pc \in [Call -> {"idle", "connecting", "running", "undoing", "leaving", "done"}]
    BY DEF Init
  <2>4. /\ ask \in [Call -> Asks \cup {None}]
        /\ on \in [Call -> Call \cup {None}]
        /\ uses \in [Call -> Call \cup {None}]
        /\ session \in [Call -> Session \cup {None}]
        /\ result \in [Call -> {"success", "error", "nothing", None}]
    BY DEF Init
  <2> QED BY <2>1, <2>2, <2>3, <2>4 DEF Init, TypeOK
<1>3. \A c \in Call : CallFits(c)
  <2> SUFFICES ASSUME NEW c \in Call PROVE CallFits(c)
    OBVIOUS
  <2>1. ~changing(c)
    BY NoneIsNothing DEF Init, changing
  <2> QED BY <2>1 DEF Init, CallFits, Holds, Works, Proceeds, Settles
<1>4. EachHasOneHolder /\ IdleSessionsAreClean /\ IdleMayBePending
  BY DEF Init, EachHasOneHolder, IdleSessionsAreClean, IdleMayBePending
<1> QED BY <1>2, <1>3, <1>4 DEF IInv

LEMMA ConnectKeepsIInv == ASSUME IInv, NEW c \in Call, Connect(c) PROVE IInv'
<1>1. PICK what \in Asks : ask' = [ask EXCEPT ![c] = what]
  BY DEF Connect
<1>2. UNCHANGED setting /\ UNCHANGED <<session, idle, uses>> /\ TypeOK
  BY DEF Connect, server, IInv
<1>3. pc[c] = "idle" /\ at[c] = 0 /\ CallFits(c)
  BY DEF Connect, IInv, CallFits, Proceeds
<1>4. SessionsStaySound(c)
  BY <1>2, SessionsUntouched DEF setting
<1>5. TypeOK'
  <2>1. engine' \in Engines /\ schema' \in BOOLEAN /\ pool' \in Call \cup {None} /\ shut' \in BOOLEAN
    BY <1>2 DEF Connect, setting, TypeOK
  <2>2. /\ promise' \in Call \cup {None} /\ state' \in [Call -> PoolStates]
        /\ on' \in [Call -> Call \cup {None}]
    <3>1. CASE driver.holds = "file"
      BY <1>2, <3>1 DEF Connect, TypeOK
    <3>2. CASE EnsurePool(c)
      <4>1. CASE pool # None
        BY <1>2, <3>2, <4>1 DEF EnsurePool, TypeOK
      <4>2. CASE pool = None /\ promise # None
        BY <1>2, <3>2, <4>2 DEF EnsurePool, TypeOK
      <4>3. CASE pool = None /\ promise = None
        <5>1. promise' = c /\ on' = [on EXCEPT ![c] = c] /\ state' = [state EXCEPT ![c] = "creating"]
          BY <3>2, <4>3 DEF EnsurePool
        <5> QED BY <1>2, <5>1 DEF TypeOK, PoolStates
      <4> QED BY <4>1, <4>2, <4>3
    <3> QED BY <3>1, <3>2 DEF Connect
  <2>3. ask' \in [Call -> (Asks \cup {None})']
    BY <1>1, <1>2, SettingKeepsScripts DEF TypeOK
  <2>4. ASSUME NEW d \in Call PROVE (at[d] <= Len(Script(ask[d])))'
    <3>1. Len(Script(what)) \in Nat
      BY <1>2, ScriptsAreNotEmpty DEF TypeOK
    <3>3. CASE d = c
      BY <1>1, <1>2, <1>3, <3>1, <3>3, SettingKeepsScripts DEF Connect, TypeOK
    <3>4. CASE d # c
      BY <1>1, <1>2, <3>4, SettingKeepsScripts DEF Connect, TypeOK
    <3> QED BY <3>3, <3>4
  <2> QED BY <1>2, <2>1, <2>2, <2>3, <2>4 DEF Connect, TypeOK, server, outcome
<1>6. CallFits(c)'
  <2>1. what \in Asks' /\ what # None
    BY <1>2, SettingKeepsScripts, AsksDiffer DEF TypeOK
  <2>2. pc'[c] = "connecting" /\ ask'[c] = what
    BY <1>1, <1>2 DEF Connect, TypeOK
  <2>3. done[c] = 0 /\ result[c] = None /\ uses[c] = None /\ session[c] = None
    BY <1>3 DEF CallFits, Holds, Unopened, Proceeds
  <2>4. Holds(c)' /\ Works(c)' /\ Proceeds(c)'
    BY <1>2, <1>3, <2>1, <2>2, <2>3 DEF Connect, Holds, Unopened, Works, Proceeds, server, outcome
  <2>5. Settles(c)'
    BY <2>3, NoneIsNothing DEF Connect, Settles, server, outcome
  <2> QED BY <2>4, <2>5 DEF CallFits
<1> QED BY <1>1, <1>2, <1>4, <1>5, <1>6, StepOfOneCall DEF Connect, server, outcome, TypeOK

\* Steps of the pool alone.
LEMMA PoolStepKeepsIInv ==
  ASSUME IInv, NEW c \in Call, PoolOpens(c) \/ PoolFails(c)
  PROVE  IInv'
<1>1. UNCHANGED <<setting, pc, ask, uses, at, server, outcome>>
  BY DEF PoolOpens, PoolFails
<1>2. TypeOK'
  BY SettingKeepsScripts DEF PoolOpens, PoolFails, IInv, TypeOK, PoolStates, setting, server, outcome
<1>3. SessionsStaySound(c)
  BY <1>1, SessionsUntouched DEF setting, server
<1>4. CallFits(c)'
  BY <1>1, OthersFit DEF IInv, server, outcome
<1> QED BY <1>1, <1>2, <1>3, <1>4, StepOfOneCall DEF server, outcome

LEMMA ShutdownKeepsIInv == ASSUME IInv, Shutdown PROVE IInv'
<1>1. UNCHANGED <<setting, pc, ask, on, uses, at, done, outcome>> /\ TypeOK
  BY DEF Shutdown, IInv
<1>2. TypeOK'
  <2>1. state' \in [Call -> PoolStates] /\ shut' \in BOOLEAN /\ pool' = None /\ promise' = None
    BY <1>1 DEF Shutdown, TypeOK, PoolStates
  <2>2. session' \in [Call -> Session \cup {None}] /\ idle' \subseteq Call
    BY <1>1 DEF Shutdown, TypeOK
  <2> QED BY <1>1, <2>1, <2>2, SettingKeepsScripts DEF TypeOK, setting, outcome
<1>3. /\ \A s \in Call \ idle : session'[s] = session[s]
      /\ \A s \in Call : session[s] = None => session'[s] = None
      /\ \A s \in Call : session'[s] \in {session[s], None}
      /\ idle' \subseteq idle
      /\ \A s \in idle' : session'[s] = session[s]
  BY <1>1 DEF Shutdown, TypeOK
<1>4. EachHasOneHolder'
  BY <1>1, <1>3 DEF IInv, EachHasOneHolder, TypeOK
<1>5. IdleSessionsAreClean' /\ IdleMayBePending'
  BY <1>1, <1>3 DEF IInv, IdleSessionsAreClean, IdleMayBePending, Pending, ReadOnlyAtMost,
                       setting, TypeOK
<1>6. ASSUME NEW c \in Call PROVE CallFits(c)'
  <2>1. uses[c] # None => session'[uses[c]] = session[uses[c]]
    BY <1>1, <1>3 DEF IInv, EachHasOneHolder, TypeOK
  <2> QED BY <1>1, <1>3, <2>1, OthersFit DEF IInv, outcome
<1> QED BY <1>2, <1>4, <1>5, <1>6 DEF IInv

\* The types, after a step of a call that leaves the pools alone.
LEMMA StepIsTyped ==
  ASSUME TypeOK, NEW c \in Call, SessionsStaySound(c), UNCHANGED <<setting, pooling, ask, on>>,
         pc' \in [Call -> {"idle", "connecting", "running", "undoing", "leaving", "done"}],
         at' \in [Call -> Nat], \A d \in Call : at'[d] <= Len(Script(ask[d])),
         done' \in [Call -> 0..1], lost' \subseteq Call,
         result' \in [Call -> {"success", "error", "nothing", None}]
  PROVE  TypeOK'
<1>1. ask' \in [Call -> (Asks \cup {None})']
  BY SettingKeepsScripts DEF TypeOK
<1>2. ASSUME NEW d \in Call PROVE (at[d] <= Len(Script(ask[d])))'
  BY SettingKeepsScripts
<1> QED BY <1>1, <1>2 DEF TypeOK, setting, pooling, SessionsStaySound

\* What the pool hands out is clean.
HandedOut(c, s, x) ==
  /\ s \in idle \/ s = c
  /\ session' = [session EXCEPT ![s] = x]
  /\ idle' = idle \ {s}
  /\ uses' = [uses EXCEPT ![c] = s]
  /\ driver.holds = "transaction" => x.tx = "read-write"
  /\ driver.holds # "transaction" => Pending(x)
  /\ x.changes = {} /\ ~x.cut

LEMMA AcquiredIsClean ==
  ASSUME IInv, NEW c \in Call, uses[c] = None, session[c] = None, Acquire(c)
  PROVE  \E s \in Call, x \in Session : HandedOut(c, s, x)
<1>1. TypeOK /\ EachHasOneHolder /\ IdleSessionsAreClean /\ IdleMayBePending
  BY DEF IInv
<1>2. ASSUME NEW x \in Session
      PROVE  /\ Taken(x, c) \in Session
             /\ Taken(x, c).tx = IF driver.holds = "transaction" THEN "read-write" ELSE x.tx
             /\ Taken(x, c).changes = x.changes /\ Taken(x, c).cut = x.cut
             /\ Taken(x, c).spoilt = x.spoilt
  <2> DEFINE tx == IF driver.holds = "transaction" THEN "read-write" ELSE x.tx
             timed == x.timed \/ (engine = "oracle" /\ executing(c))
  <2>1. tx \in Tx /\ timed \in BOOLEAN
    BY DEF Session, Tx
  <2>2. Taken(x, c) = [x EXCEPT !.tx = tx, !.timed = timed]
    BY DEF Taken
  <2> HIDE DEF tx, timed
  <2>3. /\ Taken(x, c) \in Session /\ Taken(x, c).tx = tx /\ Taken(x, c).spoilt = x.spoilt
        /\ Taken(x, c).changes = x.changes /\ Taken(x, c).cut = x.cut
    BY <2>1, <2>2 DEF Session
  <2> QED BY <2>3 DEF tx
<1>3. CASE \E s \in {i \in idle : session[i].pool = on[c]} :
             /\ session' = [session EXCEPT ![s] = Taken(@, c)]
             /\ idle' = idle \ {s}
             /\ uses' = [uses EXCEPT ![c] = s]
  <2>1. PICK s \in idle : /\ session' = [session EXCEPT ![s] = Taken(@, c)]
                          /\ idle' = idle \ {s}
                          /\ uses' = [uses EXCEPT ![c] = s]
    BY <1>3
  <2>2. s \in Call /\ session[s] \in Session
    BY <1>1, <2>1 DEF TypeOK, EachHasOneHolder
  <2>3. session' = [session EXCEPT ![s] = Taken(session[s], c)]
    BY <2>1
  <2>4. Pending(session[s]) /\ session[s].changes = {} /\ ~session[s].cut
    BY <1>1, <2>1 DEF IdleSessionsAreClean, IdleMayBePending
  <2> DEFINE x == Taken(session[s], c)
  <2>5. /\ x \in Session
        /\ driver.holds = "transaction" => x.tx = "read-write"
        /\ driver.holds # "transaction" => Pending(x)
        /\ x.changes = {} /\ ~x.cut
    BY <1>2, <2>2, <2>4 DEF Pending, ReadOnlyAtMost
  <2> HIDE DEF x
  <2>6. session' = [session EXCEPT ![s] = x]
    BY <2>3 DEF x
  <2>7. HandedOut(c, s, x)
    BY <2>1, <2>5, <2>6 DEF HandedOut
  <2> QED BY <2>2, <2>5, <2>7
<1>4. CASE /\ session' = [session EXCEPT ![c] = Taken(Fresh(on[c]), c)]
           /\ uses' = [uses EXCEPT ![c] = c]
           /\ UNCHANGED idle
  <2>1. /\ Fresh(on[c]) \in Session /\ Fresh(on[c]).tx = "none" /\ Fresh(on[c]).changes = {}
        /\ ~Fresh(on[c]).cut
    BY <1>1 DEF TypeOK, Fresh, Session, Tx
  <2>2. idle' = idle \ {c}
    BY <1>1, <1>4 DEF EachHasOneHolder
  <2> DEFINE x == Taken(Fresh(on[c]), c)
  <2>3. /\ x \in Session
        /\ driver.holds = "transaction" => x.tx = "read-write"
        /\ driver.holds # "transaction" => Pending(x)
        /\ x.changes = {} /\ ~x.cut
    BY <1>2, <2>1 DEF Pending, ReadOnlyAtMost
  <2>4. session' = [session EXCEPT ![c] = x] /\ uses' = [uses EXCEPT ![c] = c]
    BY <1>4
  <2> HIDE DEF x
  <2>5. HandedOut(c, c, x)
    BY <2>2, <2>3, <2>4 DEF HandedOut
  <2> QED BY <2>3, <2>5
<1> QED BY <1>3, <1>4 DEF Acquire

LEMMA NoHandleKeepsIInv == ASSUME IInv, NEW c \in Call, NoHandle(c) PROVE IInv'
<1>1. /\ TypeOK /\ CallFits(c) /\ pc[c] = "connecting"
      /\ UNCHANGED <<setting, pooling, ask, on, uses, at, server, lost>>
  BY DEF IInv, NoHandle
<1>2. SessionsStaySound(c)
  BY <1>1, SessionsUntouched DEF setting, server
<1>3. /\ pc' = [pc EXCEPT ![c] = "done"]
      /\ result' = [result EXCEPT ![c] = "error"]
  BY DEF NoHandle
<1>4. TypeOK'
  <2>1. pc' \in [Call -> {"idle", "connecting", "running", "undoing", "leaving", "done"}]
    BY <1>1, <1>3 DEF TypeOK
  <2>2. result' \in [Call -> {"success", "error", "nothing", None}]
    BY <1>1, <1>3 DEF TypeOK
  <2>3. \A d \in Call : at'[d] <= Len(Script(ask[d]))
    BY <1>1 DEF TypeOK
  <2> QED BY <1>1, <1>2, <2>1, <2>2, <2>3, StepIsTyped DEF TypeOK, server
<1>5. CallFits(c)'
  <2>1. pc'[c] = "done" /\ result'[c] = "error"
    BY <1>1, <1>3 DEF TypeOK
  <2>2. uses[c] = None /\ done[c] = 0 /\ ask[c] \in Asks
    BY <1>1 DEF CallFits, Holds, Proceeds
  <2> QED BY <1>1, <2>1, <2>2, SettingKeepsScripts
          DEF CallFits, Holds, Unopened, Works, Proceeds, Settles, server
<1> QED BY <1>1, <1>2, <1>3, <1>4, <1>5, StepOfOneCall DEF TypeOK, server

LEMMA CheckoutKeepsIInv == ASSUME IInv, NEW c \in Call, Checkout(c) PROVE IInv'
<1>1. /\ TypeOK /\ CallFits(c) /\ pc[c] = "connecting"
      /\ pc' = [pc EXCEPT ![c] = "running"] /\ at' = [at EXCEPT ![c] = 1]
      /\ UNCHANGED <<setting, pooling, ask, on, done, outcome>>
  BY DEF IInv, Checkout
<1>2. /\ uses[c] = None /\ session[c] = None /\ done[c] = 0 /\ result[c] = None /\ ask[c] \in Asks
      /\ engine \in Engines
  BY <1>1 DEF CallFits, Holds, Unopened, Proceeds, TypeOK
<1>3. pc'[c] = "running" /\ at'[c] = 1
  BY <1>1 DEF TypeOK
<1>4. /\ \A s : ~Sent(c, s)'
      /\ ~begun(c)' /\ changesNow(c)' = {}
  <2>1. \A s : ~Sent(c, s)'
    BY <1>3 DEF Sent, Precedes
  <2> QED BY <2>1 DEF begun, changesNow
<1>5. /\ SessionsStaySound(c)
      /\ driver.holds \in {"call", "file"} =>
           /\ uses'[c] \in Call
           /\ Pending(session'[uses'[c]]) /\ session'[uses'[c]].changes = {}
           /\ ~session'[uses'[c]].cut
      /\ driver.holds \in {"nobody", "transaction"} => uses' = uses /\ session' = session
  <2>1. CASE driver.holds = "call"
    <3>1. Acquire(c)
      BY <2>1 DEF Checkout
    <3>2. PICK s \in Call, x \in Session : HandedOut(c, s, x)
      BY <1>2, <3>1, AcquiredIsClean
    <3>3. SessionsStaySound(c) /\ uses'[c] = s /\ session'[s] = x
      BY <1>1, <1>2, <3>2, SessionAcquired DEF setting, HandedOut
    <3> QED BY <2>1, <3>2, <3>3 DEF HandedOut
  <2>2. CASE driver.holds = "file"
    <3> DEFINE x == Fresh(None)
    <3>1. /\ x \in Session /\ Pending(x) /\ x.changes = {} /\ ~x.cut
      BY DEF Fresh, Session, Tx, Pending, ReadOnlyAtMost
    <3>2. /\ session' = [session EXCEPT ![c] = x] /\ uses' = [uses EXCEPT ![c] = c]
          /\ idle' = idle
      BY <2>2 DEF Checkout
    <3>3. idle' = idle \ {c}
      BY <1>2, <3>2 DEF IInv, EachHasOneHolder
    <3> HIDE DEF x
    <3>4. SessionsStaySound(c) /\ uses'[c] = c /\ session'[c] = x
      BY <1>1, <1>2, <3>1, <3>2, <3>3, SessionAcquired DEF setting
    <3> QED BY <2>2, <3>1, <3>4
  <2>3. CASE driver.holds \in {"nobody", "transaction"}
    <3>1. UNCHANGED <<session, idle, uses>>
      BY <2>3 DEF Checkout
    <3> QED BY <1>1, <2>3, <3>1, SessionsUntouched DEF setting
  <2> QED BY <1>2, <2>1, <2>2, <2>3, DriversDiffer
<1>6. 1 <= Len(Script(ask[c]))
  BY <1>1, <1>2, ScriptsAreNotEmpty DEF TypeOK
<1>7. TypeOK'
  <2>1. pc' \in [Call -> {"idle", "connecting", "running", "undoing", "leaving", "done"}]
    BY <1>1 DEF TypeOK
  <2>2. at' \in [Call -> Nat] /\ \A d \in Call : at'[d] <= Len(Script(ask[d]))
    <3>1. \A d \in Call \ {c} : at'[d] = at[d] /\ at[d] <= Len(Script(ask[d]))
      BY <1>1 DEF TypeOK
    <3>2. at' \in [Call -> Nat]
      BY <1>1 DEF TypeOK
    <3> QED BY <1>3, <1>6, <3>1, <3>2
  <2> QED BY <1>1, <1>5, <2>1, <2>2, StepIsTyped DEF TypeOK, outcome
<1>8. CallFits(c)'
  <2>1. Holds(c)'
    <3>1. begins(c)' => session'[c] = None
      <4>1. begins(c)' => driver.holds = "transaction"
        BY <1>1, SettingKeepsScripts DEF begins
      <4> QED BY <1>2, <1>5, <4>1
    <3>2. uses'[c] # None <=> driver.holds \in {"call", "file"}
      BY <1>2, <1>5, NoneIsNothing, DriversDiffer
    <3> QED BY <1>1, <1>3, <1>4, <3>1, <3>2, SettingKeepsScripts DEF Holds, Unopened
  <2>2. Works(c)'
    BY <1>1, <1>2, <1>3, <1>4, <1>5, DriversDiffer
       DEF Works, Pending, ReadOnlyAtMost, setting
  <2>3. Proceeds(c)'
    BY <1>1, <1>2, <1>3, <1>4, SettingKeepsScripts DEF Proceeds, outcome
  <2>4. Settles(c)'
    BY <1>1, <1>2, NoneIsNothing DEF Settles, outcome
  <2> QED BY <2>1, <2>2, <2>3, <2>4 DEF CallFits
<1> QED BY <1>1, <1>5, <1>7, <1>8, StepOfOneCall DEF TypeOK, outcome

\* What becomes durable, and when.
readingEngine == engine \in {"postgresql", "mysql", "mongodb", "dynamodb"}

LEMMA DurableAtTheEnd ==
  ASSUME IInv, NEW c \in Call, sends(c), ~begins(c), Admitted(c)
  PROVE  /\ Durable(c, current(c)) \subseteq {c}
         /\ ~changing(c) \/ readingEngine => Durable(c, current(c)) = {}
         /\ at[c] < Len(Script(ask[c])) => Durable(c, current(c)) = {}
         /\ changing(c) /\ at[c] = Len(Script(ask[c])) => Durable(c, current(c)) = {c}
         /\ changing(c) /\ statement(c) = "query" => engine \in {"sqlserver", "oracle", "sqlite"}
<1> DEFINE x == current(c)
<1>1. TypeOK /\ CallFits(c) /\ pc[c] = "running" /\ engine \in Engines
  BY DEF IInv, sends, TypeOK
<1>2. Proceeds(c) /\ Holds(c) /\ Works(c)
  BY <1>1 DEF CallFits
<1>3. uses[c] = None => x.tx = "none" /\ x.changes = {}
  BY DEF current, Fresh
<1>4. uses[c] # None => /\ begun(c) => x.tx = txNow(c)
                        /\ ~begun(c) => Pending(x)
                        /\ x.changes = changesNow(c)
  BY <1>1, <1>2 DEF current, Works
<1>5. x.changes \subseteq {c} /\ (engine # "sqlserver" \/ ~changing(c) => x.changes = {})
  BY <1>3, <1>4 DEF changesNow
<1>6. changing(c) /\ statement(c) = "query" => engine \in {"sqlserver", "oracle", "sqlite"}
  <2> SUFFICES ASSUME changing(c), statement(c) = "query" PROVE engine \in {"sqlserver", "oracle", "sqlite"}
    OBVIOUS
  <2>1. engine \in {"postgresql", "mysql"} => x.tx = "read-only"
    <3>1. engine \in {"postgresql", "mysql"} => begun(c) /\ uses[c] # None
      BY <1>1, <1>2, RunningCall, DriversDiffer DEF transactional, Holds
    <3> QED BY <1>4, <3>1 DEF txNow
  <2>2. ask[c] = "write" => engine \in {"sqlserver", "sqlite"}
    BY <1>1, DriversDiffer DEF Admitted
  <2>3. ask[c] = "hidden-write" => x.tx # "read-only" /\ engine \notin {"mongodb", "dynamodb"}
    BY <1>1, DriversDiffer DEF Admitted
  <2>4. ask[c] \in {"write", "hidden-write"}
    BY DEF changing
  <2> QED BY <1>1, <2>1, <2>2, <2>3, <2>4, EnginesHaveDrivers
<1>7. CASE statement(c) = "commit"
  <2>1. Durable(c, x) = x.changes
    BY <1>7 DEF Durable
  <2>2. executing(c) /\ at[c] = Len(Script(ask[c])) /\ Sent(c, "query") /\ transactional
    BY <1>1, <1>2, <1>7, RunningCall
  <2>3. changing(c) => engine = "sqlserver"
    BY <1>1, <1>2, <2>2 DEF Proceeds
  <2>4. engine = "sqlserver" => begun(c) /\ uses[c] # None
    <3>1. engine = "sqlserver" => begun(c)
      <4>1. at[c] \in Nat /\ ask[c] \in {"read", "write", "hidden-write"} /\ 1 <= at[c]
            /\ schema \in BOOLEAN
        BY <1>1, <1>2, <2>2, RunningCall DEF TypeOK, Proceeds
      <4>2. engine = "sqlserver" => at[c] # 1
        BY <1>1, <1>2, <1>7, <2>2, RunningCall
      <4>3. engine = "sqlserver" => Script(ask[c])[1] = "begin" /\ 1 \in 1..(at[c] - 1)
        BY <4>1, <4>2, ScriptsAre, <1>1 DEF SqlserverRead
      <4> QED BY <4>3 DEF begun, Sent, Precedes
    <3> QED BY <1>1, <1>2, <3>1, DriversDiffer DEF Holds
  <2>5. changing(c) => x.changes = {c}
    BY <1>4, <2>2, <2>3, <2>4 DEF changesNow
  <2>6. ~(at[c] < Len(Script(ask[c])))
    BY <1>1, <2>2 DEF TypeOK
  <2>7. ~changing(c) \/ readingEngine => x.changes = {}
    BY <1>5 DEF readingEngine
  <2>8. Durable(c, x) \subseteq {c}
    BY <1>5, <2>1
  <2>9. ~changing(c) \/ readingEngine => Durable(c, x) = {}
    BY <2>1, <2>7
  <2>10. changing(c) => Durable(c, x) = {c}
    BY <2>1, <2>5
  <2> QED BY <1>6, <2>6, <2>8, <2>9, <2>10, Zenon
<1>8. CASE statement(c) = "query"
  <2>1. executing(c)
    BY <1>1, <1>2, <1>8, RunningCall
  <2>2. transactional /\ uses[c] # None => x.tx # "none" /\ at[c] < Len(Script(ask[c]))
    BY <1>1, <1>2, <1>4, <1>8, <2>1, RunningCall DEF txNow
  <2>3. transactional => uses[c] # None
    <3>1. transactional => begun(c)
      BY <1>1, <1>2, <1>8, <2>1, RunningCall
    <3> QED BY <1>1, <1>2, <3>1, DriversDiffer DEF Holds, transactional
  <2>4. ~transactional => x.tx = "none" /\ at[c] = Len(Script(ask[c]))
    BY <1>1, <1>2, <1>3, <1>4, <1>8, <2>1, RunningCall DEF Pending, ReadOnlyAtMost, transactional
  <2>5. Durable(c, x) = IF changing(c) /\ x.tx = "none" THEN {c} ELSE {}
    BY <1>8 DEF Durable
  <2>6. at[c] = Len(Script(ask[c])) => ~(at[c] < Len(Script(ask[c])))
    BY <1>1 DEF TypeOK
  <2>7. Durable(c, x) \subseteq {c}
    BY <2>5
  <2>8. ~changing(c) \/ readingEngine => Durable(c, x) = {}
    BY <1>6, <1>8, <2>5 DEF readingEngine
  <2>9. at[c] < Len(Script(ask[c])) => Durable(c, x) = {}
    BY <2>2, <2>3, <2>4, <2>5, <2>6
  <2>10. changing(c) /\ at[c] = Len(Script(ask[c])) => Durable(c, x) = {c}
    BY <2>2, <2>3, <2>4, <2>5, <2>6
  <2> QED BY <1>6, <2>7, <2>8, <2>9, <2>10
<1>9. CASE statement(c) \notin {"commit", "query"}
  <2>1. Durable(c, x) = {}
    BY <1>9 DEF Durable
  <2>2. ~(changing(c) /\ at[c] = Len(Script(ask[c])))
    BY <1>1, <1>2, <1>9, RunningCall
  <2> QED BY <1>6, <2>1, <2>2
<1> QED BY <1>7, <1>8, <1>9

LEMMA BumpIsOfOneCall ==
  ASSUME TypeOK, NEW c \in Call, done[c] = 0, NEW cs \in SUBSET {c}, Bump(cs)
  PROVE  /\ done' \in [Call -> 0..1]
         /\ done'[c] = IF cs = {c} THEN 1 ELSE 0
         /\ \A d \in Call \ {c} : done'[d] = done[d]
<1>1. done' = [d \in Call |-> IF d \in cs THEN done[d] + 1 ELSE done[d]]
  BY DEF Bump
<1>2. done'[c] = IF cs = {c} THEN 1 ELSE 0
  BY <1>1
<1>3. \A d \in Call \ {c} : done'[d] = done[d] /\ done[d] \in 0..1
  BY <1>1 DEF TypeOK
<1> QED BY <1>1, <1>2, <1>3

\* A call fails: it still holds what it held, and nothing that it reports as
\* failed is durable unless its connection was lost.
LEMMA FailKeepsIInv ==
  ASSUME IInv, NEW c \in Call, pc[c] = "running", Fail(c), SessionsStaySound(c),
         UNCHANGED <<setting, pooling, ask, on, uses, at>>,
         uses[c] # None => \/ session'[uses[c]] = session[uses[c]]
                           \/ session'[uses[c]].tx = "none" /\ session'[uses[c]].changes = {},
         session[c] = None => session'[c] = None,
         done' \in [Call -> 0..1], lost' \subseteq Call,
         \A d \in Call \ {c} : done'[d] = done[d] /\ (d \in lost <=> d \in lost'),
         c \notin lost' \/ ~changing(c) \/ readingEngine => done'[c] = 0
  PROVE  IInv'
<1>1. TypeOK /\ CallFits(c) /\ engine \in Engines
  BY DEF IInv, TypeOK
<1>2. Proceeds(c) /\ Holds(c) /\ Works(c)
  BY <1>1 DEF CallFits
<1>3. /\ pc' = [pc EXCEPT ![c] = IF owesRollback(c) THEN "undoing" ELSE "leaving"]
      /\ result' = [result EXCEPT ![c] = IF executing(c) THEN "error" ELSE "nothing"]
  BY DEF Fail
<1>4. TypeOK'
  <2>1. /\ pc' \in [Call -> {"idle", "connecting", "running", "undoing", "leaving", "done"}]
        /\ result' \in [Call -> {"success", "error", "nothing", None}]
    BY <1>1, <1>3 DEF TypeOK
  <2>2. \A d \in Call : at'[d] <= Len(Script(ask[d]))
    BY <1>1 DEF TypeOK
  <2> QED BY <1>1, <2>1, <2>2, StepIsTyped DEF TypeOK
<1>5. /\ pc'[c] = IF owesRollback(c) THEN "undoing" ELSE "leaving"
      /\ result'[c] = IF executing(c) THEN "error" ELSE "nothing"
  BY <1>1, <1>3 DEF TypeOK
<1>6. changing(c)' <=> changing(c)
  BY DEF changing
<1>7. owesRollback(c) => uses[c] # None /\ driver.holds \in {"call", "transaction"}
  BY <1>1, <1>2, DriversDiffer DEF owesRollback, Holds
<1>8. ~owesRollback(c) /\ uses[c] # None => ~begun(c)
  <2>1. ~executing(c) => ~begun(c)
    BY <1>1, <1>2, RunningCall DEF begun
  <2>2. executing(c) /\ transactional /\ uses[c] # None => owesRollback(c)
    BY <1>1, DriversDiffer DEF transactional, owesRollback
  <2>3. executing(c) /\ begun(c) => transactional
    BY <1>1, <1>2, RunningCall
  <2> QED BY <2>1, <2>2, <2>3
<1>9. ~owesRollback(c) /\ driver.holds = "transaction" => uses[c] = None
  BY <1>1, <1>2, <1>8, DriversDiffer DEF Holds
<1>10. Holds(c)'
  BY <1>2, <1>5, <1>7, <1>9, SettingKeepsScripts, DriversDiffer, <1>1 DEF Holds, Unopened
<1>11. Works(c)'
  <2>1. ~owesRollback(c) /\ uses[c] # None => Pending(session[uses[c]]) /\ session[uses[c]].changes = {}
    <3>1. ~owesRollback(c) /\ uses[c] # None => changesNow(c) = {}
      <4>1. CASE executing(c)
        BY <1>1, <1>9, <4>1, DriversDiffer DEF changesNow
      <4>2. CASE ~executing(c)
        BY <1>1, <1>2, <4>2, RunningCall DEF changesNow
      <4> QED BY <4>1, <4>2
    <3> QED BY <1>2, <1>8, <3>1 DEF Works
  <2>2. driver.holds = "call" /\ uses[c] # None =>
          ReadOnlyAtMost(session[uses[c]]) /\ session[uses[c]].changes = {}
    <3>1. driver.holds = "call" => engine # "sqlserver"
      BY <1>1, DriversDiffer
    <3>2. driver.holds = "call" => changesNow(c) = {}
      BY <3>1 DEF changesNow
    <3>3. driver.holds = "call" /\ begun(c) => engine \in {"postgresql", "mysql"}
      <4>1. begun(c) => executing(c)
        BY <1>1, <1>2, RunningCall DEF begun
      <4>2. begun(c) => transactional
        BY <1>1, <1>2, <4>1, RunningCall
      <4> QED BY <3>1, <4>2 DEF transactional
    <3> QED BY <1>2, <3>1, <3>2, <3>3 DEF Works, txNow, Pending, ReadOnlyAtMost
  <2>3. ASSUME uses[c] # None, Pending(session[uses[c]]), session[uses[c]].changes = {}
        PROVE  Pending(session[uses[c]])' /\ session'[uses'[c]].changes = {}
    BY <2>3 DEF Pending, ReadOnlyAtMost, setting
  <2>4. ASSUME uses[c] # None, ReadOnlyAtMost(session[uses[c]]), session[uses[c]].changes = {}
        PROVE  ReadOnlyAtMost(session[uses[c]])' /\ session'[uses'[c]].changes = {}
    BY <2>4 DEF ReadOnlyAtMost, setting
  <2>5. pc'[c] = "undoing" /\ driver'.holds = "call" =>
          ReadOnlyAtMost(session[uses[c]])' /\ session'[uses'[c]].changes = {}
    BY <1>5, <1>7, <2>2, <2>4, SettingKeepsScripts
  <2>6. pc'[c] = "leaving" /\ uses'[c] # None =>
          Pending(session[uses[c]])' /\ session'[uses'[c]].changes = {}
    BY <1>5, <2>1, <2>3
  <2> QED BY <1>5, <2>5, <2>6 DEF Works
<1>12. Proceeds(c)'
  BY <1>1, <1>2, <1>5, SettingKeepsScripts DEF Proceeds
<1>13. Settles(c)'
  BY <1>5, <1>6 DEF Settles, setting, readingEngine
<1>14. CallFits(c)'
  BY <1>10, <1>11, <1>12, <1>13 DEF CallFits
<1> QED BY <1>1, <1>3, <1>4, <1>14, StepOfOneCall DEF TypeOK

LEMMA RefuseOrRejectKeepsIInv ==
  ASSUME IInv, NEW c \in Call, Refuse(c) \/ Reject(c)
  PROVE  IInv'
<1>1. /\ pc[c] = "running" /\ Fail(c)
      /\ UNCHANGED <<setting, pooling, ask, on, uses, at, server, lost>>
  BY DEF Refuse, Reject, sends
<1>2. SessionsStaySound(c)
  BY <1>1, SessionsUntouched DEF setting, server
<1>3. done[c] = 0 /\ TypeOK
  BY <1>1 DEF IInv, CallFits, Proceeds
<1> QED BY <1>1, <1>2, <1>3, FailKeepsIInv DEF server, TypeOK

LEMMA LoseConnectionKeepsIInv ==
  ASSUME IInv, NEW c \in Call, LoseConnection(c)
  PROVE  IInv'
<1>1. /\ pc[c] = "running" /\ Fail(c) /\ lost' = lost \cup {c}
      /\ sends(c) /\ ~begins(c) /\ Admitted(c)
      /\ UNCHANGED <<setting, pooling, ask, on, uses, at, idle>>
  BY DEF LoseConnection, sends
<1>2. TypeOK /\ CallFits(c)
  BY DEF IInv
<1>3. PICK cs \in {{}, Durable(c, current(c))} : Bump(cs)
  BY DEF LoseConnection
<1>4. /\ cs \in SUBSET {c}
      /\ ~changing(c) \/ readingEngine => cs = {}
  BY <1>1, <1>3, DurableAtTheEnd
<1>5. done[c] = 0
  BY <1>1, <1>2 DEF CallFits, Proceeds
<1>6. /\ done' \in [Call -> 0..1]
      /\ ~changing(c) \/ readingEngine => done'[c] = 0
      /\ \A d \in Call \ {c} : done'[d] = done[d]
  BY <1>2, <1>3, <1>4, <1>5, BumpIsOfOneCall
<1>7. /\ SessionsStaySound(c)
      /\ session[c] = None => session'[c] = None
      /\ uses[c] # None => session'[uses[c]].tx = "none" /\ session'[uses[c]].changes = {}
  <2>1. CASE uses[c] = None
    <3>1. UNCHANGED <<engine, session, idle, uses>>
      BY <1>1, <2>1 DEF LoseConnection, setting
    <3> QED BY <2>1, <3>1, SessionsUntouched
  <2>2. CASE uses[c] # None
    <3> DEFINE y == session[uses[c]]
               x == [y EXCEPT !.cut = TRUE, !.tx = "none", !.changes = {}]
    <3>1. uses[c] \in Call /\ y \in Session
      BY <1>2, <2>2 DEF TypeOK, IInv, EachHasOneHolder
    <3>2. session' = [session EXCEPT ![uses[c]] = x]
      BY <2>2, <3>1 DEF LoseConnection
    <3>3. x \in Session /\ x.tx = "none" /\ x.changes = {}
      BY <3>1 DEF Session, Tx
    <3>5. session[uses[c]] # None
      BY <2>2 DEF IInv, EachHasOneHolder
    <3> HIDE DEF x, y
    <3>6. SessionsStaySound(c) /\ session'[uses[c]] = x
      BY <1>1, <2>2, <3>2, <3>3, SessionUsed DEF setting
    <3>7. session[c] = None => session'[c] = None
      BY <1>2, <3>1, <3>2, <3>5 DEF TypeOK
    <3> QED BY <3>3, <3>6, <3>7
  <2> QED BY <2>1, <2>2
<1>8. lost' \subseteq Call /\ \A d \in Call \ {c} : d \in lost <=> d \in lost'
  BY <1>1, <1>2 DEF TypeOK
<1>9. c \in lost'
  BY <1>1
<1> QED BY <1>1, <1>6, <1>7, <1>8, <1>9, FailKeepsIInv

\* A call that goes on in its script.
LEMMA GoingOnIsTyped ==
  ASSUME TypeOK, NEW c \in Call, at' = [at EXCEPT ![c] = @ + 1], at[c] < Len(Script(ask[c]))
  PROVE  at' \in [Call -> Nat] /\ \A d \in Call : at'[d] <= Len(Script(ask[d]))
<1>1. at \in [Call -> Nat]
  BY DEF TypeOK
<1>2. at' \in [Call -> Nat] /\ at'[c] = at[c] + 1
  BY <1>1
<1>3. ASSUME NEW d \in Call PROVE at'[d] <= Len(Script(ask[d]))
  <2>1. Len(Script(ask[c])) \in Nat
    <3>1. CASE ask[c] \in Asks
      BY <3>1, ScriptsAreNotEmpty DEF TypeOK
    <3>2. CASE ask[c] = None
      <4>1. Script(None) = driver.read /\ Script("read") = driver.read
        BY NoneIsNothing DEF Script
      <4>2. "read" \in Asks /\ engine \in Engines /\ schema \in BOOLEAN
        BY DEF TypeOK, Asks
      <4> QED BY <3>2, <4>1, <4>2, ScriptsAreNotEmpty
    <3> QED BY <3>1, <3>2 DEF TypeOK
  <2>2. CASE d = c
    BY <1>1, <1>2, <2>1, <2>2
  <2>3. CASE d # c
    BY <1>1, <2>3 DEF TypeOK
  <2> QED BY <2>2, <2>3
<1> QED BY <1>2, <1>3

LEMMA BeginKeepsIInv == ASSUME IInv, NEW c \in Call, Begin(c) PROVE IInv'
<1>1. /\ TypeOK /\ CallFits(c) /\ pc[c] = "running" /\ begins(c) /\ Acquire(c)
      /\ at' = [at EXCEPT ![c] = @ + 1]
      /\ UNCHANGED <<setting, pooling, pc, ask, on, done, outcome>>
      /\ engine \in Engines
  BY DEF IInv, Begin, sends, TypeOK
<1>2. Proceeds(c) /\ Holds(c) /\ Works(c) /\ Settles(c)
  BY <1>1 DEF CallFits
<1>3. statement(c) = "begin" /\ driver.holds = "transaction" /\ engine = "sqlserver"
  BY <1>1, DriversDiffer DEF begins
<1>4. /\ executing(c) /\ at[c] < Len(Script(ask[c])) /\ at[c] = 1
      /\ ~Sent(c, "query") /\ ~begun(c)
  BY <1>1, <1>2, <1>3, RunningCall
<1>5. uses[c] = None /\ session[c] = None
  BY <1>1, <1>2, <1>3, <1>4 DEF Holds, Unopened
<1>6. PICK s \in Call, x \in Session : HandedOut(c, s, x)
  BY <1>1, <1>5, AcquiredIsClean
<1>7. SessionsStaySound(c) /\ uses'[c] = s /\ session'[s] = x
  BY <1>1, <1>5, <1>6, SessionAcquired DEF setting, HandedOut
<1>8. x.tx = "read-write" /\ x.changes = {} /\ ~x.cut
  BY <1>3, <1>6 DEF HandedOut
<1>9. \A t : Sent(c, t)' <=> Sent(c, t) \/ t = "begin"
  BY <1>1, <1>2, <1>3, GoingOnSends
<1>10. /\ begun(c)' /\ ~Sent(c, "query")' /\ txNow(c)' = "read-write" /\ changesNow(c)' = {}
       /\ Sent(c, "session-read-only")' => Sent(c, "session-read-only")
  BY <1>1, <1>3, <1>4, <1>9 DEF begun, txNow, changesNow, setting
<1>11. ~Sent(c, "session-read-only")
  BY <1>4 DEF Sent, Precedes
<1>12. TypeOK'
  BY <1>1, <1>4, <1>7, GoingOnIsTyped, StepIsTyped DEF TypeOK, outcome
<1>13. at'[c] = 2
  BY <1>1, <1>4 DEF TypeOK
<1>14. CallFits(c)'
  <2>1. ~begins(c)'
    <3>1. statement(c)' = Script(ask[c])[2]
      BY <1>1, <1>13, SettingKeepsScripts DEF statement
    <3>2. Script(ask[c]) = SqlserverRead
      BY <1>1, <1>2, <1>3, <1>4, RunningCall, ScriptsAre DEF TypeOK
    <3> QED BY <3>1, <3>2 DEF begins, SqlserverRead
  <2>2. s # None
    BY NoneIsNothing
  <2>3. Holds(c)'
    BY <1>1, <1>3, <1>7, <1>10, <2>1, <2>2, SettingKeepsScripts DEF Holds, Unopened
  <2>4. Works(c)'
    BY <1>1, <1>7, <1>8, <1>10, <1>11 DEF Works
  <2>5. Proceeds(c)'
    BY <1>1, <1>2, <1>10, <1>13, SettingKeepsScripts DEF Proceeds, outcome
  <2>6. Settles(c)'
    BY <1>1, <1>2 DEF Settles, changing, outcome, setting
  <2> QED BY <2>3, <2>4, <2>5, <2>6 DEF CallFits
<1> QED BY <1>1, <1>7, <1>12, <1>14, StepOfOneCall DEF TypeOK, outcome

LEMMA UndoKeepsIInv == ASSUME IInv, NEW c \in Call, Undo(c) PROVE IInv'
<1>1. /\ TypeOK /\ CallFits(c) /\ pc[c] = "undoing" /\ pc' = [pc EXCEPT ![c] = "leaving"]
      /\ UNCHANGED <<setting, pooling, ask, on, at, done, outcome>>
      /\ engine \in Engines
  BY DEF IInv, Undo, TypeOK
<1>2. Proceeds(c) /\ Holds(c) /\ Settles(c)
  BY <1>1 DEF CallFits
<1>3. uses[c] # None
  BY <1>1, <1>2 DEF Holds
<1> DEFINE y == session[uses[c]]
<1>4. uses[c] \in Call /\ y \in Session
  BY <1>1, <1>3 DEF TypeOK, IInv, EachHasOneHolder
<1>5. PICK x \in Undone(session[uses[c]]) :
        IF driver.holds = "transaction"
        THEN PutBack(uses[c], x) /\ uses' = [uses EXCEPT ![c] = None]
        ELSE session' = [session EXCEPT ![uses[c]] = x] /\ UNCHANGED <<idle, uses>>
  BY DEF Undo
<1>6. driver.holds = "call" => ReadOnlyAtMost(y) /\ y.changes = {}
  BY <1>1, <1>3 DEF CallFits, Works
<1> HIDE DEF y
<1>7. x \in Undone(y)
  BY <1>5 DEF y
<1>8. x \in Session /\ Pending(x) /\ x.changes = {}
  <2>1. CASE \E cut \in BOOLEAN :
               x = [y EXCEPT !.tx = "none", !.changes = {}, !.spoilt = FALSE, !.cut = @ \/ cut]
    <3>1. PICK cut \in BOOLEAN :
            x = [y EXCEPT !.tx = "none", !.changes = {}, !.spoilt = FALSE, !.cut = @ \/ cut]
      BY <2>1
    <3> DEFINE gone == y.cut \/ cut
    <3>2. gone \in BOOLEAN /\ x = [y EXCEPT !.tx = "none", !.changes = {}, !.spoilt = FALSE, !.cut = gone]
      BY <1>4, <3>1 DEF Session
    <3> HIDE DEF gone
    <3>3. x \in Session /\ x.tx = "none" /\ x.changes = {}
      BY <1>4, <3>2 DEF Session, Tx
    <3> QED BY <3>3 DEF Pending, ReadOnlyAtMost
  <2>2. CASE driver.holds = "call" /\ x = [y EXCEPT !.spoilt = TRUE]
    <3>1. x \in Session /\ x.tx = y.tx /\ x.changes = y.changes /\ x.spoilt
      BY <1>4, <2>2 DEF Session
    <3> QED BY <1>6, <2>2, <3>1 DEF Pending, ReadOnlyAtMost
  <2> QED BY <1>7, <2>1, <2>2 DEF Undone
<1>10. /\ SessionsStaySound(c)
       /\ driver.holds = "transaction" => uses'[c] = None
       /\ driver.holds # "transaction" => uses'[c] = uses[c] /\ session'[uses[c]] = x
  <2>1. CASE driver.holds = "transaction"
    <3>1. engine # "oracle"
      BY <1>1, <2>1, DriversDiffer
    <3>2. PutBack(uses[c], x) /\ uses' = [uses EXCEPT ![c] = None]
      BY <1>5, <2>1
    <3> QED BY <1>1, <1>3, <1>8, <2>1, <3>1, <3>2, SessionGivenUp DEF setting
  <2>2. CASE driver.holds # "transaction"
    <3>1. session' = [session EXCEPT ![uses[c]] = x] /\ UNCHANGED <<idle, uses>>
      BY <1>5, <2>2
    <3> QED BY <1>1, <1>3, <1>8, <2>2, <3>1, SessionUsed DEF setting
  <2> QED BY <2>1, <2>2
<1>11. TypeOK'
  <2>1. pc' \in [Call -> {"idle", "connecting", "running", "undoing", "leaving", "done"}]
    BY <1>1 DEF TypeOK
  <2>2. \A d \in Call : at'[d] <= Len(Script(ask[d]))
    BY <1>1 DEF TypeOK
  <2> QED BY <1>1, <1>10, <2>1, <2>2, StepIsTyped DEF TypeOK, outcome
<1>12. CallFits(c)'
  <2>1. pc'[c] = "leaving"
    BY <1>1 DEF TypeOK
  <2>2. driver.holds # "nobody"
    <3>1. driver.holds \in {"call", "transaction"}
      BY <1>1, <1>2 DEF Holds
    <3> QED BY <3>1
  <2>3. Holds(c)'
    BY <1>10, <2>1, <2>2, SettingKeepsScripts, <1>1 DEF Holds, Unopened
  <2>4. Works(c)'
    <3>1. uses'[c] # None => session'[uses'[c]] = x
      BY <1>10
    <3> QED BY <1>1, <1>8, <2>1, <3>1 DEF Works, Pending, ReadOnlyAtMost, setting
  <2>5. Proceeds(c)' /\ Settles(c)'
    BY <1>1, <1>2, <2>1, SettingKeepsScripts DEF Proceeds, Settles, changing, outcome, setting
  <2> QED BY <2>3, <2>4, <2>5 DEF CallFits
<1> QED BY <1>1, <1>10, <1>11, <1>12, StepOfOneCall DEF TypeOK, outcome

LEMMA LeaveKeepsIInv == ASSUME IInv, NEW c \in Call, Leave(c) PROVE IInv'
<1>1. /\ TypeOK /\ CallFits(c) /\ pc[c] = "leaving" /\ pc' = [pc EXCEPT ![c] = "done"]
      /\ uses' = [uses EXCEPT ![c] = None]
      /\ UNCHANGED <<setting, pooling, ask, on, at, done, outcome>>
  BY DEF IInv, Leave
<1>2. Proceeds(c) /\ Holds(c) /\ Works(c) /\ Settles(c)
  BY <1>1 DEF CallFits
<1>3. SessionsStaySound(c) /\ uses'[c] = None
  <2>1. CASE uses[c] = None
    <3>1. UNCHANGED <<session, idle>>
      BY <2>1 DEF Leave
    <3>2. uses' = uses
      BY <1>1, <2>1 DEF TypeOK
    <3> QED BY <1>1, <2>1, <3>1, <3>2, SessionsUntouched DEF setting
  <2>2. CASE uses[c] # None
    <3> DEFINE y == session[uses[c]]
               timed == y.timed /\ engine # "oracle"
               x == [y EXCEPT !.timed = timed]
    <3>1. y \in Session /\ Pending(y) /\ y.changes = {}
      BY <1>1, <1>2, <2>2 DEF TypeOK, IInv, EachHasOneHolder, Works
    <3>4. timed \in BOOLEAN /\ (timed => engine # "oracle")
      BY <3>1 DEF Session
    <3>2. \/ session' = [session EXCEPT ![uses[c]] = x] /\ idle' = idle
          \/ PutBack(uses[c], x)
      BY <2>2 DEF Leave
    <3> HIDE DEF y, timed
    <3>3. /\ x \in Session /\ x.timed = timed /\ x.tx = y.tx /\ x.spoilt = y.spoilt
          /\ x.changes = {}
      BY <3>1, <3>4 DEF Session
    <3> HIDE DEF x
    <3>5. (x.timed => engine # "oracle") /\ Pending(x)
      BY <3>1, <3>3, <3>4 DEF Pending, ReadOnlyAtMost
    <3> QED BY <1>1, <2>2, <3>2, <3>3, <3>5, SessionGivenUp DEF setting
  <2> QED BY <2>1, <2>2
<1>4. TypeOK'
  <2>1. pc' \in [Call -> {"idle", "connecting", "running", "undoing", "leaving", "done"}]
    BY <1>1 DEF TypeOK
  <2>2. \A d \in Call : at'[d] <= Len(Script(ask[d]))
    BY <1>1 DEF TypeOK
  <2> QED BY <1>1, <1>3, <2>1, <2>2, StepIsTyped DEF TypeOK, outcome
<1>5. CallFits(c)'
  <2>1. pc'[c] = "done"
    BY <1>1 DEF TypeOK
  <2> QED BY <1>1, <1>2, <1>3, <2>1, SettingKeepsScripts
          DEF CallFits, Holds, Unopened, Works, Proceeds, Settles, changing, outcome, setting
<1> QED BY <1>1, <1>3, <1>4, <1>5, StepOfOneCall DEF TypeOK, outcome

\* What a statement leaves of the session it ran on is what the call's place
\* in the script says.
LEMMA AfterFits ==
  ASSUME IInv, NEW c \in Call, sends(c), ~begins(c), Admitted(c), uses[c] # None
  PROVE  LET x == After(c, session[uses[c]]) IN
         /\ x \in Session /\ ~x.cut
         /\ at[c] < Len(Script(ask[c])) =>
              /\ IF begun(c) \/ statement(c) \in {"begin", "begin-read-only"}
                 THEN x.tx = txNow(c) ELSE Pending(x)
              /\ x.changes = IF engine = "sqlserver" /\ changing(c)
                                /\ (Sent(c, "query") \/ statement(c) = "query")
                             THEN {c} ELSE {}
              /\ Sent(c, "session-read-only") \/ statement(c) = "session-read-only" => x.readonly
         /\ at[c] = Len(Script(ask[c])) \/ ~executing(c) => Pending(x) /\ x.changes = {}
<1> DEFINE y == session[uses[c]]
           x == After(c, y)
<1>1. TypeOK /\ CallFits(c) /\ pc[c] = "running" /\ engine \in Engines
  BY DEF IInv, sends, TypeOK
<1>2. Proceeds(c) /\ Holds(c) /\ Works(c)
  BY <1>1 DEF CallFits
<1>3. y \in Session
  BY <1>1 DEF TypeOK, IInv, EachHasOneHolder
<1>4. /\ begun(c) => y.tx = txNow(c)
      /\ ~begun(c) => Pending(y)
      /\ y.changes = changesNow(c) /\ ~y.cut
      /\ Sent(c, "session-read-only") => y.readonly
  BY <1>1, <1>2 DEF Works
<1>5. ~executing(c) => /\ statement(c) = "catalogue" /\ ~begun(c) /\ ~changing(c)
                       /\ ~Sent(c, "query") /\ ~Sent(c, "session-read-only")
  BY <1>1, <1>2, RunningCall DEF begun
<1> HIDE DEF y
<1>6. CASE statement(c) = "begin-read-only"
  <2>1. executing(c) /\ engine = "postgresql" /\ at[c] < Len(Script(ask[c]))
    BY <1>1, <1>2, <1>5, <1>6, RunningCall
  <2>2. x = [y EXCEPT !.tx = "read-only"]
    BY <1>6 DEF After
  <2>3. x \in Session /\ x.cut = y.cut /\ x.tx = txNow(c)
        /\ x.changes = y.changes /\ x.readonly = y.readonly
    BY <1>3, <2>1, <2>2 DEF Session, Tx, txNow
  <2>4. at[c] # Len(Script(ask[c])) \/ FALSE
    BY <1>1, <2>1 DEF TypeOK
  <2>5. y.changes = {}
    BY <1>4, <2>1 DEF changesNow
  <2> HIDE DEF x
  <2> QED BY <1>4, <1>6, <2>1, <2>3, <2>4, <2>5 DEF x, y
<1>7. CASE statement(c) = "begin"
  <2>1. executing(c) /\ engine = "mysql" /\ at[c] < Len(Script(ask[c]))
        /\ Sent(c, "session-read-only")
    BY <1>1, <1>2, <1>5, <1>7, RunningCall, DriversDiffer DEF begins
  <2>2. x = [y EXCEPT !.tx = IF y.readonly THEN "read-only" ELSE "read-write"]
    BY <1>7 DEF After
  <2>3. x \in Session /\ x.cut = y.cut /\ x.tx = txNow(c)
        /\ x.changes = y.changes /\ x.readonly = y.readonly
    BY <1>3, <1>4, <2>1, <2>2 DEF Session, Tx, txNow
  <2>4. at[c] # Len(Script(ask[c]))
    BY <1>1, <2>1 DEF TypeOK
  <2>5. y.changes = {}
    BY <1>4, <2>1 DEF changesNow
  <2> HIDE DEF x
  <2> QED BY <1>4, <1>7, <2>1, <2>3, <2>4, <2>5 DEF x, y
<1>8. CASE statement(c) = "session-read-only"
  <2>1. executing(c) /\ at[c] < Len(Script(ask[c]))
    BY <1>1, <1>2, <1>5, <1>8, RunningCall
  <2>2. x = [y EXCEPT !.readonly = TRUE]
    BY <1>8 DEF After
  <2>3. x \in Session /\ x.cut = y.cut /\ x.tx = y.tx
        /\ x.spoilt = y.spoilt /\ x.changes = y.changes /\ x.readonly
    BY <1>3, <2>2 DEF Session
  <2>4. at[c] # Len(Script(ask[c]))
    BY <1>1, <2>1 DEF TypeOK
  <2> HIDE DEF x
  <2>5. ~begun(c) => Pending(x)
    BY <1>4, <2>3 DEF Pending, ReadOnlyAtMost
  <2> QED BY <1>4, <1>8, <2>1, <2>3, <2>4, <2>5 DEF x, y, changesNow
<1>9. CASE statement(c) = "commit"
  <2>1. at[c] = Len(Script(ask[c])) /\ executing(c)
    BY <1>1, <1>2, <1>5, <1>9, RunningCall
  <2>2. x = [y EXCEPT !.tx = "none", !.changes = {}, !.spoilt = FALSE]
    BY <1>9 DEF After
  <2>3. x \in Session /\ x.cut = y.cut /\ x.tx = "none" /\ x.changes = {}
    BY <1>3, <2>2 DEF Session, Tx
  <2>4. ~(at[c] < Len(Script(ask[c])))
    BY <1>1, <2>1 DEF TypeOK
  <2> HIDE DEF x
  <2>5. Pending(x)
    BY <2>3 DEF Pending, ReadOnlyAtMost
  <2> QED BY <1>4, <2>1, <2>3, <2>4, <2>5 DEF x, y
<1>10. CASE statement(c) = "query"
  <2>1. executing(c) /\ (transactional => begun(c) /\ at[c] < Len(Script(ask[c])))
        /\ (~transactional => at[c] = Len(Script(ask[c])))
    BY <1>1, <1>2, <1>5, <1>10, RunningCall
  <2>2. ~transactional => ~begun(c)
    BY <1>1, <1>2, <2>1, RunningCall
  <2>3. changing(c) => engine \in {"sqlserver", "oracle", "sqlite"}
    BY <1>10, DurableAtTheEnd
  <2>4. x = IF changing(c) /\ y.tx # "none" THEN [y EXCEPT !.changes = @ \cup {c}] ELSE y
    BY <1>10 DEF After
  <2>5. x \in Session /\ x.cut = y.cut /\ x.tx = y.tx
        /\ x.readonly = y.readonly
        /\ x.changes = IF changing(c) /\ y.tx # "none" THEN y.changes \cup {c} ELSE y.changes
    BY <1>3, <2>4 DEF Session
  <2>6. y.tx # "none" <=> begun(c)
    BY <1>4, <2>1, <2>2 DEF txNow, Pending, ReadOnlyAtMost, transactional
  <2>7. x.changes = IF engine = "sqlserver" /\ changing(c) THEN {c} ELSE {}
    BY <1>4, <2>1, <2>2, <2>3, <2>5, <2>6 DEF changesNow, transactional
  <2>8. at[c] = Len(Script(ask[c])) => ~transactional
    BY <1>1, <2>1 DEF TypeOK
  <2>9. at[c] = Len(Script(ask[c])) => Pending(x) /\ x.changes = {}
    BY <2>2, <2>5, <2>6, <2>7, <2>8 DEF transactional, Pending, ReadOnlyAtMost
  <2>10. at[c] < Len(Script(ask[c])) => begun(c)
    BY <1>1, <2>1 DEF TypeOK
  <2> HIDE DEF x
  <2> QED BY <1>4, <1>10, <2>1, <2>5, <2>7, <2>9, <2>10 DEF x, y
<1>12. CASE statement(c) = "set"
  <2>1. executing(c) /\ at[c] # Len(Script(ask[c]))
    BY <1>1, <1>2, <1>5, <1>12, RunningCall
  <2>2. x = [y EXCEPT !.timed = TRUE]
    BY <1>12 DEF After
  <2>3. x \in Session /\ x.cut = y.cut /\ x.tx = y.tx /\ x.spoilt = y.spoilt
        /\ x.changes = y.changes /\ x.readonly = y.readonly
    BY <1>3, <2>2 DEF Session
  <2> HIDE DEF x
  <2>4. ~begun(c) => Pending(x)
    BY <1>4, <2>3 DEF Pending, ReadOnlyAtMost
  <2> QED BY <1>4, <1>12, <2>1, <2>3, <2>4 DEF x, y, changesNow
<1>11. CASE statement(c) \notin {"begin-read-only", "begin", "session-read-only", "commit", "query",
                               "set"}
  <2>1. x = y
    BY <1>11 DEF After
  <2>2. executing(c) => at[c] # Len(Script(ask[c]))
    BY <1>1, <1>2, <1>11, RunningCall
  <2>3. ~executing(c) => Pending(y) /\ y.changes = {}
    BY <1>4, <1>5 DEF changesNow
  <2> HIDE DEF x
  <2> QED BY <1>3, <1>4, <1>11, <2>1, <2>2, <2>3 DEF x, y, changesNow
<1> QED BY <1>6, <1>7, <1>8, <1>9, <1>10, <1>11, <1>12

LEMMA AcceptKeepsIInv == ASSUME IInv, NEW c \in Call, Accept(c) PROVE IInv'
<1> DEFINE what == ask[c]
           x == After(c, session[uses[c]])
           here == at[c] < Len(Script(ask[c]))
           last == at[c] = Len(Script(ask[c]))
<1>1. /\ TypeOK /\ CallFits(c) /\ pc[c] = "running" /\ engine \in Engines
      /\ sends(c) /\ ~begins(c) /\ Admitted(c)
      /\ UNCHANGED <<setting, pooling, ask, on, lost>>
  BY DEF IInv, Accept, sends, TypeOK
<1>2. Proceeds(c) /\ Holds(c) /\ Works(c) /\ Settles(c)
  BY <1>1 DEF CallFits
<1>3. Bump(Durable(c, current(c))) /\ Proceed(c)
  BY DEF Accept
<1>4. uses[c] # None => session[uses[c]] \in Session /\ session[uses[c]] # None
  BY <1>1 DEF TypeOK, IInv, EachHasOneHolder
<1>5. uses[c] # None =>
        /\ x \in Session /\ ~x.cut
        /\ last \/ ~executing(c) => Pending(x) /\ x.changes = {}
  BY <1>1, AfterFits
<1>7. commits(c) => last /\ executing(c) /\ engine = "sqlserver"
  BY <1>1, <1>2, RunningCall, DriversDiffer DEF commits
<1>8. /\ SessionsStaySound(c)
      /\ uses[c] = None => uses'[c] = None
      /\ uses[c] # None /\ commits(c) => uses'[c] = None
      /\ uses[c] # None /\ ~commits(c) => uses'[c] = uses[c] /\ session'[uses[c]] = x
      /\ session[c] = None => session'[c] = None
  <2> HIDE DEF last
  <2>1. CASE uses[c] = None
    <3>1. UNCHANGED <<session, idle, uses>>
      BY <2>1 DEF Accept
    <3> QED BY <1>1, <2>1, <3>1, SessionsUntouched DEF setting
  <2>2. CASE uses[c] # None /\ commits(c)
    <3>1. PutBack(uses[c], x) /\ uses' = [uses EXCEPT ![c] = None]
      BY <2>2 DEF Accept, current
    <3>2. engine # "oracle"
      BY <1>7, <2>2
    <3>3. x \in Session /\ Pending(x) /\ x.changes = {}
      BY <1>5, <1>7, <2>2
    <3>4. session[c] = None => session'[c] = None
      BY <1>1, <1>4, <2>2, <3>1 DEF PutBack, TypeOK
    <3> HIDE DEF x
    <3>5. SessionsStaySound(c) /\ uses'[c] = None
      BY <1>1, <2>2, <3>1, <3>2, <3>3, SessionGivenUp DEF setting
    <3> QED BY <2>2, <3>4, <3>5
  <2>3. CASE uses[c] # None /\ ~commits(c)
    <3>1. session' = [session EXCEPT ![uses[c]] = x] /\ UNCHANGED <<idle, uses>>
      BY <2>3 DEF Accept, current
    <3>2. x \in Session
      BY <1>4, <1>5, <2>3
    <3>3. session[c] = None => session'[c] = None
      BY <1>1, <1>4, <2>3, <3>1 DEF TypeOK
    <3> HIDE DEF x
    <3>4. SessionsStaySound(c) /\ session'[uses[c]] = x
      BY <1>1, <2>3, <3>1, <3>2, SessionUsed DEF setting
    <3> QED BY <2>3, <3>1, <3>3, <3>4
  <2> QED BY <2>1, <2>2, <2>3
<1>9. done[c] = 0 /\ result[c] = None
  BY <1>1, <1>2 DEF Proceeds
<1>10. /\ done' \in [Call -> 0..1]
       /\ ~changing(c) \/ readingEngine \/ here => done'[c] = 0
       /\ changing(c) /\ last => done'[c] = 1
       /\ \A d \in Call \ {c} : done'[d] = done[d]
  <2> DEFINE cs == Durable(c, current(c))
  <2>1. /\ cs \in SUBSET {c}
        /\ ~changing(c) \/ readingEngine \/ here => cs = {}
        /\ changing(c) /\ last => cs = {c}
    BY <1>1, DurableAtTheEnd
  <2> HIDE DEF cs
  <2>2. Bump(cs)
    BY <1>3 DEF cs
  <2> HIDE DEF here, last
  <2> QED BY <1>1, <1>9, <2>1, <2>2, BumpIsOfOneCall
<1>11. changing(c)' <=> changing(c)
  BY <1>1 DEF changing
<1>12. CASE here /\ at' = [at EXCEPT ![c] = @ + 1] /\ UNCHANGED <<pc, result>>
  <2>1. TypeOK'
    BY <1>1, <1>8, <1>10, <1>12, GoingOnIsTyped, StepIsTyped DEF TypeOK
  <2>2. at'[c] = at[c] + 1 /\ at[c] \in Nat /\ at[c] >= 1
    BY <1>1, <1>2, <1>12 DEF TypeOK, Proceeds
  <2>3. \A s : Sent(c, s)' <=> Sent(c, s) \/ statement(c) = s
    BY <1>1, <1>2, <1>12, GoingOnSends
  <2>4. ~commits(c)
    <3>1. here => ~last
      BY <1>1, <2>2
    <3> QED BY <1>7, <1>12, <3>1
  <2>5. driver.holds = "transaction" => (begun(c)' <=> begun(c))
    <3>1. driver.holds = "transaction" => engine = "sqlserver" /\ statement(c) # "begin"
      BY <1>1, DriversDiffer DEF begins
    <3>2. engine = "sqlserver" => statement(c) # "begin-read-only"
      <4>1. executing(c) /\ statement(c) = "begin-read-only" => engine = "postgresql"
        BY <1>1, <1>2, RunningCall
      <4>2. ~executing(c) => statement(c) = "catalogue"
        BY <1>1, <1>2, RunningCall
      <4> QED BY <4>1, <4>2
    <3> QED BY <2>3, <3>1, <3>2 DEF begun
  <2>6. ~begins(c)'
    <3> SUFFICES ASSUME begins(c)' PROVE FALSE
      OBVIOUS
    <3>1. Script(ask[c])[at[c] + 1] = "begin" /\ driver.holds = "transaction"
      BY <1>1, <2>2, SettingKeepsScripts DEF begins, statement
    <3>2. engine = "sqlserver"
      BY <1>1, <3>1, DriversDiffer
    <3>3. Len(Script(ask[c])) \in Nat /\ ask[c] \in Asks
      BY <1>1, <1>2, ScriptsAreNotEmpty DEF Proceeds, TypeOK
    <3>4. at[c] + 1 \in Nat /\ 1 <= at[c] + 1 /\ at[c] + 1 <= Len(Script(ask[c])) /\ at[c] + 1 # 1
      BY <1>12, <2>2, <3>3
    <3>5. CASE ask[c] \in {"read", "write", "hidden-write"}
      BY <1>1, <3>1, <3>2, <3>4, <3>5, ScriptShape DEF TypeOK
    <3>6. CASE ask[c] \in {"schema", "probe"}
      BY <1>1, <3>1, <3>3, <3>4, <3>6, CataloguesAre
    <3> QED BY <1>1, <3>3, <3>5, <3>6, AsksDiffer
  <2>7. Holds(c)'
    BY <1>1, <1>2, <1>8, <1>12, <2>4, <2>5, <2>6, SettingKeepsScripts, DriversDiffer
       DEF Holds, Unopened
  <2>8. Works(c)'
    <3> SUFFICES ASSUME uses'[c] # None
                 PROVE  /\ begun(c)' => session'[uses'[c]].tx = txNow(c)'
                        /\ ~begun(c)' => Pending(session[uses[c]])'
                        /\ session'[uses'[c]].changes = changesNow(c)'
                        /\ Sent(c, "session-read-only")' => session'[uses'[c]].readonly
                        /\ ~session'[uses'[c]].cut
      BY <1>1, <1>12 DEF Works
    <3>1. uses[c] # None /\ uses'[c] = uses[c] /\ session'[uses[c]] = x
      BY <1>8, <2>4
    <3>2. /\ IF begun(c) \/ statement(c) \in {"begin", "begin-read-only"}
             THEN x.tx = txNow(c) ELSE Pending(x)
          /\ x.changes = IF engine = "sqlserver" /\ changing(c)
                            /\ (Sent(c, "query") \/ statement(c) = "query")
                         THEN {c} ELSE {}
          /\ Sent(c, "session-read-only") \/ statement(c) = "session-read-only" => x.readonly
          /\ ~x.cut
      BY <1>1, <1>12, <3>1, AfterFits
    <3> HIDE DEF x
    <3>3. IF begun(c)' THEN x.tx = txNow(c)' ELSE Pending(x)
      BY <1>1, <2>3, <3>2 DEF txNow, begun, setting
    <3>5. ~begun(c)' => Pending(session[uses[c]])'
      BY <1>1, <3>1, <3>3 DEF Pending, ReadOnlyAtMost, setting
    <3>4. changesNow(c)' = x.changes
      BY <1>1, <1>11, <2>3, <3>2 DEF changesNow, setting
    <3> QED BY <2>3, <3>1, <3>2, <3>3, <3>4, <3>5
  <2>9. Proceeds(c)'
    <3>1. changing(c) /\ statement(c) = "query" => engine = "sqlserver"
      <4>1. changing(c) /\ statement(c) = "query" => engine \in {"sqlserver", "oracle", "sqlite"}
        BY <1>1, DurableAtTheEnd
      <4>2. changing(c) /\ statement(c) = "query" /\ ~transactional => last
        BY <1>1, <1>2, RunningCall
      <4>3. here => ~last
        BY <2>2
      <4> QED BY <1>12, <4>1, <4>2, <4>3 DEF transactional
    <3>2. at'[c] >= 1
      BY <2>2
    <3>3. changing(c)' /\ Sent(c, "query")' => engine' = "sqlserver"
      BY <1>1, <1>2, <1>11, <2>3, <3>1 DEF Proceeds, setting
    <3> QED BY <1>1, <1>2, <1>9, <1>10, <1>12, <3>2, <3>3, SettingKeepsScripts DEF Proceeds
  <2>10. Settles(c)'
    BY <1>9, <1>10, <1>12, NoneIsNothing DEF Settles
  <2>11. CallFits(c)'
    BY <2>7, <2>8, <2>9, <2>10 DEF CallFits
  <2> QED BY <1>1, <1>8, <1>10, <1>12, <2>1, <2>11, StepOfOneCall DEF TypeOK
<1>13. CASE /\ last \/ ask[c] = "schema"
            /\ pc' = [pc EXCEPT ![c] = "leaving"]
            /\ result' = [result EXCEPT ![c] = "success"]
            /\ UNCHANGED at
  <2>1. TypeOK'
    <3>1. /\ pc' \in [Call -> {"idle", "connecting", "running", "undoing", "leaving", "done"}]
          /\ result' \in [Call -> {"success", "error", "nothing", None}]
      BY <1>1, <1>13 DEF TypeOK
    <3>2. \A d \in Call : at'[d] <= Len(Script(ask[d]))
      BY <1>1, <1>13 DEF TypeOK
    <3> QED BY <1>1, <1>8, <1>10, <1>13, <3>1, <3>2, StepIsTyped DEF TypeOK
  <2>2. pc'[c] = "leaving" /\ result'[c] = "success"
    BY <1>1, <1>13 DEF TypeOK
  <2>3. ask[c] = "schema" => ~executing(c)
    BY DEF executing
  <2>4. driver.holds = "transaction" => uses'[c] = None
    <3>1. CASE driver.holds = "transaction" /\ executing(c)
      <4>1. statement(c) = "commit"
        BY <1>1, <1>2, <1>13, <2>3, <3>1, RunningCall, DriversDiffer DEF transactional
      <4> QED BY <1>8, <3>1, <4>1 DEF commits
    <3>2. CASE driver.holds = "transaction" /\ ~executing(c)
      <4>1. ~begun(c)
        BY <1>1, <1>2, <3>2, RunningCall DEF begun
      <4>2. uses[c] = None
        BY <1>1, <1>2, <3>2, <4>1 DEF Holds
      <4> QED BY <1>8, <4>2
    <3> QED BY <3>1, <3>2
  <2>5. driver.holds = "nobody" => uses'[c] = None
    BY <1>1, <1>2, <1>8 DEF Holds
  <2>6. Holds(c)'
    BY <1>1, <2>2, <2>4, <2>5, SettingKeepsScripts DEF Holds, Unopened
  <2>7. Works(c)'
    <3>1. uses'[c] # None => uses[c] # None /\ uses'[c] = uses[c] /\ session'[uses[c]] = x
      BY <1>8
    <3> HIDE DEF x, last
    <3>2. uses[c] # None => Pending(x) /\ x.changes = {}
      BY <1>5, <1>13, <2>3
    <3> QED BY <1>1, <2>2, <3>1, <3>2 DEF Works, Pending, ReadOnlyAtMost, setting
  <2>8. Proceeds(c)'
    BY <1>1, <1>2, <2>2, SettingKeepsScripts DEF Proceeds
  <2>9. Settles(c)'
    <3>1. changing(c) => last
      BY <1>13 DEF changing
    <3>2. readingEngine => done'[c] = 0
      BY <1>10
    <3> HIDE DEF last, here
    <3> QED BY <1>1, <1>10, <1>11, <2>2, <3>1, <3>2 DEF Settles, readingEngine, setting
  <2>10. CallFits(c)'
    BY <2>6, <2>7, <2>8, <2>9 DEF CallFits
  <2> QED BY <1>1, <1>8, <1>10, <1>13, <2>1, <2>10, StepOfOneCall DEF TypeOK
<1> QED BY <1>3, <1>12, <1>13 DEF Proceed

----------------------------------------------------------------------------
LEMMA NextKeepsIInv == IInv /\ [Next]_vars => IInv'
<1> SUFFICES ASSUME IInv, [Next]_vars PROVE IInv'
  OBVIOUS
<1>1. CASE Shutdown
  BY <1>1, ShutdownKeepsIInv
<1>2. ASSUME NEW c \in Call,
             \/ Connect(c) \/ PoolOpens(c) \/ PoolFails(c)
             \/ Checkout(c) \/ NoHandle(c)
             \/ Refuse(c) \/ Begin(c) \/ Accept(c) \/ Reject(c) \/ LoseConnection(c)
             \/ Undo(c) \/ Leave(c)
      PROVE  IInv'
  BY <1>2, ConnectKeepsIInv, PoolStepKeepsIInv, CheckoutKeepsIInv, NoHandleKeepsIInv,
     RefuseOrRejectKeepsIInv, BeginKeepsIInv, AcceptKeepsIInv, LoseConnectionKeepsIInv,
     UndoKeepsIInv, LeaveKeepsIInv
<1>3. CASE UNCHANGED vars
  <2>1. UNCHANGED setting
    BY <1>3 DEF vars, setting
  <2>2. TypeOK' /\ EachHasOneHolder' /\ IdleSessionsAreClean' /\ IdleMayBePending'
    BY <1>3, <2>1, SettingKeepsScripts
       DEF vars, IInv, TypeOK, EachHasOneHolder, IdleSessionsAreClean, IdleMayBePending,
           Pending, ReadOnlyAtMost
  <2>3. \A c \in Call : CallFits(c)'
    BY <1>3, <2>1, OthersFit DEF vars, IInv
  <2> QED BY <2>2, <2>3 DEF IInv
<1> QED BY <1>1, <1>2, <1>3 DEF Next

THEOREM Invariance == Spec => []IInv
BY InitEstablishesIInv, NextKeepsIInv, PTL DEF Spec

\* Every variable stays within its type: no call runs past the end of its
\* script, and nothing is made durable twice.
THEOREM TypeCorrect == Spec => []TypeOK
<1>1. IInv => TypeOK
  BY DEF IInv
<1> QED BY <1>1, Invariance, PTL

\* A session goes back to its pool with no change that waits for a commit, with
\* no transaction but a READ ONLY one whose ROLLBACK failed, and from oracle.ts
\* with no deadline of the call before.
THEOREM IdleIsClean == Spec => []IdleSessionsAreClean
<1>1. IInv => IdleSessionsAreClean
  BY DEF IInv
<1> QED BY <1>1, Invariance, PTL

\* What a call reports is what became durable, unless its connection was lost.
THEOREM CallsAreAllOrNothing == Spec => []AllOrNothing
<1>1. IInv => AllOrNothing
  BY DEF IInv, CallFits, Settles, AllOrNothing
<1> QED BY <1>1, Invariance, PTL

\* Nothing that goes through these drivers becomes durable, whatever the policy
\* lets through and whatever fails on the way.
THEOREM ReadersLeaveNoTrace == Spec => []ReadsLeaveNoTrace
<1>1. IInv => ReadsLeaveNoTrace
  BY DEF IInv, CallFits, Settles, ReadsLeaveNoTrace
<1> QED BY <1>1, Invariance, PTL

----------------------------------------------------------------------------
LEMMA NextKeepsOnePool == TypeOK /\ OnePool /\ [Next]_vars => OnePool'
<1> SUFFICES ASSUME TypeOK, OnePool, [Next]_vars PROVE OnePool'
  OBVIOUS
<1>1. None \notin Call
  BY NoneIsNothing
<1>2. ASSUME NEW c \in Call, Connect(c) PROVE OnePool'
  <2>1. CASE UNCHANGED <<promise, state>>
    BY <1>2, <2>1 DEF Connect, OnePool
  <2>2. CASE pool = None /\ promise = None /\ promise' = c
             /\ state' = [state EXCEPT ![c] = "creating"]
    <3>1. pool' = pool /\ shut' = shut
      BY <1>2 DEF Connect
    <3>2. state'[c] = "creating" /\ \A p \in Call \ {c} : state'[p] = state[p]
      BY <2>2 DEF TypeOK
    <3> QED BY <1>1, <2>2, <3>1, <3>2 DEF OnePool
  <2> QED BY <1>2, <2>1, <2>2 DEF Connect, EnsurePool
<1>3. ASSUME NEW p \in Call, PoolOpens(p) PROVE OnePool'
  <2>1. /\ state[p] = "creating" /\ pool' = p /\ promise' = promise /\ shut' = shut
        /\ state' = [state EXCEPT ![p] = "open"]
    BY <1>3 DEF PoolOpens
  <2>2. state'[p] = "open" /\ \A q \in Call \ {p} : state'[q] = state[q]
    BY <2>1 DEF TypeOK
  <2> QED BY <2>1, <2>2 DEF OnePool
<1>4. ASSUME NEW p \in Call, PoolFails(p) PROVE OnePool'
  <2>1. /\ state[p] = "creating" /\ pool' = pool /\ promise' = promise /\ shut' = shut
        /\ state' = [state EXCEPT ![p] = "failed"]
    BY <1>4 DEF PoolFails
  <2>2. state'[p] = "failed" /\ \A q \in Call \ {p} : state'[q] = state[q]
    BY <2>1 DEF TypeOK
  <2> QED BY <2>1, <2>2 DEF OnePool, TypeOK
<1>5. CASE Shutdown
  BY <1>5 DEF Shutdown, OnePool
<1>6. ASSUME UNCHANGED <<pool, promise, state, shut>> PROVE OnePool'
  BY <1>6 DEF OnePool
<1>7. ASSUME NEW c \in Call, Checkout(c) \/ NoHandle(c) \/ Refuse(c) \/ Begin(c) \/ Accept(c)
             \/ Reject(c) \/ LoseConnection(c) \/ Undo(c) \/ Leave(c)
      PROVE  UNCHANGED <<pool, promise, state, shut>>
  BY <1>7 DEF Checkout, NoHandle, Refuse, Begin, Accept, Reject, LoseConnection, Undo, Leave, pooling
<1>8. CASE UNCHANGED vars
  BY <1>6, <1>8 DEF vars
<1> QED BY <1>2, <1>3, <1>4, <1>5, <1>6, <1>7, <1>8 DEF Next

\* Whoever comes while a pool is being created waits for that one; and so the
\* shutdown finds every pool there is.
THEOREM NoPoolIsLost == Spec => []PoolsAreReachable
<1>1. Init => OnePool
  BY NoneIsNothing DEF Init, OnePool
<1>2. OnePool => PoolsAreReachable
  BY DEF OnePool, PoolsAreReachable
<1> QED BY <1>1, <1>2, NextKeepsOnePool, TypeCorrect, PTL DEF Spec
=============================================================================

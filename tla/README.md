# narai-primitives: a TLA+ verification project

`narai-primitives` is a toolkit for *connectors*: small programs, one per service (GitHub,
Jira, a database, ...), that an agent calls through a hub, behind a policy gate, with editor
hooks around them. This directory holds TLA+ models of the parts whose behaviour depends on
order, time, failure, or state shared by several actors, the TLC runs that check them, and
TLAPS proofs of what they check, liveness apart. `PROJECT.json` lists the components, the runs,
the source lines each definition stands for, the hazards, and the disagreements between code
and documentation that were met on the way.

Paths below are relative to the repository root, which is `src/` beside this directory.

## 1. Inventory

### 1.1 The parts and how they interact

```
 agent ── hooks (plugin-hooks/dispatcher.mjs ─ memo.mjs) ── shell command
   │
   └─ hub: gather() ─ planner ─ dispatchPlan() ── one child process per step
                                                    │  JSON envelope on stdout
                                  connector main() ─┘
                                        │
                    createConnector().fetch: classify → policy gate → audit
                                        │            → lazy SDK + credentials → handler
                         ┌──────────────┴───────────────┐
                   HttpClient (service connectors)   db: runOnEnv → registry, pools,
                                                         grants, SQL policy → driver
```

| Component | State | Operations | What is hard | What makes it correct |
|---|---|---|---|---|
| Policy configuration, gate (`src/toolkit/policy/`) | none (pure) | discover, merge, validate, `checkPolicy` | two files merged before validation, defaults after it | what runs is what the files say; admin never runs |
| Approval engine (`policy/approval.ts`) | session flag, grants | `approveSession`, `addGrant` | private to `createConnector`: nobody reaches it | see above (both flags are false in `fetch`) |
| Connector pipeline (`toolkit/connector.ts`) | `sdkPromise`, `credsPromise`, `lastCtx` | `fetch`, `recordResolution` | concurrent calls share lazy promises; a dozen early returns, each with its own audit duty | no secret before an approval, loads once, audit agrees with answer, every call answered |
| HTTP client (`toolkit/http_client.ts`) | request time stamps | `request` | concurrent requests asleep in one throttle; four kinds of retry; timers | the window's limit, retries to the last attempt, termination |
| Hub dispatch (`hub/dispatch.ts`) | results, `liveChildren`, timers | `dispatchPlan`, `runStep`, teardown | timeout, exit, abort, flood and parent exit race for one step | one answer per step, no orphan left unsignalled, all steps answered |
| Hub gather, planner (`hub/index.ts`, `plan.ts`) | none | `gather`, `validatePlan` | connectors that cannot be prepared; a planner that fails; invalid entries dropped, results renumbered | a result belongs to its step; every call returns |
| Ask memo (`plugin-hooks/memo.mjs`) | directories of JSON files | two hooks, `clear`, `list` | every call is a process, no lock; HEAD moves; time | an unprompted push is backed by a fresh approval for what was looked up; the name of a protected branch is always asked about |
| Hook dispatcher (`plugin-hooks/dispatcher.mjs`, `plugins/*/hooks/hooks.json`) | the plugins' data directories: `package.json`, `node_modules` | gates, bootstrap | several gates, one memo; plugins link to each other's packages; no lock; npm fails, processes are killed | hooks that could be run can be run again; strictest gate wins |
| DB dispatcher (`connectors/db/dispatcher.ts`, `lib/connection.ts`, `lib/environments.ts`) | environment registry, pools | `query`, `schema`, `shutdownAll` | process-wide tables under concurrent calls; cleared by each call | connections come back, registry empty at rest, only permitted statements sent |
| DB grant store (`lib/grant-store.ts`) | one JSON file per alias | `get`, `set` | read-modify-write without a lock, by several processes | what is sent is covered by an approval (for which server: section 5) |
| DB SQL policy (`lib/policy.ts`) | none that outlives a call | `checkQuery` | tokenizing per dialect; compound statements | the strictest statement decides |
| Hardship log (`toolkit/hardship/`) | JSONL files, curation mark | `record`, `curate` | entries written while curated | no entry curated twice or never |
| Audit writer (`toolkit/audit/`) | a JSONL file | `logEvent` | best-effort | — |
| Configuration, credentials (`src/config`, `src/credentials`) | provider registry | resolve | layered environments; external stores | precedence |
| Session hooks (`usage-record`, `session-summary`, `stale-summarize`) | counters | append, summarise | — | — |
| Service connectors (`src/connectors/*`) | one client each | 8 tables of actions, each a class and a handler of one or more requests; page-by-page listings | retried writes; a 2xx that did nothing; handlers of several requests that fail halfway; lists that change between pages | effects stay within what the rules permit; success means done; no item missed without a word |
| DB drivers (`connectors/db/lib/drivers/`) | `_pool`, `_poolPromise`; sessions on the server | connect, `executeReadAsync`, `getSchemaAsync`, `healthCheck`, shutdown, for 7 engines | racing first connects; any statement may fail, the ROLLBACK too; sessions are reused | sessions go back without changes; a change is whole or not there; reads leave no trace |
| Agent resolver, guardrail, extraction, attachments | none | — | string and format work | — |

`docs/architecture-invariants.md` names four invariants of the repository; the ones about
the gate coming before secrets and drivers are those this project has properties for.

### 1.2 What is modelled

Modelled: policy gate and configuration, hub dispatch. Partly: hub gather, connector pipeline,
approval engine, HTTP client, service connectors, ask memo, hook dispatcher (its bootstrap), DB
dispatcher, drivers, grant store and policy, and, as far as the pipeline shows it, the audit
writer, credentials and hardship log. The notes in `PROJECT.json` say what is left out of each.
Not modelled: see section 6.

## 2. The modules

| Module | Models | Composes |
|---|---|---|
| `PolicyGate` | `policy/config.ts`, `policy/gate.ts`, as operators | |
| `Connector` | `toolkit/connector.ts` | EXTENDS `PolicyGate` |
| `AskMemo` | `plugin-hooks/memo.mjs` | |
| `PluginBootstrap` | the bootstrap in `plugin-hooks/dispatcher.mjs` and `hooks.json` | |
| `StepResults` | what `dispatchPlan` promises, abstractly | |
| `HubDispatch` | `hub/dispatch.ts` | INSTANCE `StepResults` (refinement) |
| `HubGather` | `hub/index.ts`, `validatePlan` | EXTENDS `HubDispatch` |
| `HttpClient` | `toolkit/http_client.ts` | |
| `ServiceTerms` | the vocabulary of the actions: requests, scripts, classes | |
| `GithubActions`, `GitlabActions`, `AtlassianActions` (Jira, Confluence), `NotionLinearActions`, `CloudActions` (AWS, GCP) | the tables of actions of the service connectors and their clients' methods | EXTEND `ServiceTerms` |
| `ServiceCall` | one call of such an action, through gate and retries to the service | EXTENDS `PolicyGate`, `ServiceTerms` |
| `Listing` | `paginate` and `paginateGitlab` | |
| `DbAccess` | `connectors/db`: dispatcher, connection, environments, grants | |
| `DriverSession` | `connectors/db/lib/drivers/` | |
| `PolicyGateProofs` | lemmas about the gate's operators | EXTENDS `PolicyGate` |
| `ConnectorProofs`, `HttpClientProofs`, `DbAccessProofs`, `DriverSessionProofs` | theorems about the module they are named for | EXTEND it |
| `HubDispatchProofs` | theorems about `HubDispatch` and `HubGather` | EXTENDS `HubGather` |
| `ServiceCallProofs` | theorems about `ServiceCall` and `Listing` | EXTENDS both |
| `HookProofs` | theorems about `AskMemo` and `PluginBootstrap` | EXTENDS both |
| `MC*` | the instances TLC checks; `MCHooks` and `MCServiceCall` take several modules that share no state, one in each behaviour | EXTEND the above |

Conventions: JavaScript runs a function up to its next `await`, so an asynchronous function is
a chain of atomic actions cut at the awaits, with a program counter `pc` per call. Hook
processes are cut at each file access instead. Definitions whose comment begins "A bug:" are
the mutated forms named under `mutants` in `PROJECT.json`; no specification uses them.
Variables marked *history* record the past for a property and guard nothing.

### PolicyGate and Connector

`files` is the pair of YAML files found when the connector was built, `policy` what
`loadPolicyConfig` made of them (`Malformed` where it throws: every call is then answered
with an error). A file is a record of a `policy` section and a mode. Either may be `Unset`,
`Null` (the key is there with no value) or `Invalid`; a section's keys are `Unset`, a rule or
`Invalid`. `DeepMerge` lets whatever the later file mentions win, an empty value included, and
`ValidRules`, `ValidMode` turn an empty section or mode into the defaults (`config.ts:148`,
`:192`): a repository's file with an empty `policy:` takes back all the user's rules. An empty
*rule* (`read:` with no value) or an empty `aspects:` is not such a case: `validateRule` and
`validateRules` (155-172) throw at it, so it counts as `Invalid`.
`Fetch` is `fetch` up to its first await; `HookThrows`, `HookAnswers`, `Refuse` and `Approve`
are what comes of classification, gate and decision hook; `StartLoads` is part of `Approve`,
as `loadSdk` and `loadCreds` are called in the same turn; `Loaded`, `LoadFails`, `Return` follow
the two awaits. `SdkSettles` and `CredsSettle` are external. `rules` follows
`connector.ts:291`: a loaded configuration *replaces* `cfg.defaultPolicy`.
The approval engine is created inside `createConnector` and handed to nobody, so
`confirm_once` always escalates and `grant_required` always denies within `fetch`.

Left out: the CLI's `main`; `cfg.sdk()` throwing before it returns a promise; a throwing
`mapError`; hooks that *replace* the decision; resolution patterns. An envelope of the hook's
own is modelled, with any status (`HookAnswers`, and `hooked`, the history of it): it is
returned and audited as it is, after a policy event that says what the gate said. An audit write never fails the call in the code, and never fails in
the model.

### AskMemo

`pending[s, c]` and `grants[r]` are the two directories of files; the file name of a grant
holds gate and scope but not the session, which is why one session can overwrite another's.
A scope is the *text* of the command's refspec (`Ref`), or the name of the branch checked out:
`refs/heads/main` is another text for `main` (`Named`), and not one of the protected names.
`Gate → Lookup → Replay | Miss` is `memoHandleAsk` cut where it reads HEAD, reads the grant,
and writes back; `Confirm → Promote → SeeHead → Invalidate → Prune` is `memoHandlePostToolUse`;
`ClearGrants`, `ClearPending` are `clearGrants`. The prompt, git and the terminals are external.
The command itself runs after its hook has answered (`RunPush`, `RunSwitch`), and a bare push
then goes to whatever HEAD is: `Diverted` says that it was switched in between.
A hook takes its listing and removals of one directory as one step. Parsing of shell text
is abstracted to a command's target (`Target`); a compound command that both switches and
pushes, and the session and repo scope kinds, are not modelled.

### HubDispatch and StepResults

The parent's event loop handles one event at a time: `Pick` (a worker takes its next
step; an unprepared connector or a throwing spawn answers at once), `Timeout`, `Data`,
`SpawnError`, `ExitEvent`, `Grace`, `Abort`, `ParentExit`. `Die` is the child's. `killed`
is Node's `child.killed`, which means *a signal was sent*, not that the process ended.
Workers are counted, not named. What a child writes is reduced to what the parent has read
of it (`nothing`, `part`, `whole`, `flood`). The error of a child that could not be spawned
may arrive later in the model than in Node.
`StepResults` knows only result slots, abort and exit; the refinement mapping is the
identity on `results`, `aborted`, `exited`, with `None` for an empty slot.

### HubGather

`gather` before and after the dispatch: `Prepare` (configuration loaded or rejected, each
connector prepared or not), `Plan` (the planner throws, answers with no JSON, or with entries;
`validatePlan` keeps those that make a step), then HubDispatch's steps, and `Resolve`, which
numbers connectors' errors, dropped entries and steps in one list (`Places`: the places of the
entries of either sort, found by counting). An entry is TRUE if it makes
a step. A caller of `dispatchPlan` itself (`gathered = FALSE`) may give it a signal; `gather`
does not pass one on, so only there a dispatch is aborted. The planner is a language model
behind an SDK: it may answer anything, and is asked for one turn. Prompts and the look-up of
`SKILL.md` are left out.

### HttpClient

`Enter` and `Wake` are `_throttle` on both sides of its sleep and the start of the attempt,
`Answer` and `Expire` the two ends of an attempt, each with its retry decision. Time stamps
are kept as ages that stop growing at `Window`, so the state space is finite without a
clock bound. `sent` is the history, the ages of all fetches. The code filters the stamps that are
still in the window; as they are in order, these are the ones from `firstFresh` on, which is how
`Fresh` says it (the proofs show that it is the filtered list). The attempt's timer stays armed during a back-off in the code, to no effect.

`HttpTypeOK`, `HttpSpec`, `phase`, `tries`, `outcome` are named so that the module can share an
instance with `ServiceCall`.

### ServiceTerms, the tables of actions, ServiceCall

A client method is a *request*: what the caller's arguments can make it do (`create`, `change`,
`remove`, `merge`), whether it goes through the retry loop, whether a 2xx answer may still say
that nothing was done (GraphQL), whether the caller may reject what a 2xx answer holds. An action
is its class from the connector's table and the *script* of requests its handler makes. The
five modules of tables translate every action of the eight connectors, a client method to one
operator. What a handler does with an answer beyond looking for what its next step needs, URLs,
parameter schemas and the shape of envelopes are left out.
`ServiceCall` takes one call from the gate (`Approve`, `Refuse`) through its script: `Send` an
attempt, `Serve` (external: the service does it and says so, does it and is not understood,
refuses, fails before or after doing it), `Receive`/`Refused`/`Failed` the client's reading of the
answer, `GiveUpAttempt` its timer, after which the attempt may still be done (`StrayArrives`).
`Again` is the retry decision. Delays between attempts are `HttpClient`'s.

### Listing

`FetchPage` asks for one page by offset, appends it, and decides whether the listing is over;
`Add` and `Withdraw` are other users of the list. Items are named by their first place.

### DriverSession

One driver of one of seven engines, chosen at the start; `Drivers` says what tells them apart:
their statements in order, whether a session is held for a transaction, a statement or the
process, what becomes of a write the policy permits, whether a statement classified as a read
can hide a write. `EnsurePool`, `Connect`, `PoolOpens`, `PoolFails` are the connect path around
`_poolPromise`; `Checkout`, `Begin`, `Accept`, `Reject`, `LoseConnection`, `Undo`, `Leave` take a call
through its session; `Shutdown` comes once, at any time. A session is what the *server* knows of
it: transaction, uncommitted changes, READ ONLY, a deadline a call has set (`timed`). A ROLLBACK
(`Undone`) ends the transaction, or the connection is lost with it, or it fails, its error is
swallowed and the session is released as it is (`spoilt`). The last is left out for SQL Server,
whose server rejects a ROLLBACK only where no transaction is open. SQL text, `Table` objects, coercion of
results, and DynamoDB's paging are left out.

### DbAccess

A pool is named by the call that built it, a connection by the call it was opened for:
each call does either at most once. `Begin` is all of `runOnEnv` up to `getConnection`'s
first await: registration, issuance of the grant, the pre-connect gate. `Built` enters the
new pool into the table, whatever is there by then; `Connected` adds the connection to
`openConnections` of the pool *the call* holds, and runs the second gate; `Release`, part
of every way out after connecting, looks the pool up *by alias* and empties the registry.
`Shutdown` is `shutdownAll`, or a signal in a host that lives on. Grants live in files
shared with other processes (`GrantElsewhere`) and time (`Lapse`, which also stands for a
write of an older copy by another process). `GrantFile` is `grantStorePathFor`: several servers
may have one file. `approvals` is history: who approved what.
All calls find the same configuration file; the sqlite path shares nothing and is left
out; `healthCheck` gets and releases like a call does.

### PluginBootstrap

At a session's start the host runs, per plugin, a shell line (`Command`: `diff` the plugin's
`package.json` with the copy in its data directory, and if they differ copy it and run npm) and
the dispatcher *inside* the installed package (`Dispatch`, then `Find` = `findSiblingInstall`,
`Remove`, `Link`, or `Fallback` to npm). `stamp` is the version in the copied `package.json`,
`modules` the plugin's `node_modules`: absent, a link to a sibling's, or a tree, maybe
unfinished. `Found` follows links as the file system
does, along `Path`. npm is external: it takes any version
the range allows, replaces a link by a tree, fails before it changes anything, and may show a
version before its tree is whole. `Kill` ends a process between any two steps; `Update` and
`Publish` move the wanted and the newest version. Removal of a plugin is left out.
Any processes may be at work at once, on the same plugin or on different ones: neither the host
nor the code serializes them. `hurt` is the history of the plugins one of whose processes was
killed in an *exposed* step (after it removed the tree, or with npm at work) or whose dispatcher
fell back to an npm that brought nothing, `served` of those that have had a package.

## 3. The runs

All finish within two minutes on two workers. Sizes are distinct states.

| Run | States | Instance | Shows |
|---|---|---|---|
| `connector` | 495 k | 2 calls, 5 actions (read, bulk read, write, write with the floor aspect, admin), 6 × 8 files | what runs is what the files, read key by key, permit; admin never runs; no secret before an approval; loads shared and final; audit agrees with the answer; every call answered |
| `connector_floor` | – | the same | a file that says only `write: success` drops the connector's own `delete: escalate` |
| `hooks` | 1587 k | memo: 2 sessions, 2 branches, 1 protected, time to 3, 4 tool calls with the bare `git push`, or 3 with that and one of `refs/heads/main`; or bootstrap: 2 plugins, 2 processes at once, 2 versions | an unprompted push is backed; the first ask happens; protected branches are asked about; hooks that could be run can be run again; what is broken is tried again |
| `memo_denied` | – | the memo, bare push only | the record of a denied ask becomes a grant later |
| `bootstrap_circle` | – | the bootstrap | two plugins are linked to each other |
| `dispatch` | 765 k | 3 steps, 2 workers, 2 enabled connectors, 4 planner's answers; or a direct caller with a signal | implements `StepResults`; whole envelopes only; no unsignalled orphan; results belong to their steps; every call returns |
| `dispatch_kill` | – | 1 step | the SIGKILL timer is cleared in the turn that arms it |
| `db` | 2408 k | 3 calls, 3 servers, 2 grant files, 9 requests, 1 outside approval | connections come back unless their pool left the table; registry empty at rest; only permitted statements are sent |
| `db_shared` | – | the same | an approval for `a b` lets a read of `a_b` through |
| `services` | 210 k | every action of 8 connectors, every set of rules, 3 attempts; or a listing of up to 7 items, limits 1 to 6, pages of at most 3; or 2 requests, 2 per window of 3, 4 attempts | effects are permitted; success means done; one attempt is exact; every call returns; the first items once each, and what is not called truncated misses nothing; sequential requests keep the limit; giving up means attempts spent; termination |
| `services_notion` | – | the same | a plain write of Notion's removes a page |
| `drivers` | 1617 k | 7 engines, 2 calls of any kind, 1 shutdown | idle sessions hold no changes; changes are whole or not there; reads leave no trace; no pool beside another |

The runs marked – expect a violation: each states a sentence of the repository's own docs or
comments, quoted under `findings`, that the code does not keep. None of them is used as an
assumption elsewhere. `connector`, `dispatch` and `db`, and `hooks` for the memo, leave `TypeOK`
out: it is proved. `Listing`, `HttpClient` and `PluginBootstrap` call their types and
specifications `ListingTypeOK`, `ListingSpec` and so on, as they share a run or a module of
theorems with another component. Such a run picks the part at the start (`part`) and leaves
the others where they begin, and fairness is that of the part picked.

### Bounds, and why they are enough

* **connector**: two calls are what it takes for a load to be shared, half-failed, or failed
  before the second call begins; calls share nothing else. The files include every
  combination of an absent, malformed, invalid, floor-breaking, loosening and restricting
  file that the merge tells apart. The proofs remove the bound on calls, actions and files.
* **hooks**, memo: two sessions reach every overwrite of a grant's file; with one branch that may be
  pushed and one that may not, the detached head, and a text for the latter that is not its name,
  every scope `resolveScope` tells apart is there; a push that names a branch by its name takes
  the same paths with fewer scopes. (Both pushes together with 4 calls are 4.6 million states, and
  TLC finds nothing else in them.) Times 1 < 2 < 3
  for the pending TTL, idle and absolute limits let each expire without and with the others.
  `MaxCalls` = 4 fits ask, switch away and back, and replay; 3 fit ask, something else, and replay.
* **dispatch**: the third of three steps on two workers is the one that waits, which is what
  abort, parent exit and the release of a worker act on. The planner's answers are none, one
  that is no step, three steps, and three steps with entries that are none before and among them;
  one or both connectors may fail to be prepared, so both offsets of the numbering are there.
  Bootstrap: two plugins make a link and a circle, two processes every pair of steps, of one
  plugin or of two; two versions make one wanted and one newer. The proofs remove the bounds.
* **services**, http: two requests asleep at once; a window of 3 holds attempt, back-off and timeout in
  each order; four attempts outlast a window of two.
* **services**, calls: they share no state but the throttle, so one call of each action is enough.
  Three attempts give a first, a middle and a last one.
* **services**, listing: the list spans three pages, limits lie below, at, between and above whole
  pages.
* **db**: two racing first calls and a third that finds what they left; the second
  server shares the first's grant file, the third has its own; each is there to be registered and
  cleared by calls for the others.
* **drivers**: two calls are what it takes to race the pool and to inherit a session; scripts are
  as long as the code's.

`CHECK_DEADLOCK FALSE` is set where every call is made once and the system so comes to rest,
and where the bootstrap's starts may find nothing to do. Only model values that are
interchangeable are declared symmetric, and only in runs without liveness.

### Fairness

* `Connector`: weak fairness of each call's continuation (the event loop runs what is
  ready), and of the two loaders and the handlers, which the toolkit puts no timeout on:
  that they settle is an assumption about the connector's author.
* `HubGather`: weak fairness of gather's continuations, of workers and of timers. A child owes
  nobody anything; only one that was sent SIGKILL is sure to die. The planner, which
  is asked for one turn, is assumed to answer or fail. `EveryCallReturns` rests on the
  timeout alone for the steps.
* `HttpClient`: time passes and timers fire. A server owes nothing.
* `ServiceCall`: the call's own continuations and the attempt's timer. The service owes nothing.
* `AskMemo`, `DbAccess`, `DriverSession`, `Listing`, `PluginBootstrap`: safety only. A prompt, a git
  command, a database or npm may take for ever, and no code bounds them.

## 4. The proofs

For every value of the constants that meets the ASSUMEs (which say what the constants are,
e.g. that files are records of known keys, never how the system behaves), TLAPS checks the
following. In each module `IInv` is the inductive invariant, with one step per action.

**PolicyGateProofs** has the lemmas the gate's users need: `CheckPolicy` takes the strictest of
the rules that apply, a permitted class permits each of its parts, merge and validation yield rules.

**ConnectorProofs**: `TypeOK`, `AdminNeverRuns`, `NoSecretBeforeApproval`, `LoadersRunOnce`,
`AuditTellsOutcome`, `HandlerIsPermitted`, `FailedLoadIsFinal`. The properties are not inductive: whether a handler
may run was decided two awaits earlier. `IInv` ties each call's program counter to
what it knows: `policy` is what the files load to; `Active(c)`: a call past the gate has a
registered action that the gate permitted; `LogFits(c)`: its audit events are those its
program counter implies; `LoadsFit`: the counters of loads agree with the promises' states.
`HandlerIsPermitted` then rests on lemmas about `DeepMerge`, `ValidatePolicyConfig` and
`CheckPolicy`, each proved for all files, that relate the merged rules to the files key by key.
`AuditTellsOutcome` excepts from its last clause the calls in `hooked`.
`FailedLoadIsFinal` follows from one more fact about a step: it leaves a failed load failed and
then brings nobody to a handler (`FailuresAreKept`).

**ServiceCallProofs**: `TypeOK` and `SuccessMeansDone` for any table of actions;
`EffectsArePermitted` if `EffectsAreDeclared` (an action's class covers its effects, but an update
may also remove), `OneAttemptIsExact` if `EffectsComeLast` (only a script's last request has
effects). TLC, asked, finds both TRUE of the real table, Notion's two updates included.
`IInv`: `Permitted`, nothing was sent unless the gate said so; `Passed`, requests behind `step`
that were to do something have done it. `Counted` bounds what was done or may still be done by
the attempts made, strictly as long as one is known to have failed without effect.
Of `Listing`: `ListingTypeOK`, `AnswerIsThePrefix`, `UntruncatedIsWhole`, for lists, limits and
pages of any size. `LInv` says what makes reading by places work while others add in front: the
pages read were full (`PagesWereFull`), what was there at the beginning is the older end of the
list (`OriginalIsOlder`), and an item pushed back onto a page already read had been read before
(`NoneIsMissed`). Once an item was withdrawn none of this holds, and nothing is claimed.

**HubDispatchProofs**: `TypeOK`, `ParentExitSparesNone`, `EnvelopeIsWhole`, the refinement
`StepResultsAreImplemented`, and `GatherOnlyDispatches` (gather's behaviours are dispatch's, so
the others hold under gather). `IInv` adds: `Untaken`, steps beyond `next` are untouched;
`WaitingIsUnharmed`, the child of a waiting step is registered and was sent nothing;
`AnsweredIsHandled`, that of an answered one, if it runs, was signalled; `GraceIsLate`; `AbortAnswersAll`. The refinement needs
`FewWait` besides: at most `Concurrency` of the steps taken are unanswered.
`ResultsAreTheirSteps` of `HubGather` is proved for plans of any length from `GInv`: the list that
was returned is that of a planner that failed (`Unplanned`) or consists of the errors of
connectors, the dropped entries and the results of the steps (`Answered`). Its lemmas count:
the entries of either sort before a place are as many as the places listed before it.

**HookProofs**, of `AskMemo`: `TypeOK`, `ProtectedIsAsked`, `FirstAskHappens`, `ReplayIsBacked`. `IInv` ties
each call's stage to the command and scope it holds (`CallFits`) and to the approval given
(`CallIsApproved`, `GrantsAreApproved`); `ScopesFit`, that the scope of a push names what will be
pushed until HEAD moves. `ReplayIsBacked` takes one more invariant, `BInv`: a grant's
file says what its session still has standing (`GrantsAreBacked`), a process about to replay has
read just that, in time (`ReplayHasRead`), and a `clear` that no hook disturbed has left no grant
(`ClearIsThorough`).

Of `PluginBootstrap`, for any finite set of plugins, any number of processes beside each other and
any versions: `BootstrapTypeOK`, `ServedStaysServed`, `BrokenIsRetried`. `BootInv` says that whatever
is out of order has a process at work on it or was hurt: an unfinished tree is being unpacked, a
removed one being replaced, a plugin that never had a package but the copy of its `package.json`
being installed; and that whoever is linked to was served. A path through links that is not a
circle ends, by the pigeonhole principle, at a plugin without a link, and for that one the
invariant speaks.

**HttpClientProofs**: `TypeOK`; `GivesUpExhausted`, from `HInv`: wherever a request is about to
attempt there is an attempt left, and one that returned a retriable failure has spent them all;
and `SequentialRateIsLimited`, for every window and limit. `RInv` joins two facts. The throttle
forgets nothing that counts: its stamps are the end of the log, and whatever of the log they lack
has left the window (`EndsTheLog`). And while requests were never made at once, one of them
that sleeps does so until the oldest of a full row of stamps leaves the window (`OneAtATime`).

**DbAccessProofs**: `TypeOK`, `HandlesComeBack`, `RegistryIsEmptyAtRest`, `RunsAsPermitted`, the
last for any mapping of servers to grant files, with an approval for any server of the same file.
`IInv` says, for a call in each place, what
pool it has and in which `openConnections` its connection is; without the clause that a
held connection of a running call is noted in *its* pool, `Return` could lose it.

**DriverSessionProofs**: `TypeOK`, `IdleSessionsAreClean`, `AllOrNothing`, `ReadsLeaveNoTrace`,
`PoolsAreReachable`, for all engines and any number of calls and sessions. `IInv` reads off an
engine's script and a call's place in it what its session must be like: which transaction is
open and with which changes (`Works`), when a session is held (`Holds`), by one call only
(`EachHasOneHolder`), and that nothing is durable before the call ends (`Proceeds`, `Settles`).
What a failed ROLLBACK leaves is `Pending`: a transaction without changes, READ ONLY
(`ReadOnlyAtMost`), on a session that `IdleMayBePending`.
`OnePool` relates the driver's `_pool` and `_poolPromise` to the pools there are.

So every safety property of the runs that pass is proved; two of `ServiceCall`'s under the
conditions on its table, of which TLC finds the one the run uses to be TRUE. What TLC alone
checks are the violated properties and the liveness properties
(`EveryCallIsAnswered`, `EveryRequestReturns`, and `EveryCallReturns` of `HubGather` and
of `ServiceCall`), which need reasoning about ENABLED. The library's induction theorems are of no
use to these provers; where a proof counts or follows a path, it takes the least counterexample
instead (`WFMin`).

## 5. What came out

Most of what the code's comments and docs promise holds. What does not:

**Shown by a run** (quoted under `findings`): `connector_floor`, `memo_denied`,
`bootstrap_circle`, `dispatch_kill`, `db_shared`, `services_notion`.

**Excepted by name in a property that holds** (also under `findings`; without the exception TLC
finds the history at once):

* `ReplayIsBacked`, `Diverted`: an approved bare push has left a grant for the branch; the next one
  is looked up (`Gate`, `Lookup`) and let through (`Replay`), HEAD is switched in another terminal
  (`SwitchUnseen`), and git pushes the other branch unprompted. `memo.mjs:27-28` says that an
  unobserved switch can never fire a stale grant.
* `ReplayIsBacked`, a `clear` while a hook is at work: a hook that has read a grant writes it back
  after `clear` removed it. `standing` keeps the approval in that case.
* `ProtectedIsAsked`: `git push origin refs/heads/main` is not one of the protected names
  (`memo.mjs:353` compares text), so it is asked about once and then goes unprompted; and a bare
  push does when HEAD is switched to `main` under it.
* `BrokenIsRetried`, `ServedStaysServed`, `hurt`: a process killed between `rmSync` and `symlinkSync`,
  or with npm at work, and a dispatcher whose npm fails, leave a plugin without a package and
  perhaps with a copied `package.json` that says all is well: `diff` finds nothing to do and
  there is no dispatcher to run, at any later start. `plugins/aws-connector/README.md:20-21`
  promises another try.
* `ServedStaysServed`, `Circular`: see `bootstrap_circle`. p2's dispatcher has read its version
  while npm was unpacking p2's tree; npm ends, p1's dispatcher links p1 to p2; p2's
  dispatcher now looks at its siblings and finds the wanted version at p1, which is its own tree
  seen through p1's link. It removes that tree and links p2 to p1.
* `EffectsArePermitted`: updates that may remove, of which Notion's `update_page` and
  `update_block` are the only ones (`services_notion`).

**Shown by TLC on the same models**, by adding the named definition to a run's configuration:

* `ChildrenAreBounded` (`HubDispatch`): a worker goes on when its step is *answered*, so more
  children than `concurrency` may run.
* `RateIsLimited` (`HttpClient`): requests asleep in the throttle together wake together and
  overrun the window.
* `RefusedOpensNothing` (`DbAccess`): `dispatcher.ts:704` says that a refused query opens no
  connection, but the pre-connect gate looks at the rules only; a read refused by the
  approval mode or the bounds is refused after connecting.
* `ExceedingIsTruncated` (`Listing`): a test's name (`tests/connectors/github/unit/actions_workflows.test.ts:144`)
  says "sets truncated=true when results exceed max_results"; a short last page is looked at first.

**Met while modelling the policy files**: an empty `policy:` or `approval_mode:` in the repository's
file takes back what the user's file says, down to the defaults, under which reads are permitted
(`config.ts:92-98`, `:148`, `:192`). `HandlerIsPermitted` says so in `Latest` and `EffectiveMode`.

**Met while modelling the bootstrap**: `wantVersion` is the *least* version of the range `^2.1.3`
while npm installs the newest (2.7.0 now), so the check that is to skip the install
(`dispatcher.mjs:560-577`) does not match and every session's start runs npm for each plugin,
against `dispatcher.mjs:150` ("Used to skip redundant npm install"). The shell line has
installed before the dispatcher can be found at all, so "confirm only one `npm install` runs"
(`docs/superpowers/specs/2026-05-10-connector-runtime-and-builder-design.md:346`) cannot come
true. A linked plugin
follows its sibling's version until its next start.

**Met while modelling drivers and connectors**: `connection.ts:322` says that `_buildPoolAsync` is
"only invoked on the first getConnection()", but racing first calls invoke it once each, which is
why `HandlesComeBack` has its exception. A shutdown that overtakes a pool's creation leaves that
pool to be the driver's, with nobody to end it (`PoolsAreReachable` holds until the
shutdown), and a rejected `_poolPromise` is kept until then. `oracle.ts:12-14` promises a
"defensive ROLLBACK followed by SET TRANSACTION READ ONLY" that `executeReadAsync` does not send.
Writes the policy permits go through `executeReadAsync`, which wraps them in a SELECT on
PostgreSQL, MySQL and Oracle, where they always fail. The deadlines PostgreSQL
(`postgresql.ts:255-257`), MySQL (`mysql.ts:168-170`) and SQL Server set, and MySQL's READ ONLY, stay on
the pooled session. Queries set them again; introspection and the health check do not, and run
under the last caller's. A ROLLBACK that fails on a living connection is swallowed, and the
session goes back with its READ ONLY transaction open. The merge actions of
GitHub and GitLab are `admin` and so can never run. A dispatched step's number is not its place in the plan
when connectors or entries failed before it. DynamoDB's driver ignores `LastEvaluatedKey`,
Confluence looks for an attachment among the first 500, Jira's search never says it is truncated.

## 6. Not modelled, and the plan

* **Configuration resolution**: layered YAML merged once into one value before anything runs;
  `PolicyGate` has the policy's share. **Credential resolution**: providers over external stores;
  the pipeline's use of it is in `Connector`.
* **Session telemetry hooks, audit writer**: best-effort appends to files, whose failures the
  callers ignore.
* **Agent resolver, guardrails, extraction, attachments**, SQL tokenizing, shell parsing, globs:
  string and format work without order or state. The requests of Notion's and others' attachment
  actions are in the tables.
* **Hook dispatcher's gates**: run in order, the strictest verdict wins (one sort); hazard
  `dispatcher.mjs:388` (a standing grant for the first asking gate silences the second) waits
  for them.
* **Approval engine**: `approveSession` and `addGrant` have no caller within the toolkit.
* **The planner**: a language model behind an SDK.

Planned, in this order:

1. **Hardship log** (`HardshipLog`): records appended by several processes while curation reads
   and moves its mark; `lastCtx` (hazard `connector.ts:507`).
2. **Hook gates** composed with an abstract memo.
3. **DbAccess over DriverSession**: the handles of the one as the pools and sessions of the other;
   calls that name different configuration files and share an alias.
4. **Approval engine** with its clock, as the abstract promise that `AskMemo`'s grants
   and the DB connector's grants should implement.
5. Proofs: that `DbAccess`'s handles are sessions of `DriverSession` (with 3), and that
   requests through one client that overlap exceed the limit by no more than those asleep.

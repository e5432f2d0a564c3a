----------------------------- MODULE Connector ------------------------------
(***************************************************************************)
(* One connector built by createConnector (src/toolkit/connector.ts) and   *)
(* the fetch calls that run in it.  JavaScript runs a call up to its next  *)
(* await, so a call is a sequence of atomic steps cut at the awaits:       *)
(*   Fetch     argument and parameter checks                               *)
(*   Classify  classify (possibly awaited), the policy gate, the hook, and *)
(*             for an approved call the start of the lazy loads            *)
(*   Loaded    the SDK and the credentials are there: the handler starts   *)
(*   Return    the handler has settled                                     *)
(* Calls share the two memoised promises (sdk, creds) and lastCtx.  The    *)
(* approval engine is created by createConnector and handed to nobody, so  *)
(* in here no session is ever approved and no grant is ever added.         *)
(***************************************************************************)
EXTENDS PolicyGate, Sequences

CONSTANTS
  Call,          \* the fetch calls, each made once
  Action,        \* the registered actions
  Unknown,       \* an action name that is not registered
  ActionClass,   \* how each action is classified
  DefaultRules,  \* the connector's defaultPolicy
  UserFiles,     \* the user-level configurations considered
  RepoFiles,     \* the repository-level configurations considered
  None

ASSUME ActionsAreTyped == /\ Unknown \notin Action
                          /\ ActionClass \in [Action -> Classification]
ASSUME DefaultsAreTyped == DefaultRules \in Rules
ASSUME FilesAreTyped == UserFiles \cup RepoFiles \subseteq ConfigFile \cup {NoFile, Malformed}
ASSUME NoneIsNoCall == None \notin Call \cup Action

VARIABLES
  files,      \* <<user file, repo file>> found when the connector was built
  policy,     \* what loadPolicyConfig made of them
  pc,         \* where each call is
  action,     \* the action each call asked for
  result,     \* the status of the envelope each call returned
  log,        \* the audit events each call wrote, in order
  sdk,        \* the state of sdkPromise
  creds,      \* the state of credsPromise
  loads,      \* how often cfg.sdk() and cfg.credentials() were called
  hooked,     \* history: the calls answered by the connector's own hook
  lastCtx,    \* the call whose context recordResolution would use
  hardships   \* the entries given to the hardship recorder

vars == <<files, policy, pc, action, result, log, sdk, creds, loads, hooked, lastCtx,
          hardships>>
config == <<files, policy>>
loaders == <<sdk, creds, loads>>

Status == {"success", "denied", "escalate", "error", "extended"}
LoadState == {"unloaded", "pending", "ready", "failed"}
PolicyEvent(d) == <<"policy", d>>
ActionEvent(s) == <<"action", s>>
Event == {PolicyEvent(d) : d \in Rule} \cup {ActionEvent(s) : s \in Status}
Hardship == [call : Call, kind : {"validation", "error", "resolution"}, about : Call \cup {None}]

TypeOK ==
  /\ files \in (UserFiles \X RepoFiles)
  /\ policy \in LoadedPolicy \cup {Malformed, NoConfig}
  /\ pc \in [Call -> {"idle", "classify", "load", "handle", "done"}]
  /\ action \in [Call -> Action \cup {Unknown, None}]
  /\ result \in [Call -> Status \cup {None}]
  /\ log \in [Call -> Seq(Event)]
  /\ sdk \in LoadState
  /\ creds \in LoadState
  /\ loads \in [sdk : Nat, creds : Nat]
  /\ hooked \subseteq Call
  /\ lastCtx \in Call \cup {None}
  /\ hardships \subseteq Hardship

----------------------------------------------------------------------------
rules == IF policy = NoConfig THEN DefaultRules ELSE policy.rules
approvalMode == IF policy = NoConfig THEN "auto" ELSE policy.mode

Init ==
  /\ files \in (UserFiles \X RepoFiles)
  /\ policy = LoadPolicyConfig(files[1], files[2])
  /\ pc = [c \in Call |-> "idle"]
  /\ action = [c \in Call |-> None]
  /\ result = [c \in Call |-> None]
  /\ log = [c \in Call |-> <<>>]
  /\ sdk = "unloaded"
  /\ creds = "unloaded"
  /\ loads = [sdk |-> 0, creds |-> 0]
  /\ hooked = {}
  /\ lastCtx = None
  /\ hardships = {}

\* A bug: an error path that forgets auditAction.
AnswerUnaudited(c, s, events) ==
  /\ pc' = [pc EXCEPT ![c] = "done"]
  /\ result' = [result EXCEPT ![c] = s]
  /\ log' = IF s = "error" THEN log ELSE [log EXCEPT ![c] = @ \o events]

\* The call returns an envelope with status s, writing the events first.
Answer(c, s, events) ==
  /\ pc' = [pc EXCEPT ![c] = "done"]
  /\ result' = [result EXCEPT ![c] = s]
  /\ log' = [log EXCEPT ![c] = @ \o events]

Record(c, kind, about) ==
  hardships' = hardships \cup {[call |-> c, kind |-> kind, about |-> about]}

\* Unknown actions, a broken policy file and invalid parameters are
\* answered at once; only the last is audited and recorded as a hardship.
Fetch(c, a, valid) ==
  /\ pc[c] = "idle"
  /\ action' = [action EXCEPT ![c] = a]
  /\ \/ /\ a \notin Action \/ policy = Malformed
        /\ Answer(c, "error", <<>>)
        /\ UNCHANGED hardships
     \/ /\ a \in Action /\ policy # Malformed /\ ~valid
        /\ Answer(c, "error", <<ActionEvent("error")>>)
        /\ Record(c, "validation", None)
     \/ /\ a \in Action /\ policy # Malformed /\ valid
        /\ pc' = [pc EXCEPT ![c] = "classify"]
        /\ UNCHANGED <<result, log, hardships>>
  /\ UNCHANGED <<config, loaders, hooked, lastCtx>>

\* A bug: every call loads for itself.
StartLoadsPerCall ==
  /\ sdk' = "pending"
  /\ creds' = "pending"
  /\ loads' = [sdk |-> loads.sdk + 1, creds |-> loads.creds + 1]

\* A bug, or a repair: a rejected promise is tried again by the next call.
StartLoadsRetrying ==
  /\ sdk' = IF sdk \in {"unloaded", "failed"} THEN "pending" ELSE sdk
  /\ creds' = IF creds \in {"unloaded", "failed"} THEN "pending" ELSE creds
  /\ UNCHANGED loads

\* loadSdk and loadCreds: the promise is created by the first call that
\* needs it and kept, whatever becomes of it.
StartLoads ==
  /\ sdk' = IF sdk = "unloaded" THEN "pending" ELSE sdk
  /\ creds' = IF creds = "unloaded" THEN "pending" ELSE creds
  /\ loads' = [sdk |-> IF sdk = "unloaded" THEN loads.sdk + 1 ELSE loads.sdk,
               creds |-> IF creds = "unloaded" THEN loads.creds + 1 ELSE loads.creds]

Decision(c) ==
  CheckPolicy(ActionClass[action[c]], rules, approvalMode, FALSE, FALSE)

\* classify() or extendDecision() threw: a CONFIG_ERROR envelope, no audit.
HookThrows(c) ==
  /\ pc[c] = "classify"
  /\ Answer(c, "error", <<>>)
  /\ UNCHANGED <<config, action, loaders, hooked, lastCtx, hardships>>

\* extendDecision() answered with an envelope of its own: the caller gets
\* it, and the audit its status, whatever the gate said.
HookAnswers(c) ==
  /\ pc[c] = "classify"
  /\ \E s \in Status :
       Answer(c, s, <<PolicyEvent(Decision(c)), ActionEvent(s)>>)
  /\ hooked' = hooked \cup {c}
  /\ UNCHANGED <<config, action, loaders, lastCtx, hardships>>

\* The gate refuses: denied or escalate.
Refuse(c) ==
  /\ pc[c] = "classify"
  /\ Decision(c) # "success"
  /\ Answer(c, Decision(c), <<PolicyEvent(Decision(c)), ActionEvent(Decision(c))>>)
  /\ UNCHANGED <<config, action, loaders, hooked, lastCtx, hardships>>

\* A bug: the loads are started for an escalated call as well.
ApproveEscalated(c) ==
  /\ pc[c] = "classify"
  /\ Decision(c) # "denied"
  /\ pc' = [pc EXCEPT ![c] = "load"]
  /\ log' = [log EXCEPT ![c] = Append(@, PolicyEvent(Decision(c)))]
  /\ StartLoads
  /\ UNCHANGED <<config, action, result, hooked, lastCtx, hardships>>

Approve(c) ==
  /\ pc[c] = "classify"
  /\ Decision(c) = "success"
  /\ pc' = [pc EXCEPT ![c] = "load"]
  /\ log' = [log EXCEPT ![c] = Append(@, PolicyEvent("success"))]
  /\ StartLoads
  /\ UNCHANGED <<config, action, result, hooked, lastCtx, hardships>>

\* cfg.sdk() and cfg.credentials() settle, one way or the other.
SdkSettles ==
  /\ sdk = "pending"
  /\ sdk' \in {"ready", "failed"}
  /\ UNCHANGED <<config, pc, action, result, log, creds, loads, hooked, lastCtx, hardships>>

CredsSettle ==
  /\ creds = "pending"
  /\ creds' \in {"ready", "failed"}
  /\ UNCHANGED <<config, pc, action, result, log, sdk, loads, hooked, lastCtx, hardships>>

\* Promise.all resolves: lastCtx is set and the handler starts.
Loaded(c) ==
  /\ pc[c] = "load"
  /\ sdk = "ready" /\ creds = "ready"
  /\ lastCtx' = c
  /\ pc' = [pc EXCEPT ![c] = "handle"]
  /\ UNCHANGED <<config, action, result, log, loaders, hooked, hardships>>

\* A bug: waiting for both promises to settle badly.
LoadFailsBoth(c) ==
  /\ pc[c] = "load"
  /\ sdk = "failed" /\ creds = "failed"
  /\ Answer(c, "error", <<ActionEvent("error")>>)
  /\ Record(c, "error", None)
  /\ UNCHANGED <<config, action, loaders, hooked, lastCtx>>

\* Promise.all rejects with the first rejection: mapAndBuildError, without
\* an SDK to take a scope from.
LoadFails(c) ==
  /\ pc[c] = "load"
  /\ sdk = "failed" \/ creds = "failed"
  /\ Answer(c, "error", <<ActionEvent("error")>>)
  /\ Record(c, "error", None)
  /\ UNCHANGED <<config, action, loaders, hooked, lastCtx>>

\* The handler returns data, or throws an EnvelopeOverride that replaces
\* the envelope, or throws anything else.
Return(c) ==
  /\ pc[c] = "handle"
  /\ \/ /\ \E s \in Status :
             Answer(c, s, <<ActionEvent(s)>>)
        /\ UNCHANGED hardships
     \/ /\ Answer(c, "error", <<ActionEvent("error")>>)
        /\ Record(c, "error", c)
  /\ UNCHANGED <<config, action, loaders, hooked, lastCtx>>

\* The caller of a finished call reports how it got around a problem; the
\* entry is about whatever call loaded last.
RecordResolution(c) ==
  /\ pc[c] = "done"
  /\ Record(c, "resolution", lastCtx)
  /\ UNCHANGED <<config, pc, action, result, log, loaders, hooked, lastCtx>>

Step(c) ==
  \/ HookThrows(c)
  \/ HookAnswers(c)
  \/ Refuse(c)
  \/ Approve(c)
  \/ Loaded(c)
  \/ LoadFails(c)
  \/ Return(c)

Next ==
  \/ \E c \in Call, a \in Action \cup {Unknown}, valid \in BOOLEAN : Fetch(c, a, valid)
  \/ \E c \in Call : Step(c)
  \/ \E c \in Call : RecordResolution(c)
  \/ SdkSettles
  \/ CredsSettle

\* The event loop runs every ready continuation, and the loaders and the
\* handlers are assumed to settle: the toolkit puts no timeout on them.
Fairness ==
  /\ \A c \in Call : WF_vars(Step(c))
  /\ WF_vars(SdkSettles)
  /\ WF_vars(CredsSettle)

Spec == Init /\ [][Next]_vars
FairSpec == Spec /\ Fairness

----------------------------------------------------------------------------
\* Properties.

Handling(c) == pc[c] = "handle"
Class(c) == ActionClass[action[c]]

\* What the operator's files say about a key, read off the files directly:
\* the repository's word, else the user's, else the default.  An empty
\* `policy:` or `approval_mode:` in the repository's file takes back what the
\* user's says.
PolicyOf(file) == IF file = NoFile THEN Unset ELSE file.policy
ModeOf(file) == IF file = NoFile THEN Unset ELSE file.mode
Says(file, key) == IF IsMapping(PolicyOf(file)) THEN PolicyOf(file)[key] ELSE Unset
SaysOf(file, a) == IF IsMapping(Says(file, "aspects")) THEN Says(file, "aspects")[a] ELSE Unset

Latest(user, repo) ==
  IF PolicyOf(files[2]) = Null THEN Unset ELSE Overlay(user, repo)

Effective(key) ==
  IF files = <<NoFile, NoFile>> THEN DefaultRules[key]
  ELSE Overlay(DefaultPolicy[key], Latest(Says(files[1], key), Says(files[2], key)))

EffectiveAspect(a) ==
  IF files = <<NoFile, NoFile>> THEN DefaultRules.aspects[a]
  ELSE Latest(SaysOf(files[1], a), SaysOf(files[2], a))

EffectiveMode ==
  LET mode == Overlay(ModeOf(files[1]), ModeOf(files[2]))
  IN  IF mode \in {Unset, Null} THEN "auto" ELSE mode

\* A handler runs only for an action whose kind the operator's files permit,
\* none of whose aspects they restrict, and, for a read, only in mode auto:
\* merging, validation, the strictest-rule gate and the pipeline together
\* never let a call through that the files, read one key at a time, do not.
HandlerIsPermitted ==
  \A c \in Call : Handling(c) =>
    /\ Effective(Class(c).kind) = "success"
    /\ \A a \in Class(c).aspects : EffectiveAspect(a) \in {"success", Unset}
    /\ Class(c).kind = "read" => EffectiveMode = "auto"

\* Whatever the files say, no handler of an admin action ever runs: the
\* safety floor of config.ts together with the gate.
AdminNeverRuns == \A c \in Call : Handling(c) => Class(c).kind # "admin"

\* The SDK and the credentials are touched only once some call has been
\* audited as approved ("Lazy credentials loading - only on first success
\* decision"): a connector that refuses everything never reads a secret.
NoSecretBeforeApproval ==
  sdk # "unloaded" \/ creds # "unloaded" =>
    \E c \in Call : log[c] # <<>> /\ log[c][1] = PolicyEvent("success")

\* The audit trail of a call that got past the gate tells its whole story:
\* one policy event, then one action event with the status the caller got;
\* and nobody but a caller the connector's own hook answered is told
\* "success" without the gate's approval.
AuditTellsOutcome ==
  \A c \in Call :
    pc[c] = "done" /\ (\E d \in Rule : PolicyEvent(d) \in {log[c][i] : i \in DOMAIN log[c]}) =>
      /\ Len(log[c]) = 2
      /\ log[c][1] \in {PolicyEvent(d) : d \in Rule}
      /\ log[c][2] = ActionEvent(result[c])
      /\ result[c] = "success" /\ c \notin hooked => log[c][1] = PolicyEvent("success")

\* Racing calls share one load: cfg.sdk() and cfg.credentials() are called at
\* most once in the life of the connector.
LoadersRunOnce == loads.sdk <= 1 /\ loads.creds <= 1

\* A rejected SDK or credentials promise is kept: from then on no call of
\* this connector gets to its handler, even if the cause has gone away; the
\* calls that were there already are not disturbed.
FailedLoadIsFinal ==
  \A c \in Call :
    []((sdk = "failed" \/ creds = "failed") /\ ~Handling(c) => []~Handling(c))

\* Every call gets an envelope: no mix of settled promises leaves it waiting.
EveryCallIsAnswered ==
  \A c \in Call : pc[c] # "idle" ~> pc[c] = "done"

\* "Aspects that cannot be downgraded to success in operator config": no
\* configuration file lets an action with a floor aspect run unasked.
FloorAspectNeverRuns ==
  \A c \in Call : Handling(c) => Class(c).aspects \cap FloorAspect = {}

=============================================================================

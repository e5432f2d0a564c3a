-------------------------- MODULE ConnectorProofs ---------------------------
(***************************************************************************)
(* Proofs about Connector, for every set of calls and actions, every       *)
(* classification, every defaultPolicy and every pair of files.            *)
(***************************************************************************)
EXTENDS Connector, PolicyGateProofs, SequenceTheorems, TLAPS

----------------------------------------------------------------------------
\* loadPolicyConfig yields a valid configuration, none, or an error, whichever
\* files are found.
LEMMA LoadIsTyped ==
  ASSUME NEW u \in UserFiles, NEW r \in RepoFiles
  PROVE  LoadPolicyConfig(u, r) \in LoadedPolicy \cup {Malformed, NoConfig}
<1>1. {u, r} \subseteq ConfigFile \cup {NoFile, Malformed}
  BY FilesAreTyped
<1>2. CASE u = NoFile /\ r = NoFile
  BY <1>2 DEF LoadPolicyConfig
<1>3. CASE ~(u = NoFile /\ r = NoFile) /\ (u = Malformed \/ r = Malformed)
  BY <1>3 DEF LoadPolicyConfig
<1>4. CASE ~(u = NoFile /\ r = NoFile) /\ ~(u = Malformed \/ r = Malformed)
  <2>1. Merged(u, r) \in ConfigFile
    BY <1>1, <1>4, MergeIsTyped DEF Merged
  <2>2. LoadPolicyConfig(u, r) = ValidatePolicyConfig(Merged(u, r))
    BY <1>4 DEF LoadPolicyConfig
  <2> QED BY <2>1, <2>2, ValidatedIsTyped
<1> QED BY <1>2, <1>3, <1>4

----------------------------------------------------------------------------
\* Steps.  A call is under way between its first and its last step.

Deciding(c) == pc[c] \in {"classify", "load", "handle"}

\* What is known of a call by where it is, and of its log.
Active(c) ==
  /\ Deciding(c) => action[c] \in Action /\ policy # Malformed
  /\ pc[c] \in {"load", "handle"} => Decision(c) = "success"

LogFits(c) ==
  /\ pc[c] \in {"idle", "classify"} => log[c] = <<>>
  /\ pc[c] \in {"load", "handle"} => log[c] = <<PolicyEvent("success")>>
  /\ pc[c] = "done" =>
       \/ log[c] = <<>>
       \/ log[c] = <<ActionEvent("error")>>
       \/ \E d \in Rule : /\ log[c] = <<PolicyEvent(d), ActionEvent(result[c])>>
                          /\ result[c] = "success" /\ c \notin hooked => d = "success"

\* A loader that has not been called has no promise.
LoadsFit ==
  /\ sdk = "unloaded" => loads.sdk = 0
  /\ creds = "unloaded" => loads.creds = 0
  /\ LoadersRunOnce

\* The inductive invariant.
IInv ==
  /\ TypeOK
  /\ policy = LoadPolicyConfig(files[1], files[2])
  /\ \A c \in Call : Active(c)
  /\ \A c \in Call : LogFits(c)
  /\ LoadsFit
  /\ NoSecretBeforeApproval

\* The rules in force are rules, and the gate's decision is one.
LEMMA DecisionIsTyped ==
  ASSUME TypeOK, NEW c \in Call, action[c] \in Action, policy # Malformed
  PROVE  /\ rules \in Rules
         /\ approvalMode \in ApprovalMode
         /\ Class(c) \in Classification
         /\ Decision(c) \in Rule
<1>1. rules \in Rules /\ approvalMode \in ApprovalMode
  BY DefaultsAreTyped DEF TypeOK, rules, approvalMode, LoadedPolicy, ApprovalMode
<1>2. ActionClass[action[c]] \in Classification
  BY ActionsAreTyped
<1> QED BY <1>1, <1>2, GateIsStrict DEF Decision, Class

\* A connector just created satisfies the invariant.
LEMMA InitEstablishesIInv == Init => IInv
<1> SUFFICES ASSUME Init PROVE IInv
  OBVIOUS
<1>1. TypeOK
  <2>1. policy \in LoadedPolicy \cup {Malformed, NoConfig}
    BY LoadIsTyped DEF Init
  <2> QED BY <2>1 DEF Init, TypeOK, LoadState, Status
<1>2. (\A c \in Call : Active(c)) /\ (\A c \in Call : LogFits(c))
  BY DEF Init, Active, LogFits, Deciding
<1>3. LoadsFit /\ NoSecretBeforeApproval
  BY DEF Init, LoadsFit, LoadersRunOnce, NoSecretBeforeApproval
<1> QED BY <1>1, <1>2, <1>3 DEF IInv, Init

\* The gate's part of a call's context does not change under it.
LEMMA DecisionIsKept ==
  ASSUME NEW c \in Call, UNCHANGED config, action'[c] = action[c]
  PROVE  Decision(c)' = Decision(c)
BY DEF config, Decision, rules, approvalMode

\* Logs have at most two events; this is how the second one is added.
LEMMA ShortLogs ==
  ASSUME NEW e \in Event, NEW f \in Event
  PROVE  /\ <<>> \o <<>> = <<>> /\ <<>> \o <<e>> = <<e>> /\ <<>> \o <<e, f>> = <<e, f>>
         /\ <<e>> \o <<f>> = <<e, f>>
         /\ Append(<<>>, e) = <<e>>
         /\ {<<>>, <<e>>, <<e, f>>} \subseteq Seq(Event)
<1>1. {<<>>, <<e>>, <<f>>, <<e, f>>} \subseteq Seq(Event)
  OBVIOUS
<1> DEFINE s == <<e>> \o <<f>>
<1>2. s \in Seq(Event) /\ Len(s) = 2 /\ s[1] = e /\ s[2] = f
  <2>1. /\ s \in Seq(Event)
        /\ Len(s) = Len(<<e>>) + Len(<<f>>)
        /\ \A i \in 1 .. Len(<<e>>) + Len(<<f>>) :
             s[i] = IF i <= Len(<<e>>) THEN <<e>>[i] ELSE <<f>>[i - Len(<<e>>)]
    BY <1>1, ConcatProperties
  <2>2. Len(<<e>>) = 1 /\ Len(<<f>>) = 1 /\ <<e>>[1] = e /\ <<f>>[1] = f
    OBVIOUS
  <2> HIDE DEF s
  <2>3. Len(s) = 2
    BY <2>1, <2>2
  <2>4. s[1] = e
    BY <2>1, <2>2
  <2>5. s[2] = <<f>>[1]
    BY <2>1, <2>2
  <2> QED BY <2>1, <2>2, <2>3, <2>4, <2>5
<1>3. s = <<e, f>>
  <2> HIDE DEF s
  <2>1. Len(<<e, f>>) = 2 /\ <<e, f>>[1] = e /\ <<e, f>>[2] = f
    OBVIOUS
  <2>2. \A i \in 1 .. Len(s) : s[i] = <<e, f>>[i]
    BY <1>2, <2>1
  <2> QED BY <1>1, <1>2, <2>1, <2>2, SeqEqual
<1> QED BY <1>1, <1>3

\* A step of one call keeps the invariant if it keeps that call's part of it,
\* does not take back an approval, and starts a load only with one.
LEMMA CallStepKeepsIInv ==
  ASSUME IInv, NEW c \in Call, UNCHANGED config, pc[c] # "done",
         \A d \in Call \ {c} : /\ pc'[d] = pc[d] /\ action'[d] = action[d]
                               /\ log'[d] = log[d] /\ result'[d] = result[d],
         hooked \subseteq hooked', TypeOK', Active(c)', LogFits(c)', LoadsFit',
         pc[c] \in {"load", "handle"} =>
           log'[c] # <<>> /\ log'[c][1] = PolicyEvent("success"),
         UNCHANGED <<sdk, creds>> \/ log'[c] = <<PolicyEvent("success")>>
  PROVE  IInv'
<1>1. policy' = LoadPolicyConfig(files'[1], files'[2])
  BY DEF IInv, config
<1>2. \A d \in Call : Active(d)'
  <2> TAKE d \in Call
  <2>1. CASE d # c
    BY <2>1, DecisionIsKept DEF IInv, Active, Deciding, config
  <2> QED BY <2>1
<1>3. \A d \in Call : LogFits(d)'
  <2> TAKE d \in Call
  <2>1. CASE d # c
    BY <2>1 DEF IInv, LogFits
  <2> QED BY <2>1
<1>4. NoSecretBeforeApproval'
  <2> DEFINE Approved(d) == log[d] # <<>> /\ log[d][1] = PolicyEvent("success")
  <2>1. CASE UNCHANGED <<sdk, creds>>
    <3> SUFFICES ASSUME sdk # "unloaded" \/ creds # "unloaded"
                 PROVE  \E d \in Call : Approved(d)'
      BY <2>1 DEF NoSecretBeforeApproval
    <3>1. PICK d \in Call : Approved(d)
      BY DEF IInv, NoSecretBeforeApproval
    <3>2. CASE d # c
      BY <3>1, <3>2
    <3>3. CASE d = c
      <4>1. pc[c] \in {"load", "handle"}
        BY <3>1, <3>3 DEF IInv, LogFits, TypeOK
      <4> QED BY <4>1
    <3> QED BY <3>2, <3>3
  <2>2. CASE log'[c] = <<PolicyEvent("success")>>
    <3>1. log'[c] # <<>> /\ log'[c][1] = PolicyEvent("success")
      BY <2>2
    <3> QED BY <3>1 DEF NoSecretBeforeApproval
  <2> QED BY <2>1, <2>2
<1> QED BY <1>1, <1>2, <1>3, <1>4 DEF IInv

\* A call that answers before its policy event, or with one or two events
\* after it, ends with a log that fits.
LEMMA AnswerKeepsIInv ==
  ASSUME IInv, NEW c \in Call, pc[c] # "done", UNCHANGED <<config, loaders>>,
         NEW s \in Status, NEW events,
         Answer(c, s, events),
         \A d \in Call \ {c} : action'[d] = action[d],
         action' \in [Call -> Action \cup {Unknown, None}],
         hooked \subseteq hooked', hooked' \subseteq Call,
         lastCtx' \in Call \cup {None}, hardships' \subseteq Hardship,
         \/ /\ pc[c] \in {"idle", "classify"}
            /\ \/ events = <<>>
               \/ events = <<ActionEvent("error")>>
               \/ \E d \in Rule : /\ events = <<PolicyEvent(d), ActionEvent(s)>>
                                  /\ s = "success" /\ c \notin hooked' => d = "success"
         \/ pc[c] \in {"load", "handle"} /\ events = <<ActionEvent(s)>>
  PROVE  IInv'
<1>1. /\ pc' = [pc EXCEPT ![c] = "done"] /\ result' = [result EXCEPT ![c] = s]
      /\ log' = [log EXCEPT ![c] = @ \o events]
  BY DEF Answer
<1>2. ActionEvent(s) \in Event /\ ActionEvent("error") \in Event
      /\ \A d \in Rule : PolicyEvent(d) \in Event
  BY DEF Event, Status
<1>3. "success" \in Rule
  BY DEF Rule
<1>4. \/ log'[c] = <<>>
      \/ log'[c] = <<ActionEvent("error")>>
      \/ \E d \in Rule : /\ log'[c] = <<PolicyEvent(d), ActionEvent(s)>>
                         /\ s = "success" /\ c \notin hooked' => d = "success"
  <2>1. CASE pc[c] \in {"idle", "classify"}
    <3>1. log[c] = <<>> /\ log'[c] = <<>> \o events
      BY <1>1, <2>1 DEF IInv, LogFits, TypeOK
    <3> QED BY <1>2, <2>1, <3>1, ShortLogs
  <2>2. CASE pc[c] \in {"load", "handle"}
    <3>1. log'[c] = <<PolicyEvent("success")>> \o <<ActionEvent(s)>>
      BY <1>1, <2>2 DEF IInv, LogFits, TypeOK
    <3> QED BY <1>2, <1>3, <3>1, ShortLogs
  <2> QED BY <2>1, <2>2
<1>5. pc[c] \in {"load", "handle"} => log'[c] = <<PolicyEvent("success"), ActionEvent(s)>>
  <2> SUFFICES ASSUME pc[c] \in {"load", "handle"}
               PROVE  log'[c] = <<PolicyEvent("success"), ActionEvent(s)>>
    OBVIOUS
  <2>1. log'[c] = <<PolicyEvent("success")>> \o <<ActionEvent(s)>>
    BY <1>1 DEF IInv, LogFits, TypeOK
  <2> QED BY <1>2, <1>3, <2>1, ShortLogs
<1>6. log'[c] \in Seq(Event)
  <2>1. \A e, f \in Event : {<<>>, <<e>>, <<e, f>>} \subseteq Seq(Event)
    BY ShortLogs
  <2>2. CASE log'[c] = <<>> \/ log'[c] = <<ActionEvent("error")>>
    BY <1>2, <2>1, <2>2
  <2>3. CASE \E d \in Rule : log'[c] = <<PolicyEvent(d), ActionEvent(s)>>
    <3>1. PICK d \in Rule : log'[c] = <<PolicyEvent(d), ActionEvent(s)>>
      BY <2>3
    <3>2. PolicyEvent(d) \in Event /\ ActionEvent(s) \in Event
      BY <1>2
    <3>3. <<PolicyEvent(d), ActionEvent(s)>> \in Seq(Event)
      BY <3>2
    <3> QED BY <3>1, <3>3
  <2> QED BY <1>4, <2>2, <2>3
<1>7. TypeOK'
  <2>1. log' \in [Call -> Seq(Event)]
    BY <1>1, <1>6 DEF IInv, TypeOK
  <2> QED BY <1>1, <2>1 DEF IInv, TypeOK, config, loaders
<1>8. pc'[c] = "done" /\ result'[c] = s
  BY <1>1 DEF IInv, TypeOK
<1>9. Active(c)' /\ LogFits(c)'
  BY <1>4, <1>8 DEF Active, Deciding, LogFits
<1>10. LoadsFit'
  BY DEF IInv, LoadsFit, LoadersRunOnce, loaders
<1>11. pc[c] \in {"load", "handle"} => log'[c] # <<>> /\ log'[c][1] = PolicyEvent("success")
  BY <1>5
<1>12. \A d \in Call \ {c} : pc'[d] = pc[d] /\ log'[d] = log[d] /\ result'[d] = result[d]
  BY <1>1 DEF IInv, TypeOK
<1>13. UNCHANGED config /\ UNCHANGED <<sdk, creds>>
  BY DEF loaders
<1> QED
  BY <1>7, <1>9, <1>10, <1>11, <1>12, <1>13, CallStepKeepsIInv

\* Every step of every call, and the loads' settling, keep the invariant.
LEMMA StepKeepsIInv ==
  ASSUME IInv, Next
  PROVE  IInv'
<1>1. ASSUME NEW c \in Call, NEW a \in Action \cup {Unknown}, NEW valid \in BOOLEAN,
             Fetch(c, a, valid)
      PROVE  IInv'
  <2>1. /\ action' \in [Call -> Action \cup {Unknown, None}]
        /\ action' = [action EXCEPT ![c] = a]
        /\ \A d \in Call \ {c} : action'[d] = action[d]
        /\ pc[c] = "idle" /\ lastCtx' \in Call \cup {None}
        /\ UNCHANGED <<config, loaders>>
        /\ hooked \subseteq hooked' /\ hooked' \subseteq Call
    BY <1>1 DEF Fetch, IInv, TypeOK
  <2>2. CASE Answer(c, "error", <<>>) /\ UNCHANGED hardships
    <3>1. hardships' \subseteq Hardship /\ "error" \in Status
      BY <2>2 DEF IInv, TypeOK, Status
    <3> QED BY <2>1, <2>2, <3>1, AnswerKeepsIInv
  <2>3. CASE Answer(c, "error", <<ActionEvent("error")>>) /\ Record(c, "validation", None)
    <3>1. hardships' \subseteq Hardship /\ "error" \in Status
      BY <2>3 DEF IInv, TypeOK, Status, Record, Hardship
    <3> QED BY <2>1, <2>3, <3>1, AnswerKeepsIInv
  <2>4. CASE /\ a \in Action /\ policy # Malformed
             /\ pc' = [pc EXCEPT ![c] = "classify"] /\ UNCHANGED <<result, log, hardships>>
    <3>1. TypeOK'
      BY <2>1, <2>4 DEF IInv, TypeOK, config, loaders
    <3>2. Active(c)' /\ LogFits(c)'
      BY <2>1, <2>4 DEF IInv, TypeOK, Active, Deciding, LogFits, config
    <3>3. LoadsFit'
      BY <2>1 DEF IInv, LoadsFit, LoadersRunOnce, loaders
    <3>4. UNCHANGED config /\ UNCHANGED <<sdk, creds>>
      BY <2>1 DEF loaders
    <3>5. \A d \in Call \ {c} : pc'[d] = pc[d] /\ log'[d] = log[d] /\ result'[d] = result[d]
      BY <2>4 DEF IInv, TypeOK
    <3> QED BY <2>1, <3>1, <3>2, <3>3, <3>4, <3>5, CallStepKeepsIInv
  <2> QED BY <1>1, <2>2, <2>3, <2>4 DEF Fetch
<1>2. ASSUME NEW c \in Call, Step(c)
      PROVE  IInv'
  <2>1. Deciding(c) /\ pc[c] # "done" /\ UNCHANGED action
    BY <1>2 DEF Step, HookThrows, HookAnswers, Refuse, Approve, Loaded, LoadFails, Return,
       Deciding
  <2>2. Decision(c) \in Rule /\ policy # Malformed /\ action[c] \in Action
    BY <2>1, DecisionIsTyped DEF IInv, Active
  <2>3. Decision(c) \in Status /\ {"error", "extended", "success"} \subseteq Status
    BY <2>2 DEF Status, Rule
  <2>4. action' \in [Call -> Action \cup {Unknown, None}]
    BY <2>1 DEF IInv, TypeOK
  <2>5. CASE HookThrows(c)
    <3>1. hardships' \subseteq Hardship /\ lastCtx' \in Call \cup {None}
          /\ UNCHANGED <<config, loaders>> /\ pc[c] = "classify" /\ Answer(c, "error", <<>>)
          /\ hooked \subseteq hooked' /\ hooked' \subseteq Call
      BY <2>5 DEF HookThrows, IInv, TypeOK
    <3> QED BY <2>1, <2>3, <2>4, <3>1, AnswerKeepsIInv
  <2>6. CASE HookAnswers(c)
    <3>1. hardships' \subseteq Hardship /\ lastCtx' \in Call \cup {None}
          /\ UNCHANGED <<config, loaders>> /\ pc[c] = "classify"
          /\ hooked \subseteq hooked' /\ hooked' \subseteq Call /\ c \in hooked'
      BY <2>6 DEF HookAnswers, IInv, TypeOK
    <3>2. PICK s \in Status : Answer(c, s, <<PolicyEvent(Decision(c)), ActionEvent(s)>>)
      BY <2>6 DEF HookAnswers
    <3> QED BY <2>1, <2>2, <2>4, <3>1, <3>2, AnswerKeepsIInv
  <2>7. CASE Refuse(c)
    <3>1. hardships' \subseteq Hardship /\ lastCtx' \in Call \cup {None}
          /\ UNCHANGED <<config, loaders>> /\ pc[c] = "classify" /\ Decision(c) # "success"
          /\ hooked \subseteq hooked' /\ hooked' \subseteq Call
          /\ Answer(c, Decision(c), <<PolicyEvent(Decision(c)), ActionEvent(Decision(c))>>)
      BY <2>7 DEF Refuse, IInv, TypeOK
    <3> QED BY <2>1, <2>2, <2>3, <2>4, <3>1, AnswerKeepsIInv
  <2>8. CASE Approve(c)
    <3>1. log[c] = <<>> /\ "success" \in Rule /\ PolicyEvent("success") \in Event
      BY <2>8 DEF Approve, IInv, LogFits, Event, Rule
    <3>2. log'[c] = <<PolicyEvent("success")>> /\ <<PolicyEvent("success")>> \in Seq(Event)
      BY <2>8, <3>1, ShortLogs DEF Approve, IInv, TypeOK
    <3>3. UNCHANGED config /\ pc[c] = "classify" /\ pc' = [pc EXCEPT ![c] = "load"]
          /\ log' = [log EXCEPT ![c] = log'[c]] /\ UNCHANGED <<result, hooked>>
      BY <2>8, <3>2 DEF Approve, IInv, TypeOK
    <3>4. /\ sdk' \in LoadState /\ creds' \in LoadState
          /\ loads' \in [sdk : Nat, creds : Nat] /\ LoadsFit'
      BY <2>8 DEF Approve, StartLoads, IInv, TypeOK, LoadState, LoadsFit, LoadersRunOnce
    <3>5. log' \in [Call -> Seq(Event)]
      <4>1. log \in [Call -> Seq(Event)] /\ log'[c] \in Seq(Event)
        BY <3>2, Zenon DEF IInv, TypeOK
      <4> QED BY <3>3, <4>1
    <3>6. TypeOK'
      BY <2>4, <2>8, <3>3, <3>4, <3>5 DEF Approve, IInv, TypeOK, config
    <3>7. Active(c)'
      BY <2>1, <2>2, <2>8, <3>3, DecisionIsKept DEF Approve, Active, config
    <3>8. LogFits(c)'
      BY <3>2, <3>3 DEF LogFits, IInv, TypeOK
    <3>9. \A d \in Call \ {c} : pc'[d] = pc[d] /\ log'[d] = log[d] /\ result'[d] = result[d]
      BY <3>3 DEF IInv, TypeOK
    <3> QED BY <2>1, <3>2, <3>3, <3>4, <3>6, <3>7, <3>8, <3>9, CallStepKeepsIInv
  <2>9. CASE Loaded(c)
    <3>1. UNCHANGED config /\ pc[c] = "load" /\ pc' = [pc EXCEPT ![c] = "handle"]
          /\ UNCHANGED <<log, result>> /\ UNCHANGED <<sdk, creds>> /\ UNCHANGED loads
          /\ UNCHANGED hooked
      BY <2>9 DEF Loaded, loaders
    <3>2. TypeOK'
      BY <2>4, <2>9, <3>1 DEF Loaded, IInv, TypeOK, config
    <3>3. Active(c)'
      BY <2>1, <2>2, <3>1, DecisionIsKept DEF IInv, Active, config
    <3>4. LogFits(c)' /\ log'[c] = <<PolicyEvent("success")>>
      BY <3>1 DEF IInv, LogFits, TypeOK
    <3>5. LoadsFit'
      BY <3>1 DEF IInv, LoadsFit, LoadersRunOnce
    <3>6. \A d \in Call \ {c} : pc'[d] = pc[d]
      BY <3>1 DEF IInv, TypeOK
    <3>7. log'[c] # <<>> /\ log'[c][1] = PolicyEvent("success")
      BY <3>4
    <3> QED BY <2>1, <3>1, <3>2, <3>3, <3>4, <3>5, <3>6, <3>7, CallStepKeepsIInv
  <2>10. CASE LoadFails(c)
    <3>1. lastCtx' \in Call \cup {None} /\ UNCHANGED <<config, loaders>> /\ pc[c] = "load"
          /\ hooked \subseteq hooked' /\ hooked' \subseteq Call
          /\ Answer(c, "error", <<ActionEvent("error")>>)
      BY <2>10 DEF LoadFails, IInv, TypeOK
    <3>2. hardships' \subseteq Hardship
      BY <2>10 DEF LoadFails, Record, Hardship, IInv, TypeOK
    <3> QED BY <2>1, <2>3, <2>4, <3>1, <3>2, AnswerKeepsIInv
  <2>11. CASE Return(c)
    <3>1. lastCtx' \in Call \cup {None} /\ UNCHANGED <<config, loaders>> /\ pc[c] = "handle"
          /\ hooked \subseteq hooked' /\ hooked' \subseteq Call
      BY <2>11 DEF Return, IInv, TypeOK
    <3>2. hardships' \subseteq Hardship
      BY <2>11 DEF Return, Record, Hardship, IInv, TypeOK
    <3>3. PICK s \in Status : Answer(c, s, <<ActionEvent(s)>>)
      BY <2>3, <2>11 DEF Return
    <3> QED BY <2>1, <2>4, <3>1, <3>2, <3>3, AnswerKeepsIInv
  <2> QED BY <1>2, <2>5, <2>6, <2>7, <2>8, <2>9, <2>10, <2>11 DEF Step
<1>3. ASSUME NEW c \in Call, RecordResolution(c)
      PROVE  IInv'
  <2>1. hardships' \subseteq Hardship
    BY <1>3 DEF RecordResolution, Record, Hardship, IInv, TypeOK
  <2> QED
    BY <1>3, <2>1 DEF RecordResolution, config, loaders, IInv, TypeOK, Active, Deciding,
       Decision, rules, approvalMode, LogFits, LoadsFit, LoadersRunOnce,
       NoSecretBeforeApproval
<1>4. CASE SdkSettles \/ CredsSettle
  <2>1. UNCHANGED config /\ UNCHANGED <<pc, action, result, log, loads, hooked, lastCtx, hardships>>
    BY <1>4 DEF SdkSettles, CredsSettle
  <2>2. TypeOK' /\ LoadsFit'
    BY <1>4, <2>1 DEF SdkSettles, CredsSettle, IInv, TypeOK, LoadsFit, LoadersRunOnce,
       config, LoadState
  <2>3. NoSecretBeforeApproval'
    BY <1>4, <2>1 DEF SdkSettles, CredsSettle, IInv, NoSecretBeforeApproval
  <2> QED
    BY <2>1, <2>2, <2>3 DEF IInv, Active, Deciding, Decision, rules, approvalMode, config,
       LogFits
<1> QED BY <1>1, <1>2, <1>3, <1>4 DEF Next

\* No step of a call, of a loader or of recordResolution breaks the invariant.
LEMMA IInvIsInductive == IInv /\ [Next]_vars => IInv'
<1>1. CASE Next
  BY <1>1, StepKeepsIInv
<1>2. CASE UNCHANGED vars
  BY <1>2 DEF vars, config, loaders, IInv, TypeOK, Active, Deciding, Decision, rules,
     approvalMode, LogFits, LoadsFit, LoadersRunOnce, NoSecretBeforeApproval
<1> QED BY <1>1, <1>2

\* The invariant holds throughout a connector's life.
LEMMA IInvHolds == Spec => []IInv
BY InitEstablishesIInv, IInvIsInductive, PTL DEF Spec

----------------------------------------------------------------------------
\* Theorems.

\* Type correctness: whatever the files say, the connector's state, the rules
\* in force and the audit logs are of the declared types.
THEOREM TypeCorrect == Spec => []TypeOK
<1>1. IInv => TypeOK
  BY DEF IInv
<1> QED BY <1>1, IInvHolds, PTL

\* A call in its handler was decided "success" by the gate, from the rules
\* and the mode the files yield.
LEMMA HandlingIsApproved ==
  ASSUME IInv, NEW c \in Call, Handling(c)
  PROVE  /\ policy # Malformed
         /\ Class(c) \in Classification
         /\ rules[Class(c).kind] = "success"
         /\ \A a \in Class(c).aspects : rules.aspects[a] \in {"success", Unset}
         /\ Class(c).kind = "read" => approvalMode = "auto"
<1>1. action[c] \in Action /\ policy # Malformed /\ Decision(c) = "success"
  BY DEF IInv, Active, Deciding, Handling
<1>2. /\ rules \in Rules /\ approvalMode \in ApprovalMode
      /\ Class(c) \in Classification
  BY <1>1, DecisionIsTyped DEF IInv
<1>3. CheckPolicy(Class(c), rules, approvalMode, FALSE, FALSE) = "success"
  BY <1>1 DEF Decision, Class
<1> QED BY <1>1, <1>2, <1>3, GateIsStrict

\* No configuration, however merged, and no order of calls brings an admin
\* action to its handler.
THEOREM AdminNeverRunsHolds == Spec => []AdminNeverRuns
<1>1. IInv => AdminNeverRuns
  <2> SUFFICES ASSUME IInv, NEW c \in Call, Handling(c), Class(c).kind = "admin"
               PROVE  FALSE
    BY DEF AdminNeverRuns
  <2>1. rules.admin = "success" /\ policy # Malformed
    BY HandlingIsApproved
  <2>2. rules \in Rules
    BY <2>1, DefaultsAreTyped DEF IInv, TypeOK, rules, LoadedPolicy
  <2> QED BY <2>1, <2>2 DEF Rules
<1> QED BY <1>1, IInvHolds, PTL

\* The SDK and the credentials are loaded only after an audited approval.
THEOREM NoSecretBeforeApprovalHolds == Spec => []NoSecretBeforeApproval
<1>1. IInv => NoSecretBeforeApproval
  BY DEF IInv
<1> QED BY <1>1, IInvHolds, PTL

\* However many calls race, each loader is called at most once.
THEOREM LoadersRunOnceHolds == Spec => []LoadersRunOnce
<1>1. IInv => LoadersRunOnce
  BY DEF IInv, LoadsFit
<1> QED BY <1>1, IInvHolds, PTL

\* A finished call that passed the gate has exactly the audit trail of what
\* its caller was told.
THEOREM AuditTellsOutcomeHolds == Spec => []AuditTellsOutcome
<1>1. IInv => AuditTellsOutcome
  <2> SUFFICES ASSUME IInv, NEW c \in Call, pc[c] = "done",
                      NEW d \in Rule, NEW i \in DOMAIN log[c], log[c][i] = PolicyEvent(d)
               PROVE  /\ Len(log[c]) = 2
                      /\ log[c][1] \in {PolicyEvent(e) : e \in Rule}
                      /\ log[c][2] = ActionEvent(result[c])
                      /\ result[c] = "success" /\ c \notin hooked =>
                           log[c][1] = PolicyEvent("success")
    BY DEF AuditTellsOutcome
  <2>1. log[c] # <<>>
    OBVIOUS
  <2>2. log[c] # <<ActionEvent("error")>>
    BY DEF PolicyEvent, ActionEvent
  <2>3. PICK e \in Rule : /\ log[c] = <<PolicyEvent(e), ActionEvent(result[c])>>
                          /\ result[c] = "success" /\ c \notin hooked => e = "success"
    BY <2>1, <2>2 DEF IInv, LogFits
  <2> QED BY <2>3
<1> QED BY <1>1, IInvHolds, PTL

\* What the merged and validated configuration says of a key is what the two
\* files say, read one key at a time.
LEMMA RulesAreEffective ==
  ASSUME IInv, policy # Malformed
  PROVE  /\ \A k \in Kind : rules[k] = Effective(k)
         /\ \A a \in Aspect : rules.aspects[a] = EffectiveAspect(a)
         /\ approvalMode = EffectiveMode
<1> DEFINE u == files[1]
           r == files[2]
           m == Merged(u, r)
           p == m.policy
<1>1. /\ files = <<u, r>> /\ policy = LoadPolicyConfig(u, r)
      /\ {u, r} \subseteq ConfigFile \cup {NoFile, Malformed}
  BY FilesAreTyped DEF IInv, TypeOK
<1>2. CASE u = NoFile /\ r = NoFile
  <2>1. policy = NoConfig
    BY <1>1, <1>2 DEF LoadPolicyConfig
  <2>2. files = <<NoFile, NoFile>>
    BY <1>1, <1>2
  <2>3. \A k \in Kind : Effective(k) = DefaultRules[k]
    BY <2>2 DEF Effective
  <2>4. \A a \in Aspect : EffectiveAspect(a) = DefaultRules.aspects[a]
    BY <2>2 DEF EffectiveAspect
  <2>5. EffectiveMode = "auto"
    BY <2>2 DEF EffectiveMode, ModeOf, Overlay
  <2> QED BY <2>1, <2>3, <2>4, <2>5 DEF rules, approvalMode
<1>3. CASE ~(u = NoFile /\ r = NoFile)
  <2>1. u # Malformed /\ r # Malformed /\ policy = ValidatePolicyConfig(m)
        /\ files # <<NoFile, NoFile>>
    BY <1>1, <1>3 DEF LoadPolicyConfig
  <2>2. m \in ConfigFile
    BY <1>1, <1>3, <2>1, MergeIsTyped DEF Merged
  <2>3. policy \in LoadedPolicy /\ policy # NoConfig
    BY <2>1, <2>2, ValidatedIsTyped, LoadsAreDistinct
  <2>4. /\ Invalid \notin {p, m.mode}
        /\ IsMapping(p) => ~BreaksFloor(p) /\ ~HasInvalidValue(p)
        /\ rules = ValidRules(p) /\ approvalMode = ValidMode(m.mode)
    BY <2>1, <2>3 DEF ValidatePolicyConfig, rules, approvalMode
  <2>5. /\ p \in Section \cup {Null, Unset}
        /\ PolicyOf(u) \in Section \cup {Null, Invalid, Unset}
        /\ PolicyOf(r) \in Section \cup {Null, Invalid, Unset}
    BY <1>1, <2>1, <2>2, <2>4 DEF ConfigFile, PolicyOf
  <2>6. /\ p = IF IsMapping(PolicyOf(u)) /\ IsMapping(PolicyOf(r))
              THEN MergeSections(PolicyOf(u), PolicyOf(r))
              ELSE Overlay(PolicyOf(u), PolicyOf(r))
        /\ m.mode = Overlay(ModeOf(u), ModeOf(r))
    <3>1. CASE u = NoFile
      <4>1. m = r /\ PolicyOf(u) = Unset /\ ModeOf(u) = Unset /\ PolicyOf(r) = r.policy
            /\ ModeOf(r) = r.mode
        BY <1>3, <3>1 DEF Merged, PolicyOf, ModeOf
      <4> QED BY <4>1 DEF Overlay, IsMapping
    <3>2. CASE r = NoFile
      <4>1. m = u /\ PolicyOf(r) = Unset /\ ModeOf(r) = Unset /\ PolicyOf(u) = u.policy
            /\ ModeOf(u) = u.mode
        BY <1>3, <3>2 DEF Merged, PolicyOf, ModeOf
      <4> QED BY <4>1 DEF Overlay, IsMapping
    <3>3. CASE u # NoFile /\ r # NoFile
      BY <3>3 DEF Merged, DeepMerge, PolicyOf, ModeOf
    <3> QED BY <3>1, <3>2, <3>3
  <2> HIDE DEF u, r, m, p
  <2>7. approvalMode = EffectiveMode
    BY <1>1, <2>4, <2>6 DEF ValidMode, EffectiveMode
  <2> DEFINE U == PolicyOf(u)
             R == PolicyOf(r)
  <2>8. /\ \A k \in Kind :
             Effective(k) = Overlay(DefaultPolicy[k], Latest(Says(u, k), Says(r, k)))
        /\ \A a \in Aspect : EffectiveAspect(a) = Latest(SaysOf(u, a), SaysOf(r, a))
        /\ \A x, y : Latest(x, y) = IF R = Null THEN Unset ELSE Overlay(x, y)
    BY <1>1, <2>1 DEF Effective, EffectiveAspect, Latest
  <2>9. CASE ~IsMapping(p)
    <3>1. rules = DefaultPolicy /\ DefaultPolicy.aspects = NoAspects
      BY <2>4, <2>9 DEF ValidRules, DefaultPolicy
    <3>2. ~IsMapping(R) /\ (R = Null \/ ~IsMapping(U))
      <4>1. R # Invalid
        BY <2>4, <2>6, ValuesAreDistinct DEF Overlay, IsMapping
      <4>2. ~IsMapping(R)
        <5>1. ASSUME IsMapping(R) PROVE FALSE
          <6>1. CASE IsMapping(U)
            <7>1. p = MergeSections(U, R)
              BY <2>6, <5>1, <6>1
            <7>2. p \in Section
              <8>1. U \in Section /\ R \in Section
                BY <2>5, <5>1, <6>1, MappingsAreTyped
              <8> QED BY <7>1, <8>1, MergedSectionIsTyped
            <7> QED BY <7>2, <2>9, MappingsAreTyped
          <6>2. CASE ~IsMapping(U)
            BY <2>6, <2>9, <5>1, <6>2 DEF Overlay, IsMapping
          <6> QED BY <6>1, <6>2
        <5> QED BY <5>1
      <4>3. R = Unset => ~IsMapping(U)
        BY <2>6, <2>9, <4>2 DEF Overlay
      <4> QED BY <2>5, <4>1, <4>2, <4>3, MappingsAreTyped
    <3>3. /\ \A k : Latest(Says(u, k), Says(r, k)) = Unset
          /\ \A a : Latest(SaysOf(u, a), SaysOf(r, a)) = Unset
      BY <2>8, <3>2 DEF Says, SaysOf, Overlay, IsMapping
    <3>4. \A k \in Kind : rules[k] = Effective(k)
      BY <2>8, <3>1, <3>3 DEF Overlay
    <3>5. \A a \in Aspect : rules.aspects[a] = EffectiveAspect(a)
      BY <2>8, <3>1, <3>3 DEF NoAspects
    <3> QED BY <2>7, <3>4, <3>5
  <2>10. CASE IsMapping(p)
    <3>1. /\ R # Null
          /\ \A x, y : Latest(x, y) = Overlay(x, y)
      <4>1. R = Null => p = Null
        BY <2>6, ValuesAreDistinct DEF Overlay, IsMapping
      <4>2. R # Null
        BY <2>10, <4>1 DEF IsMapping
      <4> QED BY <2>8, <4>2
    <3>2. p \in Section
      BY <2>5, <2>10, MappingsAreTyped
    <3>3. \A k \in Kind : p[k] = Overlay(Says(u, k), Says(r, k))
      BY <2>6, <2>10 DEF MergeSections, Overlay, Says, Kind, IsMapping
    <3>4. \A k \in Kind : rules[k] = Overlay(DefaultPolicy[k], p[k])
      BY <2>4, <2>10 DEF ValidRules, Kind
    <3>5. p.aspects # Invalid
      BY <2>4, <2>10 DEF HasInvalidValue
    <3>6. \A a \in Aspect :
            rules.aspects[a] = IF IsMapping(p.aspects) THEN p.aspects[a] ELSE Unset
      BY <2>4, <2>10, <3>2, <3>5, MappingsAreTyped
      DEF ValidRules, Overlay, DefaultPolicy, NoAspects, Section, IsMapping
    <3> DEFINE A == Says(u, "aspects")
               B == Says(r, "aspects")
    <3>7. p.aspects = IF IsMapping(A) /\ IsMapping(B)
                      THEN [a \in Aspect |-> Overlay(A[a], B[a])]
                      ELSE Overlay(A, B)
      BY <2>6, <2>10 DEF MergeSections, Overlay, Says, IsMapping
    <3>8. A \in [Aspect -> FileRule] \cup {Invalid, Unset}
          /\ B \in [Aspect -> FileRule] \cup {Invalid, Unset}
      BY <2>5, MappingsAreTyped DEF Says, Section
    <3>9. \A a \in Aspect : rules.aspects[a] = Overlay(SaysOf(u, a), SaysOf(r, a))
      <4> TAKE a \in Aspect
      <4>1. SaysOf(u, a) = (IF IsMapping(A) THEN A[a] ELSE Unset)
            /\ SaysOf(r, a) = (IF IsMapping(B) THEN B[a] ELSE Unset)
        BY DEF SaysOf
      <4> HIDE DEF A, B
      <4>2. CASE IsMapping(A) /\ IsMapping(B)
        <5>1. p.aspects \in [Aspect -> FileRule] /\ p.aspects[a] = Overlay(A[a], B[a])
          BY <3>7, <3>8, <4>2, MappingsAreTyped DEF Overlay
        <5> QED BY <3>6, <4>1, <4>2, <5>1, MappingsAreTyped
      <4>3. CASE ~(IsMapping(A) /\ IsMapping(B))
        <5>1. B # Invalid /\ (B = Unset => p.aspects = A) /\ (B # Unset => p.aspects = B)
          BY <3>5, <3>7, <4>3, ValuesAreDistinct DEF Overlay
        <5>2. CASE IsMapping(B)
          <6>1. B # Unset /\ ~IsMapping(A) /\ p.aspects = B
            BY <4>3, <5>1, <5>2 DEF IsMapping
          <6> QED BY <3>6, <4>1, <5>2, <6>1 DEF Overlay
        <5>3. CASE ~IsMapping(B)
          <6>1. B = Unset /\ p.aspects = A
            BY <3>8, <5>1, <5>3, MappingsAreTyped
          <6> QED BY <3>6, <4>1, <5>3, <6>1 DEF Overlay
        <5> QED BY <5>2, <5>3
      <4> QED BY <4>2, <4>3
    <3> QED BY <2>7, <2>8, <3>1, <3>3, <3>4, <3>9
  <2> QED BY <2>9, <2>10
<1> QED BY <1>2, <1>3

\* A handler runs only for what the operator's files, read one key at a time,
\* permit.
THEOREM HandlerIsPermittedHolds == Spec => []HandlerIsPermitted
<1>1. IInv => HandlerIsPermitted
  <2> SUFFICES ASSUME IInv, NEW c \in Call, Handling(c)
               PROVE  /\ Effective(Class(c).kind) = "success"
                      /\ \A a \in Class(c).aspects : EffectiveAspect(a) \in {"success", Unset}
                      /\ Class(c).kind = "read" => EffectiveMode = "auto"
    BY DEF HandlerIsPermitted
  <2>1. Class(c).kind \in Kind /\ Class(c).aspects \subseteq Aspect
    BY HandlingIsApproved DEF Classification
  <2> QED BY <2>1, HandlingIsApproved, RulesAreEffective
<1> QED BY <1>1, IInvHolds, PTL

----------------------------------------------------------------------------
\* A step of any call, or of the loaders, leaves a failed load failed, and
\* brings no call to its handler that is not there.
LEMMA FailuresAreKept ==
  ASSUME IInv, NEW c \in Call, [Next]_vars, sdk = "failed" \/ creds = "failed", ~Handling(c)
  PROVE  (sdk' = "failed" \/ creds' = "failed") /\ ~Handling(c)'
<1> USE DEF Handling, Answer, config, loaders
<1>1. pc \in [Call -> {"idle", "classify", "load", "handle", "done"}]
  BY DEF IInv, TypeOK
<1>2. ASSUME NEW d \in Call, NEW a \in Action \cup {Unknown}, NEW valid \in BOOLEAN,
             Fetch(d, a, valid)
      PROVE  (sdk' = "failed" \/ creds' = "failed") /\ ~Handling(c)'
  BY <1>1, <1>2 DEF Fetch
<1>3. ASSUME NEW d \in Call, HookThrows(d) \/ HookAnswers(d) \/ Refuse(d)
                               \/ LoadFails(d) \/ Return(d)
      PROVE  (sdk' = "failed" \/ creds' = "failed") /\ ~Handling(c)'
  BY <1>1, <1>3 DEF HookThrows, HookAnswers, Refuse, LoadFails, Return
<1>4. ASSUME NEW d \in Call, Approve(d)
      PROVE  (sdk' = "failed" \/ creds' = "failed") /\ ~Handling(c)'
  BY <1>1, <1>4 DEF Approve, StartLoads
<1>5. ASSUME NEW d \in Call, Loaded(d)
      PROVE  FALSE
  BY <1>5 DEF Loaded
<1>6. CASE SdkSettles \/ CredsSettle \/ UNCHANGED vars \/ \E d \in Call : RecordResolution(d)
  BY <1>6 DEF SdkSettles, CredsSettle, vars, RecordResolution
<1> QED BY <1>2, <1>3, <1>4, <1>5, <1>6 DEF Next, Step

\* A load that has failed is final: no call that is not in its handler by
\* then ever gets there.
THEOREM FailedLoadIsFinalHolds == Spec => FailedLoadIsFinal
<1>1. ASSUME NEW c \in Call
      PROVE  Spec => []((sdk = "failed" \/ creds = "failed") /\ ~Handling(c) => []~Handling(c))
  <2> DEFINE Lost == (sdk = "failed" \/ creds = "failed") /\ ~Handling(c)
  <2>1. IInv /\ Lost /\ [Next]_vars => Lost'
    BY FailuresAreKept
  <2>2. Lost => ~Handling(c)
    OBVIOUS
  <2>3. Spec => []IInv /\ [][Next]_vars
    BY IInvHolds, PTL DEF Spec
  <2> HIDE DEF Lost
  <2>4. Spec => [](Lost => []~Handling(c))
    BY <2>1, <2>2, <2>3, PTL
  <2> QED BY <2>4 DEF Lost
<1> QED BY <1>1 DEF FailedLoadIsFinal

=============================================================================

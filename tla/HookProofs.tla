----------------------------- MODULE HookProofs ------------------------------
(***************************************************************************)
(* Proofs about the programs Claude Code starts for each hook.             *)
(*                                                                         *)
(* AskMemo: for any sessions, branches and commands, whatever the times to *)
(* live, and with no bound on time or on the calls.                        *)
(*                                                                         *)
(* PluginBootstrap: for any finite set of plugins, any number of processes *)
(* and of versions, and any interleaving of the processes.                 *)
(***************************************************************************)
EXTENDS AskMemo, PluginBootstrap, FiniteSetTheorems, WellFoundedInduction, TLAPS

----------------------------------------------------------------------------
\* Part 1: AskMemo.

----------------------------------------------------------------------------
\* The invariant, in parts.

\* What a session's tool call knows where it is.
CallFits(s) ==
  /\ pc[s] \in {"lookup", "replay", "miss"} => call[s].scope \in Ref \ Protected
  /\ pc[s] \in {"lookup", "replay", "miss", "ask", "confirm"} => call[s].cmd \in Push
  /\ pc[s] = "replay" => call[s].seen \in GrantFile /\ call[s].seen.session = s
  /\ pc[s] = "promote" => call[s].found \in Ref \ Protected

\* Where a call that its operator could have stopped comes from: past the
\* prompt, either this prompt was approved or an earlier one was.
CallIsApproved(s) ==
  /\ pc[s] \in {"run", "confirm"} /\ call[s].cmd # None /\ call[s].prompts => HasApproved(s)
  /\ pc[s] \in {"replay", "promote"} => HasApproved(s)

GrantsAreApproved == \A b \in Ref : grants[b] # None => HasApproved(grants[b].session)

IInv ==
  /\ TypeOK
  /\ \A s \in Session : CallFits(s)
  /\ NamesAreUngranted
  /\ \A s \in Session : CallIsApproved(s)
  /\ GrantsAreApproved

----------------------------------------------------------------------------
LEMMA NoCallIsTyped == NoCall \in Call /\ 0 \in Time
<1>1. 0 \in Time
  BY TimesAreNat DEF Time
<1> QED BY <1>1 DEF NoCall, Call

LEMMA InitEstablishesIInv == Init => IInv
<1> SUFFICES ASSUME Init PROVE IInv
  OBVIOUS
<1>1. TypeOK
  <2>1. MaxCalls \in 0..MaxCalls
    BY TimesAreNat
  <2>2. /\ head \in Branch \cup {None} /\ clock \in Time /\ budget \in 0..MaxCalls
        /\ clearing \in BOOLEAN /\ racing \in BOOLEAN
    BY <2>1, NoCallIsTyped DEF Init
  <2>3. /\ pending \in [Session \X Push -> PendingFile \cup {None}]
        /\ grants \in [Ref -> GrantFile \cup {None}]
        /\ standing \in [Session \X Ref -> [granted : Time, used : Time] \cup {None}]
    BY DEF Init
  <2>4. pc \in [Session -> Pc] /\ call \in [Session -> Call]
    BY NoCallIsTyped DEF Init, Pc
  <2>5. approved \subseteq Session \X (Ref \cup {None})
    BY DEF Init
  <2> QED BY <2>2, <2>3, <2>4, <2>5 DEF TypeOK
<1>2. NamesAreUngranted /\ GrantsAreApproved
  BY ProtectedIsBranch, RefsNameBranches DEF Init, NamesAreUngranted, GrantsAreApproved
<1>3. \A s \in Session : CallFits(s) /\ CallIsApproved(s)
  BY DEF Init, CallFits, CallIsApproved
<1> QED BY <1>1, <1>2, <1>3 DEF IInv

\* A call that a step leaves as it is, but for the note that HEAD was switched.
AsBefore(q) ==
  /\ call'[q].cmd = call[q].cmd /\ call'[q].prompts = call[q].prompts
  /\ call'[q].scope = call[q].scope /\ call'[q].seen = call[q].seen
  /\ call'[q].at = call[q].at /\ call'[q].found = call[q].found

\* A switch of HEAD notes itself, and does nothing else to a call.
LEMMA SwitchOnlyNotes ==
  ASSUME TypeOK, NEW b, NEW q \in Session
  PROVE  LET k == CallsOnSwitch(b)[q]
         IN  /\ k \in Call
             /\ k.cmd = call[q].cmd /\ k.prompts = call[q].prompts /\ k.scope = call[q].scope
             /\ k.seen = call[q].seen /\ k.at = call[q].at /\ k.found = call[q].found
             /\ k.moved = (call[q].moved \/ (Resolved(q) /\ b # head))
  BY DEF CallsOnSwitch, TypeOK, Call

LEMMA SwitchIsNoted ==
  ASSUME IInv, NEW s \in Session
  PROVE  /\ RunSwitch(s) => \A q \in Session \ {s} : AsBefore(q)
         /\ SwitchUnseen => \A q \in Session : AsBefore(q)
<1>1. ASSUME RunSwitch(s), NEW q \in Session \ {s} PROVE AsBefore(q)
  <2>1. call'[q] = CallsOnSwitch(call[s].to)[q]
    BY <1>1 DEF RunSwitch, CallsOnSwitch
  <2> QED BY <2>1, SwitchOnlyNotes DEF AsBefore, IInv
<1>2. ASSUME SwitchUnseen, NEW q \in Session PROVE AsBefore(q)
  <2>1. call'[q] = CallsOnSwitch(head')[q]
    BY <1>2 DEF SwitchUnseen
  <2> QED BY <2>1, SwitchOnlyNotes DEF AsBefore, IInv
<1> QED BY <1>1, <1>2

\* A step of one session's call that keeps the store's promises and leaves the
\* approvals of the others standing keeps what the other calls know.
LEMMA OthersAreKept ==
  ASSUME IInv, NEW s \in Session, TypeOK',
         \A q \in Session \ {s} : pc'[q] = pc[q] /\ AsBefore(q),
         approved \subseteq approved',
         (CallFits(s) /\ CallIsApproved(s))'
  PROVE  \A q \in Session : (CallFits(q) /\ CallIsApproved(q))'
<1> SUFFICES ASSUME NEW q \in Session \ {s} PROVE (CallFits(q) /\ CallIsApproved(q))'
  OBVIOUS
<1>1. CallFits(q) /\ CallIsApproved(q)
  BY DEF IInv
<1> QED BY <1>1 DEF AsBefore, CallFits, CallIsApproved, HasApproved

\* The sweep only takes files away.
LEMMA PruneIsHarmless ==
  ASSUME IInv, PruneStore, approved' = approved
  PROVE  /\ pending' \in [Session \X Push -> PendingFile \cup {None}]
         /\ grants' \in [Ref -> GrantFile \cup {None}]
         /\ \A b \in Ref : grants'[b] \in {grants[b], None}
         /\ NamesAreUngranted'
         /\ GrantsAreApproved'
<1>1. /\ pending' \in [Session \X Push -> PendingFile \cup {None}]
      /\ \A f \in Session \X Push : pending'[f] \in {pending[f], None}
  BY DEF PruneStore, IInv, TypeOK
<1>2. /\ grants' \in [Ref -> GrantFile \cup {None}]
      /\ \A b \in Ref : grants'[b] \in {grants[b], None}
  BY DEF PruneStore, IInv, TypeOK
<1>3. NamesAreUngranted'
  BY <1>1, <1>2, ProtectedIsBranch, RefsNameBranches DEF NamesAreUngranted, IInv
<1>4. GrantsAreApproved'
  BY <1>2 DEF GrantsAreApproved, HasApproved, IInv
<1> QED BY <1>1, <1>2, <1>3, <1>4

\* The pre-tool-use process.
LEMMA GateKeepsIInv ==
  ASSUME IInv, NEW s \in Session, NEW c \in Push, NEW prompts \in BOOLEAN, Gate(s, c, prompts)
  PROVE  IInv'
<1> DEFINE k1 == [NoCall EXCEPT !.cmd = c]
           k2 == [k1 EXCEPT !.prompts = prompts]
           k == [k2 EXCEPT !.scope = ResolveScope(c)]
<1>1. ResolveScope(c) \in (Ref \ Protected) \cup {None}
  BY TargetIsRef, RefsNameBranches DEF ResolveScope, IInv, TypeOK
<1>2. /\ k \in Call /\ k.cmd = c /\ k.scope = ResolveScope(c)
      /\ call' = [call EXCEPT ![s] = k]
  <2>1. call' = [call EXCEPT ![s] = k]
    BY DEF Gate
  <2>3. k1 \in Call /\ k1.cmd = c
    BY NoCallIsTyped DEF Call
  <2> HIDE DEF k1
  <2>4. k2 \in Call /\ k2.cmd = c
    BY <2>3 DEF Call
  <2> HIDE DEF k2
  <2>5. k \in Call /\ k.cmd = c /\ k.scope = ResolveScope(c)
    BY <1>1, <2>4 DEF Call
  <2> QED BY <2>1, <2>5
<1> HIDE DEF k
<1>3. TypeOK'
  BY <1>2, TimesAreNat DEF Gate, Goto, Spend, store, history, IInv, TypeOK, Pc
<1>4. (CallFits(s) /\ CallIsApproved(s))'
  BY <1>1, <1>2 DEF Gate, Goto, CallFits, CallIsApproved, IInv, TypeOK
<1>5. \A q \in Session : (CallFits(q) /\ CallIsApproved(q))'
  <2>1. \A q \in Session \ {s} : pc'[q] = pc[q] /\ call'[q] = call[q]
    BY <1>2 DEF Gate, Goto, IInv, TypeOK
  <2> QED BY <1>3, <1>4, <2>1, OthersAreKept DEF AsBefore, Gate, history
<1>6. NamesAreUngranted' /\ GrantsAreApproved'
  BY DEF Gate, store, history, NamesAreUngranted, GrantsAreApproved, HasApproved, IInv
<1> QED BY <1>3, <1>5, <1>6 DEF IInv

LEMMA LookupKeepsIInv ==
  ASSUME IInv, NEW s \in Session, Lookup(s)
  PROVE  IInv'
<1> DEFINE g == grants'[call[s].scope]
           k == [[call[s] EXCEPT !.seen = g] EXCEPT !.at = clock]
<1>1. /\ call[s] \in Call /\ call[s].scope \in Ref \ Protected /\ call[s].cmd \in Push
      /\ clock \in Time
  BY DEF Lookup, IInv, TypeOK, CallFits
<1>2. /\ pending' \in [Session \X Push -> PendingFile \cup {None}]
      /\ grants' \in [Ref -> GrantFile \cup {None}]
      /\ g \in {grants[call[s].scope], None}
      /\ NamesAreUngranted' /\ GrantsAreApproved'
  BY <1>1, PruneIsHarmless DEF Lookup, history
<1>3. /\ k \in Call /\ k.seen = g /\ k.scope = call[s].scope /\ k.cmd = call[s].cmd
      /\ call' = [call EXCEPT ![s] = k]
  BY <1>1, <1>2 DEF Lookup, Call, IInv, TypeOK
<1>4. IsLive(g, s, clock) => g \in GrantFile /\ g.session = s /\ HasApproved(s)
  <2>1. ASSUME IsLive(g, s, clock) PROVE g \in GrantFile /\ g.session = s /\ HasApproved(s)
    <3>1. g # None /\ g.session = s /\ g = grants[call[s].scope]
      BY <1>2, <2>1 DEF IsLive
    <3> QED BY <1>1, <1>2, <3>1 DEF IInv, GrantsAreApproved
  <2> QED BY <2>1
<1>5. pc' = [pc EXCEPT ![s] = IF IsLive(g, s, clock) THEN "replay" ELSE "miss"]
  BY DEF Lookup, Goto
<1> HIDE DEF k, g
<1>6. TypeOK'
  BY <1>2, <1>3, <1>5 DEF Lookup, history, IInv, TypeOK, Pc
<1>7. (CallFits(s) /\ CallIsApproved(s))'
  BY <1>1, <1>3, <1>4, <1>5
  DEF Lookup, history, CallFits, CallIsApproved, HasApproved, IInv, TypeOK
<1>8. \A q \in Session : (CallFits(q) /\ CallIsApproved(q))'
  <2>1. \A q \in Session \ {s} : pc'[q] = pc[q] /\ call'[q] = call[q]
    BY <1>3, <1>5 DEF IInv, TypeOK
  <2> QED BY <1>6, <1>7, <2>1, OthersAreKept DEF AsBefore, Lookup, history
<1> QED BY <1>2, <1>6, <1>8 DEF IInv

LEMMA ReplayKeepsIInv ==
  ASSUME IInv, NEW s \in Session, Replay(s)
  PROVE  IInv'
<1> DEFINE b == call[s].scope
           g == [call[s].seen EXCEPT !.used = call[s].at]
           k == [[call[s] EXCEPT !.seen = None] EXCEPT !.at = 0]
<1>1. /\ call[s] \in Call /\ b \in Ref \ Protected /\ call[s].at \in Time
      /\ call[s].seen \in GrantFile /\ call[s].seen.session = s /\ HasApproved(s)
  BY DEF Replay, IInv, TypeOK, CallFits, CallIsApproved, Call
<1>2. g \in GrantFile /\ g.session = s /\ grants' = [grants EXCEPT ![b] = g]
  BY <1>1 DEF Replay, GrantFile
<1>3. k \in Call /\ call' = [call EXCEPT ![s] = k]
  BY <1>1, NoCallIsTyped DEF Replay, Call, NoCall
<1>4. standing' \in [Session \X Ref -> [granted : Time, used : Time] \cup {None}]
  BY <1>1 DEF Replay, IInv, TypeOK
<1> HIDE DEF k, g
<1>5. TypeOK'
  <2>1. call' \in [Session -> Call] /\ grants' \in [Ref -> GrantFile \cup {None}]
    BY <1>1, <1>2, <1>3 DEF IInv, TypeOK
  <2>2. pc' \in [Session -> Pc]
    BY DEF Replay, Goto, IInv, TypeOK, Pc
  <2> QED BY <1>4, <2>1, <2>2 DEF Replay, IInv, TypeOK
<1>6. (CallFits(s) /\ CallIsApproved(s))'
  BY <1>1, <1>3 DEF Replay, Goto, CallFits, CallIsApproved, HasApproved, IInv, TypeOK
<1>7. \A q \in Session : (CallFits(q) /\ CallIsApproved(q))'
  <2>1. \A q \in Session \ {s} : pc'[q] = pc[q] /\ call'[q] = call[q]
    BY <1>3 DEF Replay, Goto, IInv, TypeOK
  <2> QED BY <1>5, <1>6, <2>1, OthersAreKept DEF AsBefore, Replay
<1>8. NamesAreUngranted'
  BY <1>1, <1>2, ProtectedIsBranch, RefsNameBranches DEF Replay, NamesAreUngranted, IInv, TypeOK
<1>9. GrantsAreApproved'
  BY <1>1, <1>2 DEF Replay, GrantsAreApproved, HasApproved, IInv, TypeOK
<1> QED BY <1>5, <1>7, <1>8, <1>9 DEF IInv

LEMMA MissKeepsIInv ==
  ASSUME IInv, NEW s \in Session, Miss(s)
  PROVE  IInv'
<1> DEFINE p == [scope |-> call[s].scope, at |-> call[s].at]
           k == [[[call[s] EXCEPT !.at = 0] EXCEPT !.seen = None] EXCEPT !.moved = FALSE]
<1>1. /\ call[s] \in Call /\ call[s].scope \in Ref \ Protected /\ call[s].cmd \in Push
  BY DEF Miss, IInv, TypeOK, CallFits
<1>2. /\ p \in PendingFile /\ p.scope \notin Protected
      /\ pending' = [pending EXCEPT ![<<s, call[s].cmd>>] = p]
  BY <1>1 DEF Miss, PendingFile, Call
<1>3. k \in Call /\ k.cmd = call[s].cmd /\ call' = [call EXCEPT ![s] = k]
  BY <1>1, NoCallIsTyped DEF Miss, Call, IInv, TypeOK
<1> HIDE DEF k, p
<1>4. TypeOK'
  <2>1. pending' \in [Session \X Push -> PendingFile \cup {None}]
    BY <1>1, <1>2 DEF IInv, TypeOK
  <2>2. call' \in [Session -> Call]
    BY <1>3 DEF IInv, TypeOK
  <2>3. pc' \in [Session -> Pc]
    BY DEF Miss, Goto, IInv, TypeOK, Pc
  <2> QED BY <2>1, <2>2, <2>3 DEF Miss, history, IInv, TypeOK
<1>5. (CallFits(s) /\ CallIsApproved(s))'
  BY <1>1, <1>3 DEF Miss, Goto, CallFits, CallIsApproved, IInv, TypeOK
<1>6. \A q \in Session : (CallFits(q) /\ CallIsApproved(q))'
  <2>1. \A q \in Session \ {s} : pc'[q] = pc[q] /\ call'[q] = call[q]
    BY <1>3 DEF Miss, Goto, IInv, TypeOK
  <2> QED BY <1>4, <1>5, <2>1, OthersAreKept DEF AsBefore, Miss, history
<1>7. NamesAreUngranted'
  BY <1>1, <1>2 DEF Miss, NamesAreUngranted, IInv, TypeOK
<1>8. GrantsAreApproved'
  BY DEF Miss, history, GrantsAreApproved, HasApproved, IInv
<1> QED BY <1>4, <1>6, <1>7, <1>8 DEF IInv

----------------------------------------------------------------------------
\* The prompt and the command.  None of it touches the store.

\* A call that ends, or goes on with a fresh record k of its own, elsewhere than
\* in a hook.
LEMMA CallGoesOn ==
  ASSUME IInv, NEW s \in Session, NEW k \in Call, NEW p \in {"idle", "run"},
         call' = [call EXCEPT ![s] = k], pc' = [pc EXCEPT ![s] = p],
         head' \in Branch \cup {None}, budget' \in 0..MaxCalls,
         UNCHANGED <<clock, store, clearing, standing, racing>>,
         approved' \subseteq Session \X (Ref \cup {None}), approved \subseteq approved',
         p = "run" /\ k.cmd # None /\ k.prompts => HasApproved(s)'
  PROVE  IInv'
<1>1. TypeOK'
  BY DEF store, IInv, TypeOK, Pc
<1>2. (CallFits(s) /\ CallIsApproved(s))'
  BY DEF CallFits, CallIsApproved, IInv, TypeOK
<1>3. \A q \in Session : (CallFits(q) /\ CallIsApproved(q))'
  <2>1. \A q \in Session \ {s} : pc'[q] = pc[q] /\ call'[q] = call[q]
    BY DEF IInv, TypeOK
  <2> QED BY <1>1, <1>2, <2>1, OthersAreKept DEF AsBefore
<1>4. NamesAreUngranted' /\ GrantsAreApproved'
  BY DEF store, NamesAreUngranted, GrantsAreApproved, HasApproved, IInv
<1> QED BY <1>1, <1>3, <1>4 DEF IInv

LEMMA PromptKeepsIInv ==
  ASSUME IInv, NEW s \in Session, Approve(s) \/ Deny(s) \/ Bypass(s)
  PROVE  IInv'
<1>1. call[s] \in Call /\ call[s].scope \in Ref \cup {None}
      /\ call[s].cmd \in Push \cup {None}
      /\ approved \subseteq Session \X (Ref \cup {None})
      /\ head \in Branch \cup {None} /\ budget \in 0..MaxCalls
  BY DEF IInv, TypeOK, Call
<1>2. ASSUME NEW prompts \in BOOLEAN
      PROVE  [NoCall EXCEPT !.cmd = call[s].cmd, !.prompts = prompts] \in Call
  BY <1>1, NoCallIsTyped DEF Call
<1>3. CASE Approve(s)
  <2>1. [NoCall EXCEPT !.cmd = call[s].cmd, !.prompts = TRUE] \in Call
    BY <1>2
  <2>2. HasApproved(s)'
    BY <1>1, <1>3 DEF Approve, HasApproved
  <2>3. approved' \subseteq Session \X (Ref \cup {None})
    BY <1>1, <1>3 DEF Approve
  <2> QED BY <1>1, <1>3, <2>1, <2>2, <2>3, CallGoesOn DEF Approve, Goto
<1>4. CASE Deny(s)
  BY <1>1, <1>4, NoCallIsTyped, CallGoesOn DEF Deny, Goto, history
<1>5. CASE Bypass(s)
  <2> DEFINE k == [NoCall EXCEPT !.cmd = call[s].cmd]
  <2>1. k \in Call /\ k.prompts = FALSE
    BY <1>1, NoCallIsTyped DEF NoCall, Call
  <2> HIDE DEF k
  <2>2. call' = [call EXCEPT ![s] = k]
    BY <1>5 DEF Bypass, k
  <2> QED BY <1>1, <1>5, <2>1, <2>2, CallGoesOn DEF Bypass, Goto, history
<1> QED BY <1>3, <1>4, <1>5

LEMMA BeginSwitchKeepsIInv ==
  ASSUME IInv, NEW s \in Session, NEW b \in Branch \cup {None}, BeginSwitch(s, b)
  PROVE  IInv'
<1> DEFINE k == [NoCall EXCEPT !.to = b]
<1>1. k \in Call /\ k.cmd = None
  BY NoCallIsTyped DEF NoCall, Call
<1>2. budget' \in 0..MaxCalls
  BY TimesAreNat DEF BeginSwitch, Spend, IInv, TypeOK
<1>3. call' = [call EXCEPT ![s] = k]
  BY DEF BeginSwitch
<1> HIDE DEF k
<1> QED BY <1>1, <1>2, <1>3, CallGoesOn DEF BeginSwitch, Goto, history, IInv, TypeOK

----------------------------------------------------------------------------
\* The post-tool-use process.

\* A step of that process that keeps the store's types and promises.
LEMMA HookGoesOn ==
  ASSUME IInv, NEW s \in Session, NEW k \in Call,
         NEW p \in {"idle", "confirm", "promote", "head", "invalidate", "prune"},
         call' = [call EXCEPT ![s] = k], pc' = [pc EXCEPT ![s] = p],
         p = "confirm" => k.cmd \in Push /\ (k.prompts => HasApproved(s)),
         p = "promote" => k.found \in Ref \ Protected /\ HasApproved(s),
         head' \in Branch \cup {None}, racing' \in BOOLEAN,
         pending' \in [Session \X Push -> PendingFile \cup {None}],
         grants' \in [Ref -> GrantFile \cup {None}],
         standing' \in [Session \X Ref -> [granted : Time, used : Time] \cup {None}],
         UNCHANGED <<clock, budget, clearing, approved>>,
         NamesAreUngranted', GrantsAreApproved'
  PROVE  IInv'
<1>1. TypeOK'
  BY DEF IInv, TypeOK, Pc
<1>2. (CallFits(s) /\ CallIsApproved(s))'
  BY DEF CallFits, CallIsApproved, HasApproved, IInv, TypeOK
<1>3. \A q \in Session : (CallFits(q) /\ CallIsApproved(q))'
  <2>1. \A q \in Session \ {s} : pc'[q] = pc[q] /\ call'[q] = call[q]
    BY DEF IInv, TypeOK
  <2> QED BY <1>1, <1>2, <2>1, OthersAreKept DEF AsBefore
<1> QED BY <1>1, <1>3 DEF IInv

LEMMA RunPushKeepsIInv ==
  ASSUME IInv, NEW s \in Session, RunPush(s)
  PROVE  IInv'
<1> DEFINE k == [[call[s] EXCEPT !.scope = None] EXCEPT !.moved = FALSE]
<1>1. call[s] \in Call /\ call[s].cmd \in Push /\ (call[s].prompts => HasApproved(s))
  BY DEF RunPush, IInv, TypeOK, CallIsApproved, Call
<1>2. k \in Call /\ k.cmd \in Push /\ (k.prompts => HasApproved(s))
  BY <1>1 DEF Call
<1>3. call' = [call EXCEPT ![s] = k]
  BY DEF RunPush
<1>4. NamesAreUngranted' /\ GrantsAreApproved'
  BY DEF RunPush, store, history, NamesAreUngranted, GrantsAreApproved, HasApproved, IInv
<1> HIDE DEF k
<1> QED BY <1>2, <1>3, <1>4, HookGoesOn DEF RunPush, Goto, store, history, IInv, TypeOK

\* The one step of a call that touches the others: HEAD is switched under them.
LEMMA RunSwitchKeepsIInv ==
  ASSUME IInv, NEW s \in Session, RunSwitch(s)
  PROVE  IInv'
<1> DEFINE b == call[s].to
           f == CallsOnSwitch(b)
           k == [f[s] EXCEPT !.to = None]
<1>1. /\ f \in [Session -> Call] /\ b \in Branch \cup {None}
      /\ TypeOK
  BY SwitchOnlyNotes DEF CallsOnSwitch, IInv, TypeOK, Call
<1>2. call' = [f EXCEPT ![s] = k] /\ head' = b
  BY DEF RunSwitch
<1>3. k \in Call
  BY <1>1 DEF Call
<1>4. \A q \in Session \ {s} : AsBefore(q)
  BY SwitchIsNoted
<1> HIDE DEF f, k, b
<1>5. TypeOK'
  BY <1>1, <1>2, <1>3 DEF RunSwitch, Goto, store, history, TypeOK, Pc
<1>6. (CallFits(s) /\ CallIsApproved(s))'
  BY <1>1 DEF RunSwitch, Goto, CallFits, CallIsApproved, TypeOK
<1>7. \A q \in Session : (CallFits(q) /\ CallIsApproved(q))'
  <2>1. \A q \in Session \ {s} : pc'[q] = pc[q]
    BY <1>1 DEF RunSwitch, Goto, TypeOK
  <2> QED BY <1>4, <1>5, <1>6, <2>1, OthersAreKept DEF RunSwitch, history
<1>8. NamesAreUngranted' /\ GrantsAreApproved'
  BY DEF RunSwitch, store, history, NamesAreUngranted, GrantsAreApproved, HasApproved, IInv
<1> QED BY <1>5, <1>7, <1>8 DEF IInv

LEMMA ConfirmKeepsIInv ==
  ASSUME IInv, NEW s \in Session, Confirm(s)
  PROVE  IInv'
<1> DEFINE f == <<s, call[s].cmd>>
           good == pending[f] # None /\ call[s].prompts /\ clock - pending[f].at < PendingTTL
           k == IF good THEN [[call[s] EXCEPT !.found = pending[f].scope] EXCEPT !.at = clock]
                ELSE call[s]
           p == IF good THEN "promote" ELSE "prune"
<1>1. /\ call[s] \in Call /\ clock \in Time /\ f \in Session \X Push
      /\ pending[f] \in PendingFile \cup {None}
      /\ call[s].prompts => HasApproved(s)
  <2>1. call[s].cmd \in Push
    BY DEF Confirm, IInv, CallFits
  <2> QED BY <2>1, NoneIsNoRef DEF Confirm, IInv, TypeOK, CallIsApproved
<1>2. good => /\ pending[f].scope \in Ref \ Protected
              /\ HasApproved(s)
  BY <1>1 DEF PendingFile, IInv, NamesAreUngranted
<1>3. /\ pending' = [pending EXCEPT ![f] = None]
      /\ call' = [call EXCEPT ![s] = k] /\ pc' = [pc EXCEPT ![s] = p]
  BY DEF Confirm, Goto, IInv, TypeOK
<1>4. k \in Call /\ (p = "promote" => k.found \in Ref \ Protected /\ HasApproved(s))
  BY <1>1, <1>2 DEF Call
<1>5. p \in {"promote", "prune"}
  OBVIOUS
<1> HIDE DEF k, p, f
<1>6. /\ pending' \in [Session \X Push -> PendingFile \cup {None}]
      /\ NamesAreUngranted' /\ GrantsAreApproved'
  <2>1. pending' \in [Session \X Push -> PendingFile \cup {None}]
    BY <1>1, <1>3 DEF IInv, TypeOK
  <2>2. \A e \in Session \X Push : pending'[e] \in {pending[e], None}
    BY <1>1, <1>3 DEF IInv, TypeOK
  <2>3. NamesAreUngranted'
    BY <2>2 DEF Confirm, NamesAreUngranted, IInv
  <2>4. GrantsAreApproved'
    BY DEF Confirm, history, GrantsAreApproved, HasApproved, IInv
  <2> QED BY <2>1, <2>3, <2>4
<1> QED
  BY <1>3, <1>4, <1>5, <1>6, HookGoesOn DEF Confirm, history, IInv, TypeOK

LEMMA PromoteKeepsIInv ==
  ASSUME IInv, NEW s \in Session, Promote(s)
  PROVE  IInv'
<1> DEFINE b == call[s].found
           g == [session |-> s, granted |-> call[s].at, used |-> call[s].at]
<1>1. call[s] \in Call /\ b \in Ref \ Protected /\ call[s].at \in Time /\ HasApproved(s)
  BY DEF Promote, IInv, TypeOK, CallFits, CallIsApproved, Call
<1>2. g \in GrantFile /\ g.session = s /\ grants' = [grants EXCEPT ![b] = g]
  BY <1>1 DEF Promote, GrantFile
<1>3. standing' \in [Session \X Ref -> [granted : Time, used : Time] \cup {None}]
  BY <1>1 DEF Promote, IInv, TypeOK
<1> HIDE DEF g
<1>4. NamesAreUngranted'
  BY <1>1, <1>2, ProtectedIsBranch, RefsNameBranches DEF Promote, NamesAreUngranted, IInv, TypeOK
<1>5. GrantsAreApproved'
  BY <1>1, <1>2 DEF Promote, GrantsAreApproved, HasApproved, IInv, TypeOK
<1>6. call' = [call EXCEPT ![s] = call[s]] /\ grants' \in [Ref -> GrantFile \cup {None}]
  BY <1>1, <1>2 DEF Promote, IInv, TypeOK
<1> QED
  BY <1>1, <1>3, <1>4, <1>5, <1>6, HookGoesOn DEF Promote, Goto, IInv, TypeOK

LEMMA HeadKeepsIInv ==
  ASSUME IInv, NEW s \in Session, SeeHead(s)
  PROVE  IInv'
<1> DEFINE k == [call[s] EXCEPT !.found = head]
<1>1. k \in Call
  <2>1. call[s] \in Call /\ head \in Ref \cup {None}
    BY RefsNameBranches DEF IInv, TypeOK
  <2> QED BY <2>1 DEF Call
<1>2. call' = [call EXCEPT ![s] = k]
  BY DEF SeeHead, IInv, TypeOK
<1>3. NamesAreUngranted' /\ GrantsAreApproved'
  BY DEF SeeHead, store, history, NamesAreUngranted, GrantsAreApproved, HasApproved, IInv
<1> HIDE DEF k
<1> QED BY <1>1, <1>2, <1>3, HookGoesOn DEF SeeHead, Goto, store, history, IInv, TypeOK

LEMMA InvalidateKeepsIInv ==
  ASSUME IInv, NEW s \in Session, Invalidate(s)
  PROVE  IInv'
<1>1. /\ grants' \in [Ref -> GrantFile \cup {None}]
      /\ \A b \in Ref : grants'[b] \in {grants[b], None}
  BY DEF Invalidate, IInv, TypeOK
<1>2. standing' \in [Session \X Ref -> [granted : Time, used : Time] \cup {None}]
  BY DEF Invalidate, IInv, TypeOK
<1>3. NamesAreUngranted' /\ GrantsAreApproved'
  BY <1>1, ProtectedIsBranch, RefsNameBranches
  DEF Invalidate, NamesAreUngranted, GrantsAreApproved, HasApproved, IInv
<1>4. call[s] \in Call /\ call' = [call EXCEPT ![s] = call[s]]
  BY DEF Invalidate, IInv, TypeOK
<1> QED BY <1>1, <1>2, <1>3, <1>4, HookGoesOn DEF Invalidate, Goto, IInv, TypeOK

LEMMA PruneKeepsIInv ==
  ASSUME IInv, NEW s \in Session, Prune(s)
  PROVE  IInv'
<1>1. /\ pending' \in [Session \X Push -> PendingFile \cup {None}]
      /\ grants' \in [Ref -> GrantFile \cup {None}]
      /\ NamesAreUngranted' /\ GrantsAreApproved'
  BY PruneIsHarmless DEF Prune, history
<1> QED BY <1>1, NoCallIsTyped, HookGoesOn DEF Prune, Goto, history, IInv, TypeOK

----------------------------------------------------------------------------
\* `clear`, the other terminals and time.  None of them touches a call.

LEMMA CallsStand ==
  ASSUME IInv, TypeOK', UNCHANGED <<pc, approved>>, \A s \in Session : AsBefore(s),
         \A b \in Ref : grants'[b] \in {grants[b], None},
         \A f \in Session \X Push : pending'[f] \in {pending[f], None}
  PROVE  IInv'
<1>1. ASSUME NEW s \in Session PROVE (CallFits(s) /\ CallIsApproved(s))'
  BY DEF AsBefore, IInv, CallFits, CallIsApproved, HasApproved
<1>2. NamesAreUngranted'
  BY ProtectedIsBranch, RefsNameBranches DEF NamesAreUngranted, IInv
<1>3. GrantsAreApproved'
  BY DEF GrantsAreApproved, HasApproved, IInv
<1> QED BY <1>1, <1>2, <1>3 DEF IInv

LEMMA SurroundingsKeepIInv ==
  ASSUME IInv, ClearGrants \/ ClearPending \/ SwitchUnseen \/ Tick
  PROVE  IInv'
<1> USE DEF IInv
<1>1. CASE ClearGrants
  <2>1. budget' \in 0..MaxCalls
    BY <1>1, TimesAreNat DEF ClearGrants, Spend, TypeOK
  <2>2. TypeOK'
    BY <1>1, <2>1 DEF ClearGrants, TypeOK
  <2> QED BY <1>1, <2>2, CallsStand DEF AsBefore, ClearGrants
<1>2. CASE ClearPending
  <2>1. TypeOK'
    BY <1>2 DEF ClearPending, TypeOK
  <2> QED BY <1>2, <2>1, CallsStand DEF AsBefore, ClearPending
<1>3. CASE SwitchUnseen
  <2>1. \A q \in Session : call'[q] \in Call /\ AsBefore(q)
    <3>1. call' = CallsOnSwitch(head')
      BY <1>3 DEF SwitchUnseen
    <3> QED BY <3>1, SwitchOnlyNotes DEF AsBefore
  <2>2. call' \in [Session -> Call]
    BY <1>3, <2>1 DEF SwitchUnseen, CallsOnSwitch
  <2>3. TypeOK'
    BY <1>3, <2>2, TimesAreNat DEF SwitchUnseen, Spend, store, history, TypeOK
  <2> QED BY <1>3, <2>1, <2>3, CallsStand DEF SwitchUnseen, store, history
<1>4. CASE Tick
  <2>1. clock' \in Time
    BY <1>4, TimesAreNat DEF Tick, TypeOK, Time
  <2>2. TypeOK'
    BY <1>4, <2>1 DEF Tick, store, history, TypeOK
  <2> QED BY <1>4, <2>2, CallsStand DEF AsBefore, Tick, store, history
<1> QED BY <1>1, <1>2, <1>3, <1>4

LEMMA StepKeepsIInv == IInv /\ [Next]_vars => IInv'
<1> SUFFICES ASSUME IInv, [Next]_vars PROVE IInv'
  OBVIOUS
<1>1. CASE UNCHANGED vars
  <2>1. TypeOK'
    BY <1>1 DEF vars, IInv, TypeOK
  <2> QED BY <1>1, <2>1, CallsStand DEF AsBefore, vars
<1>2. CASE Next
  BY <1>2, GateKeepsIInv, BeginSwitchKeepsIInv, LookupKeepsIInv, ReplayKeepsIInv,
     MissKeepsIInv, PromptKeepsIInv, RunPushKeepsIInv, RunSwitchKeepsIInv, ConfirmKeepsIInv, PromoteKeepsIInv,
     HeadKeepsIInv, InvalidateKeepsIInv, PruneKeepsIInv, SurroundingsKeepIInv
  DEF Next
<1> QED BY <1>1, <1>2

LEMMA IInvHolds == Spec => []IInv
  BY InitEstablishesIInv, StepKeepsIInv, PTL DEF Spec

----------------------------------------------------------------------------
\* Every variable keeps its type, however the processes interleave.
THEOREM TypeCorrect == Spec => []TypeOK
<1>1. IInv => TypeOK
  BY DEF IInv
<1> QED BY <1>1, IInvHolds, PTL

\* A session's first ask happens: whoever holds a grant, or is about to push
\* under one, has approved a prompt, whatever was read, overwritten or swept
\* in between.
THEOREM FirstAskHappensHolds == Spec => []FirstAskHappens
<1>1. IInv => FirstAskHappens
  BY DEF IInv, CallIsApproved, GrantsAreApproved, FirstAskHappens
<1> QED BY <1>1, IInvHolds, PTL

----------------------------------------------------------------------------
\* That a replay is backed.  A grant's file says what its session was granted;
\* a process about to replay one has read just that; and a clear that no hook
\* has disturbed has left no grant.

Backs(s, b, g) == standing[<<s, b>>] = [granted |-> g.granted, used |-> g.used]

GrantsAreBacked == \A b \in Ref : grants[b] # None => Backs(grants[b].session, b, grants[b])

ReplayHasRead(s) ==
  pc[s] = "replay" =>
    /\ Backs(s, call[s].scope, call[s].seen)
    /\ call[s].at - call[s].seen.used < Idle
    /\ call[s].at - call[s].seen.granted < MaxAge

ClearIsThorough == clearing /\ ~racing => \A b \in Ref : grants[b] = None

BInv == GrantsAreBacked /\ (\A s \in Session : ReplayHasRead(s)) /\ ClearIsThorough

\* A step that writes no grant and withdraws nothing that a grant or a replay
\* rests on.
LEMMA BackingStands ==
  ASSUME IInv, BInv,
         \A b \in Ref : grants'[b] \in {grants[b], None},
         \A b \in Ref : grants'[b] # None =>
           standing'[<<grants[b].session, b>>] = standing[<<grants[b].session, b>>],
         \A s \in Session : pc'[s] = "replay" =>
           /\ pc[s] = "replay" /\ AsBefore(s)
           /\ standing'[<<s, call[s].scope>>] = standing[<<s, call[s].scope>>],
         clearing' /\ ~racing' => clearing /\ ~racing
  PROVE  BInv'
<1>1. GrantsAreBacked'
  BY DEF BInv, GrantsAreBacked, Backs
<1>2. ASSUME NEW s \in Session PROVE ReplayHasRead(s)'
  <2> SUFFICES ASSUME pc'[s] = "replay" PROVE ReplayHasRead(s)'
    BY DEF ReplayHasRead
  <2>1. /\ call'[s].scope = call[s].scope /\ call'[s].seen = call[s].seen
        /\ call'[s].at = call[s].at
        /\ standing'[<<s, call[s].scope>>] = standing[<<s, call[s].scope>>]
    BY DEF AsBefore
  <2>2. ReplayHasRead(s) /\ pc[s] = "replay"
    BY DEF BInv
  <2> QED BY <2>1, <2>2 DEF ReplayHasRead, Backs
<1>3. ClearIsThorough'
  BY DEF BInv, ClearIsThorough
<1> QED BY <1>1, <1>2, <1>3 DEF BInv

LEMMA LookupIsBacked ==
  ASSUME IInv, BInv, NEW s \in Session, Lookup(s)
  PROVE  BInv'
<1> DEFINE g == grants'[call[s].scope]
           k == [[call[s] EXCEPT !.seen = g] EXCEPT !.at = clock]
<1>1. call[s] \in Call /\ call[s].scope \in Ref
  BY DEF Lookup, IInv, TypeOK, CallFits
<1>2. /\ grants' \in [Ref -> GrantFile \cup {None}]
      /\ \A b \in Ref : grants'[b] \in {grants[b], None}
  BY PruneIsHarmless DEF Lookup, history
<1>3. /\ k.seen = g /\ k.scope = call[s].scope /\ k.at = clock
      /\ call' = [call EXCEPT ![s] = k]
  BY <1>1, <1>2 DEF Lookup, Call, IInv, TypeOK
<1>4. pc' = [pc EXCEPT ![s] = IF IsLive(g, s, clock) THEN "replay" ELSE "miss"]
  BY DEF Lookup, Goto
<1>5. UNCHANGED <<standing, clearing, racing>>
  BY DEF Lookup, history
<1>6. IsLive(g, s, clock) => /\ g.session = s /\ Backs(s, call[s].scope, g)
                             /\ clock - g.used < Idle /\ clock - g.granted < MaxAge
  BY <1>1, <1>2 DEF IsLive, BInv, GrantsAreBacked
<1> HIDE DEF k, g
<1>7. GrantsAreBacked' /\ ClearIsThorough'
  BY <1>2, <1>5 DEF BInv, GrantsAreBacked, ClearIsThorough, Backs
<1>8. ASSUME NEW q \in Session PROVE ReplayHasRead(q)'
  <2>1. CASE q = s
    BY <1>3, <1>4, <1>5, <1>6, <2>1 DEF ReplayHasRead, Backs, IInv, TypeOK
  <2>2. CASE q # s
    BY <1>3, <1>4, <1>5, <2>2 DEF BInv, ReplayHasRead, Backs, IInv, TypeOK
  <2> QED BY <2>1, <2>2
<1> QED BY <1>7, <1>8 DEF BInv

\* The two steps that write a grant write what the session is then granted.
LEMMA WriteIsBacked ==
  ASSUME IInv, NEW s \in Session, NEW b \in Ref, NEW g, NEW a, BInv,
         grants' = [grants EXCEPT ![b] = g], g.session = s,
         a = [granted |-> g.granted, used |-> g.used],
         standing' = [standing EXCEPT ![<<s, b>>] = a], racing' = clearing, clearing' = clearing,
         \A q \in Session : pc'[q] = "replay" =>
           q # s /\ pc[q] = "replay" /\ call'[q] = call[q] /\ call[q].scope \in Ref
  PROVE  BInv'
<1>1. /\ \A q \in Session, c \in Ref : <<q, c>> # <<s, b>> =>
           standing'[<<q, c>>] = standing[<<q, c>>]
      /\ standing'[<<s, b>>] = a
  BY DEF IInv, TypeOK
<1>2. GrantsAreBacked'
  <2>1. ASSUME NEW c \in Ref, grants'[c] # None
        PROVE  standing'[<<grants'[c].session, c>>]
                 = [granted |-> grants'[c].granted, used |-> grants'[c].used]
    <3>1. CASE c = b
      BY <1>1, <3>1 DEF IInv, TypeOK
    <3>2. CASE c # b
      <4>1. grants'[c] = grants[c] /\ grants[c] # None /\ grants[c].session \in Session
        BY <2>1, <3>2 DEF IInv, TypeOK, GrantFile
      <4>2. <<grants[c].session, c>> # <<s, b>>
        BY <3>2
      <4> QED BY <1>1, <4>1, <4>2 DEF BInv, GrantsAreBacked, Backs
    <3> QED BY <3>1, <3>2
  <2> QED BY <2>1 DEF GrantsAreBacked, Backs
<1>3. ASSUME NEW q \in Session PROVE ReplayHasRead(q)'
  BY <1>1 DEF BInv, ReplayHasRead, Backs
<1>4. ClearIsThorough'
  BY DEF ClearIsThorough
<1> QED BY <1>2, <1>3, <1>4 DEF BInv

LEMMA GrantWritesAreBacked ==
  ASSUME IInv, BInv, NEW s \in Session, Replay(s) \/ Promote(s)
  PROVE  BInv'
<1>1. \A q \in Session : pc'[q] = "replay" =>
        q # s /\ pc[q] = "replay" /\ call'[q] = call[q] /\ call[q].scope \in Ref
  BY DEF Replay, Promote, Goto, IInv, TypeOK, CallFits
<1>2. CASE Replay(s)
  <2> DEFINE b == call[s].scope
             g == [call[s].seen EXCEPT !.used = call[s].at]
             a == [standing[<<s, b>>] EXCEPT !.used = call[s].at]
  <2>1. /\ b \in Ref /\ call[s].seen \in GrantFile /\ call[s].seen.session = s
        /\ call[s].at \in Time
    BY <1>2 DEF Replay, IInv, TypeOK, CallFits, Call
  <2>2. standing[<<s, b>>] = [granted |-> call[s].seen.granted, used |-> call[s].seen.used]
    BY <1>2 DEF Replay, BInv, ReplayHasRead, Backs
  <2>3. g.session = s /\ a = [granted |-> g.granted, used |-> g.used]
    BY <2>1, <2>2 DEF GrantFile
  <2>6. standing[<<s, b>>] # None
    BY <2>1, <2>2, NoneIsNoRecord DEF GrantFile
  <2>4. standing' = [standing EXCEPT ![<<s, b>>] = a]
    BY <1>2, <2>6 DEF Replay
  <2>5. grants' = [grants EXCEPT ![b] = g] /\ racing' = clearing /\ clearing' = clearing
    BY <1>2 DEF Replay
  <2> HIDE DEF a, b, g
  <2> QED BY <1>1, <2>1, <2>3, <2>4, <2>5, WriteIsBacked DEF b
<1>3. CASE Promote(s)
  <2> DEFINE b == call[s].found
             g == [session |-> s, granted |-> call[s].at, used |-> call[s].at]
             a == [granted |-> call[s].at, used |-> call[s].at]
  <2>1. b \in Ref
    BY <1>3 DEF Promote, IInv, CallFits
  <2>2. g.session = s /\ a = [granted |-> g.granted, used |-> g.used]
    OBVIOUS
  <2>3. /\ grants' = [grants EXCEPT ![b] = g] /\ standing' = [standing EXCEPT ![<<s, b>>] = a]
        /\ racing' = clearing /\ clearing' = clearing
    BY <1>3 DEF Promote
  <2> HIDE DEF a, b, g
  <2> QED BY <1>1, <2>1, <2>2, <2>3, WriteIsBacked
<1> QED BY <1>2, <1>3

\* An observed switch withdraws what the other branches were granted, and
\* removes their grants, unless a hook stands between its read and its write.
LEMMA InvalidateIsBacked ==
  ASSUME IInv, BInv, NEW s \in Session, Invalidate(s)
  PROVE  BInv'
<1>1. \A b \in Ref : grants'[b] \in {grants[b], None}
  BY DEF Invalidate
<1>2. ASSUME NEW b \in Ref, grants'[b] # None
      PROVE  standing'[<<grants[b].session, b>>] = standing[<<grants[b].session, b>>]
  <2>1. grants[b] # None /\ b = call[s].found /\ grants[b].session \in Session
    BY <1>2 DEF Invalidate, IInv, TypeOK, GrantFile
  <2>2. <<grants[b].session, b>> \in Session \X Ref /\ <<grants[b].session, b>>[2] = b
    BY <2>1
  <2> QED BY <2>1, <2>2 DEF Invalidate
<1>3. ASSUME NEW q \in Session, pc'[q] = "replay"
      PROVE  /\ pc[q] = "replay" /\ call'[q] = call[q]
             /\ standing'[<<q, call[q].scope>>] = standing[<<q, call[q].scope>>]
  <2>1. pc[q] = "replay"
    BY <1>3 DEF Invalidate, Goto, IInv, TypeOK
  <2>2. Writing # {}
    BY <2>1 DEF Writing
  <2> QED BY <2>1, <2>2 DEF Invalidate
<1>4. clearing' /\ ~racing' => clearing /\ ~racing
  BY DEF Invalidate
<1> QED BY <1>1, <1>2, <1>3, <1>4, BackingStands DEF AsBefore

LEMMA ClearGrantsIsBacked ==
  ASSUME IInv, BInv, ClearGrants
  PROVE  BInv'
<1>1. GrantsAreBacked' /\ ClearIsThorough'
  BY DEF ClearGrants, GrantsAreBacked, ClearIsThorough
<1>2. \A q \in Session : ReplayHasRead(q)'
  BY DEF ClearGrants, BInv, ReplayHasRead, Backs
<1> QED BY <1>1, <1>2 DEF BInv

\* A clear that ends withdraws every approval only when no hook has raced it,
\* and then it has left no grant and nobody is about to replay one.
LEMMA ClearPendingIsBacked ==
  ASSUME IInv, BInv, ClearPending
  PROVE  BInv'
<1>1. CASE racing \/ Writing # {}
  BY <1>1, BackingStands DEF AsBefore, ClearPending
<1>2. CASE ~racing /\ Writing = {}
  <2>1. \A b \in Ref : grants'[b] = None
    BY <1>2 DEF ClearPending, BInv, ClearIsThorough
  <2>2. \A q \in Session : pc'[q] # "replay"
    BY <1>2 DEF ClearPending, Writing
  <2>3. ~clearing'
    BY DEF ClearPending
  <2> QED BY <2>1, <2>2, <2>3 DEF BInv, GrantsAreBacked, ReplayHasRead, ClearIsThorough
<1> QED BY <1>1, <1>2

LEMMA StepKeepsBInv == IInv /\ BInv /\ [Next]_vars => BInv'
<1> SUFFICES ASSUME IInv, BInv, [Next]_vars PROVE BInv'
  OBVIOUS
<1>1. CASE UNCHANGED vars
  BY <1>1, BackingStands DEF AsBefore, vars
<1>2. ASSUME NEW s \in Session, NEW c \in Push, NEW prompts \in BOOLEAN, Gate(s, c, prompts)
      PROVE  BInv'
  BY <1>2, BackingStands DEF AsBefore, Gate, Goto, store, history, IInv, TypeOK
<1>3. ASSUME NEW s \in Session, NEW b \in Branch \cup {None}, BeginSwitch(s, b)
      PROVE  BInv'
  BY <1>3, BackingStands DEF AsBefore, BeginSwitch, Goto, store, history, IInv, TypeOK
<1>4. ASSUME NEW s \in Session, Miss(s) PROVE BInv'
  BY <1>4, BackingStands DEF AsBefore, Miss, Goto, history, IInv, TypeOK
<1>5. ASSUME NEW s \in Session, Approve(s) \/ Deny(s) \/ Bypass(s) PROVE BInv'
  BY <1>5, BackingStands DEF AsBefore, Approve, Deny, Bypass, Goto, store, history, IInv, TypeOK
<1>6. ASSUME NEW s \in Session, RunPush(s) PROVE BInv'
  BY <1>6, BackingStands DEF AsBefore, RunPush, Goto, store, history, IInv, TypeOK
<1>11. ASSUME NEW s \in Session, RunSwitch(s) PROVE BInv'
  <2>1. \A q \in Session : pc'[q] = "replay" => pc[q] = "replay" /\ q # s
    BY <1>11 DEF RunSwitch, Goto, IInv, TypeOK
  <2>2. \A q \in Session \ {s} : AsBefore(q)
    BY <1>11, SwitchIsNoted DEF RunSwitch
  <2> QED BY <1>11, <2>1, <2>2, BackingStands DEF RunSwitch, store, history
<1>7. ASSUME NEW s \in Session, Confirm(s) PROVE BInv'
  BY <1>7, BackingStands DEF AsBefore, Confirm, Goto, history, IInv, TypeOK
<1>8. ASSUME NEW s \in Session, SeeHead(s) PROVE BInv'
  BY <1>8, BackingStands DEF AsBefore, SeeHead, Goto, store, history, IInv, TypeOK
<1>9. ASSUME NEW s \in Session, Prune(s) PROVE BInv'
  <2>1. \A b \in Ref : grants'[b] \in {grants[b], None}
    BY <1>9 DEF Prune, PruneStore
  <2> QED BY <1>9, <2>1, BackingStands DEF AsBefore, Prune, Goto, history, IInv, TypeOK
<1>10. CASE Tick
  BY <1>10, BackingStands DEF AsBefore, Tick, store, history
<1>12. CASE SwitchUnseen
  BY <1>12, SwitchIsNoted, BackingStands DEF SwitchUnseen, store, history
<1> QED
  BY <1>1, <1>2, <1>3, <1>4, <1>5, <1>6, <1>7, <1>8, <1>9, <1>10, <1>11, <1>12,
     LookupIsBacked,
     GrantWritesAreBacked, InvalidateIsBacked, ClearGrantsIsBacked, ClearPendingIsBacked
  DEF Next

----------------------------------------------------------------------------
\* What a push that is allowed unasked still knows of its scope when it runs.

ScopeFits(s) ==
  Resolved(s) =>
    /\ call[s].cmd # None => call[s].scope \notin Protected
    /\ call[s].cmd # None /\ Target[call[s].cmd] # None => call[s].scope = Target[call[s].cmd]
    /\ call[s].cmd # None /\ Target[call[s].cmd] = None => call[s].scope = head \/ call[s].moved

\* A step that resolves no scope and leaves HEAD alone.
LEMMA ScopesStand ==
  ASSUME \A s \in Session : ScopeFits(s), head' = head,
         \A s \in Session : Resolved(s)' =>
           /\ Resolved(s) /\ call'[s].cmd = call[s].cmd
           /\ call'[s].scope = call[s].scope /\ call'[s].moved = call[s].moved
  PROVE  \A s \in Session : ScopeFits(s)'
BY DEF ScopeFits

\* HEAD is switched under the calls of Q.
LEMMA ScopesFollowHead ==
  ASSUME TypeOK, NEW Q \in SUBSET Session, NEW b,
         \A s \in Session : ScopeFits(s), head' = b,
         \A s \in Q : call'[s] = CallsOnSwitch(b)[s] /\ pc'[s] = pc[s],
         \A s \in Session \ Q : ~Resolved(s)'
  PROVE  \A s \in Session : ScopeFits(s)'
<1> SUFFICES ASSUME NEW s \in Q PROVE ScopeFits(s)'
  BY DEF ScopeFits
<1>1. /\ call'[s].cmd = call[s].cmd /\ call'[s].scope = call[s].scope
      /\ call'[s].moved = (call[s].moved \/ (Resolved(s) /\ b # head))
  BY SwitchOnlyNotes
<1>2. Resolved(s)' => Resolved(s)
  BY <1>1 DEF Resolved
<1> QED BY <1>1, <1>2 DEF ScopeFits

LEMMA StepKeepsScopes ==
  ASSUME IInv, \A s \in Session : ScopeFits(s), [Next]_vars
  PROVE  \A s \in Session : ScopeFits(s)'
<1>0. TypeOK
  BY DEF IInv
<1>1. CASE UNCHANGED vars
  BY <1>1, ScopesStand DEF vars, Resolved
<1>2. ASSUME NEW s \in Session, NEW c \in Push, NEW prompts \in BOOLEAN, Gate(s, c, prompts)
      PROVE  \A q \in Session : ScopeFits(q)'
  <2>1. /\ call'[s].cmd = c /\ call'[s].scope = ResolveScope(c) /\ head' = head
        /\ \A q \in Session \ {s} : call'[q] = call[q] /\ pc'[q] = pc[q]
    BY <1>0, <1>2 DEF Gate, Goto, TypeOK, NoCall
  <2>2. ResolveScope(c) # None => /\ ResolveScope(c) \notin Protected
                                  /\ Target[c] # None => ResolveScope(c) = Target[c]
                                  /\ Target[c] = None => ResolveScope(c) = head
    BY DEF ResolveScope
  <2>3. ScopeFits(s)'
    BY <2>1, <2>2 DEF ScopeFits, Resolved
  <2> QED BY <2>1, <2>3 DEF ScopeFits, Resolved
<1>3. ASSUME NEW s \in Session, RunSwitch(s) PROVE \A q \in Session : ScopeFits(q)'
  <2>1. /\ \A q \in Session \ {s} : /\ call'[q] = CallsOnSwitch(call[s].to)[q]
                                   /\ pc'[q] = pc[q]
        /\ head' = call[s].to /\ pc'[s] = "head"
    BY <1>0, <1>3 DEF RunSwitch, Goto, CallsOnSwitch, TypeOK
  <2>2. \A q \in Session \ (Session \ {s}) : ~Resolved(q)'
    BY <2>1 DEF Resolved
  <2> QED BY <1>0, <2>1, <2>2, ScopesFollowHead
<1>4. CASE SwitchUnseen
  BY <1>0, <1>4, ScopesFollowHead DEF SwitchUnseen
<1>5. ASSUME NEW s \in Session, \/ Approve(s) \/ Deny(s) \/ Bypass(s)
                                \/ \E b \in Branch \cup {None} : BeginSwitch(s, b)
      PROVE  \A q \in Session : ScopeFits(q)'
  <2>1. ~Resolved(s)' /\ head' = head
    <3>1. CASE Approve(s)
      <4>1. call'[s] = [NoCall EXCEPT !.cmd = call[s].cmd, !.prompts = TRUE]
        BY <1>0, <3>1 DEF Approve, TypeOK
      <4>2. call'[s].scope = None
        BY <4>1 DEF NoCall
      <4> QED BY <3>1, <4>2 DEF Approve, Resolved
    <3>2. CASE Deny(s)
      BY <1>0, <3>2 DEF Deny, Goto, Resolved, TypeOK
    <3>3. CASE Bypass(s)
      <4>1. call'[s] = [NoCall EXCEPT !.cmd = call[s].cmd] /\ head' = head
        BY <1>0, <3>3 DEF Bypass, TypeOK
      <4>2. call'[s].scope = None
        BY <4>1 DEF NoCall
      <4> QED BY <4>1, <4>2 DEF Resolved
    <3>4. ASSUME NEW b \in Branch \cup {None}, BeginSwitch(s, b)
          PROVE  ~Resolved(s)' /\ head' = head
      <4>1. call'[s] = [NoCall EXCEPT !.to = b]
        BY <1>0, <3>4 DEF BeginSwitch, TypeOK
      <4>2. call'[s].scope = None
        BY <4>1 DEF NoCall
      <4> QED BY <3>4, <4>2 DEF BeginSwitch, Resolved
    <3> QED BY <1>5, <3>1, <3>2, <3>3, <3>4
  <2>2. \A q \in Session \ {s} : call'[q] = call[q] /\ pc'[q] = pc[q]
    BY <1>0, <1>5 DEF Approve, Deny, Bypass, BeginSwitch, Goto, TypeOK
  <2> QED BY <2>1, <2>2, ScopesStand DEF Resolved
<1>6. ASSUME NEW s \in Session, Lookup(s) PROVE \A q \in Session : ScopeFits(q)'
  <2>1. /\ call'[s].cmd = call[s].cmd /\ call'[s].scope = call[s].scope
        /\ call'[s].moved = call[s].moved /\ head' = head /\ pc[s] = "lookup"
        /\ \A q \in Session \ {s} : call'[q] = call[q] /\ pc'[q] = pc[q]
    BY <1>0, <1>6 DEF Lookup, Goto, TypeOK, Call
  <2> QED BY <2>1, ScopesStand DEF Resolved
<1>7. ASSUME NEW s \in Session, Replay(s) PROVE \A q \in Session : ScopeFits(q)'
  <2>1. /\ call'[s].cmd = call[s].cmd /\ call'[s].scope = call[s].scope
        /\ call'[s].moved = call[s].moved /\ head' = head /\ pc[s] = "replay"
        /\ \A q \in Session \ {s} : call'[q] = call[q] /\ pc'[q] = pc[q]
    BY <1>0, <1>7 DEF Replay, Goto, TypeOK, Call
  <2> QED BY <2>1, ScopesStand DEF Resolved
<1>8. ASSUME NEW s \in Session,
             \/ Miss(s) \/ RunPush(s) \/ Confirm(s) \/ Promote(s) \/ SeeHead(s)
             \/ Invalidate(s) \/ Prune(s)
      PROVE  \A q \in Session : ScopeFits(q)'
  <2>1. pc'[s] \in {"ask", "confirm", "promote", "prune", "invalidate", "idle"} /\ head' = head
    BY <1>0, <1>8
    DEF Miss, RunPush, Confirm, Promote, SeeHead, Invalidate, Prune, Goto, store, history, TypeOK
  <2>2. \A q \in Session \ {s} : call'[q] = call[q] /\ pc'[q] = pc[q]
    BY <1>0, <1>8
    DEF Miss, RunPush, Confirm, Promote, SeeHead, Invalidate, Prune, Goto, store, history, TypeOK
  <2>3. ~Resolved(s)'
    BY <2>1 DEF Resolved
  <2> QED BY <2>1, <2>2, <2>3, ScopesStand DEF Resolved
<1>9. CASE ClearGrants \/ ClearPending \/ Tick
  BY <1>9, ScopesStand DEF ClearGrants, ClearPending, Tick, store, history, Resolved
<1> QED BY <1>1, <1>2, <1>3, <1>4, <1>5, <1>6, <1>7, <1>8, <1>9 DEF Next

ScopesFit == \A s \in Session : ScopeFits(s)

LEMMA ScopesFitHolds == Spec => []ScopesFit
<1>1. Init => ScopesFit
  BY DEF Init, ScopesFit, ScopeFits, Resolved
<1>2. IInv /\ ScopesFit /\ [Next]_vars => ScopesFit'
  BY StepKeepsScopes DEF ScopesFit
<1> QED BY <1>1, <1>2, IInvHolds, PTL DEF Spec

\* An unprompted push is backed: the approval it rests on is its own session's,
\* for its very scope, neither idle nor too old, and no observed switch and no
\* undisturbed clear has withdrawn it; and the branch that is then pushed is
\* that of the scope, unless HEAD was switched under a bare push.
THEOREM ReplayIsBackedHolds == Spec => []ReplayIsBacked
<1>1. Init => BInv
  BY DEF Init, BInv, GrantsAreBacked, ReplayHasRead, ClearIsThorough
<1>2. IInv /\ BInv /\ ScopesFit => ReplayIsBacked
  <2>1. ASSUME IInv, BInv, NEW s \in Session, pc[s] = "replay"
        PROVE  LET a == standing[<<s, call[s].scope>>]
               IN  a # None /\ call[s].at - a.used < Idle
                           /\ call[s].at - a.granted < MaxAge
    <3>1. call[s].seen \in GrantFile
      BY <2>1 DEF IInv, TypeOK, CallFits
    <3>2. /\ Backs(s, call[s].scope, call[s].seen)
          /\ call[s].at - call[s].seen.used < Idle
          /\ call[s].at - call[s].seen.granted < MaxAge
      BY <2>1 DEF BInv, ReplayHasRead
    <3> QED BY <3>1, <3>2, NoneIsNoRecord DEF Backs, GrantFile
  <2>2. ASSUME IInv, ScopesFit, NEW s \in Session, Unprompted(s)
        PROVE  Pushed(s) = Named[call[s].scope] \/ Diverted(s)
    <3>1. ScopeFits(s) /\ Resolved(s) /\ head \in Branch \cup {None}
      BY <2>2 DEF IInv, TypeOK, ScopesFit, Unprompted, Resolved
    <3> QED BY <2>2, <3>1, RefsNameBranches DEF ScopeFits, Unprompted, Pushed, Diverted
  <2> QED BY <2>1, <2>2 DEF ReplayIsBacked
<1> QED BY <1>1, <1>2, IInvHolds, ScopesFitHolds, StepKeepsBInv, PTL DEF Spec

\* No interleaving of hooks, switches and clears gives the name of a protected
\* branch a grant or a pending record, or lets a push go to one unprompted,
\* but by another text for it or a switch of HEAD under a bare push.
THEOREM ProtectedIsAskedHolds == Spec => []ProtectedIsAsked
<1>1. IInv /\ ScopesFit => ProtectedIsAsked
  <2> SUFFICES ASSUME IInv, ScopesFit, NEW s \in Session, Unprompted(s),
                      Pushed(s) \in Protected
               PROVE  /\ Target[call[s].cmd] \notin Branch
                      /\ Target[call[s].cmd] = None => Diverted(s)
    BY DEF IInv, ProtectedIsAsked
  <2>1. ScopeFits(s) /\ Resolved(s)
    BY DEF ScopesFit, Unprompted, Resolved
  <2>2. CASE Target[call[s].cmd] = None
    BY <2>1, <2>2, NoneIsNoRef, RefsNameBranches DEF ScopeFits, Unprompted, Pushed, Diverted
  <2>3. CASE Target[call[s].cmd] # None
    <3>1. call[s].scope = Target[call[s].cmd] /\ call[s].scope \notin Protected
      BY <2>1, <2>3 DEF ScopeFits, Unprompted
    <3> QED BY <2>3, <3>1, RefsNameBranches DEF Pushed
  <2> QED BY <2>2, <2>3
<1> QED BY <1>1, IInvHolds, ScopesFitHolds, PTL

----------------------------------------------------------------------------
\* Part 2: PluginBootstrap.


\* Any set of numbers that is not empty has a least one.
LEMMA LeastOf ==
  ASSUME NEW S \in SUBSET Nat, S # {}
  PROVE  \E n \in S : \A m \in S : n <= m
<1> DEFINE Before == OpToRel(<, Nat)
<1>1. IsWellFoundedOn(Before, Nat)
  BY NatLessThanWellFounded
<1>2. \A m, n \in Nat : m < n => <<m, n>> \in Before
  BY DEF OpToRel
<1> HIDE DEF Before
<1>3. PICK n \in S : \A m \in S : ~(<<m, n>> \in Before)
  BY <1>1, WFMin, Zenon
<1>4. ASSUME NEW m \in S PROVE n <= m
  <2>1. ~(m < n)
    BY <1>2, <1>3
  <2> QED BY <2>1
<1> QED BY <1>3, <1>4

Plugins == Cardinality(Plugin)

LEMMA PluginsAreNat == Plugins \in Nat
BY PluginsAreFinite, FS_CardinalityType DEF Plugins

\* The plugin next on the path.
After(q) == IF modules[q].kind = "link" THEN modules[q].to ELSE q

\* f is the path from p, cut at m.
IsPath(f, p, m) == f = [n \in 0..m |-> IF n = 0 THEN p ELSE After(f[n - 1])]

\* The path from p can be followed any number of steps.
LEMMA PathsExist ==
  ASSUME NEW p, NEW m \in Nat
  PROVE  \E f : IsPath(f, p, m)
<1> DEFINE S == {k \in Nat : ~ \E f : IsPath(f, p, k)}
<1>1. SUFFICES ASSUME S # {} PROVE FALSE
  OBVIOUS
<1>2. S \in SUBSET Nat
  OBVIOUS
<1>3. PICK k \in S : \A j \in S : k <= j
  BY <1>1, <1>2, LeastOf
<1>4. k # 0
  <2>1. IsPath([n \in 0..0 |-> p], p, 0)
    BY DEF IsPath
  <2> QED BY <2>1
<1>5. k \in Nat /\ k - 1 \in Nat /\ k - 1 \notin S
  BY <1>3, <1>4
<1>6. PICK f : IsPath(f, p, k - 1)
  BY <1>5
<1> DEFINE g == [n \in 0..k |-> IF n = k THEN After(f[k - 1]) ELSE f[n]]
<1>7. ASSUME NEW n \in 0..k
      PROVE  g[n] = IF n = 0 THEN p ELSE After(g[n - 1])
  <2>1. CASE n = k
    <3>1. g[n] = After(f[k - 1])
      BY <2>1
    <3>2. k - 1 \in 0..k /\ k - 1 # k
      BY <1>5
    <3>3. g[n - 1] = f[k - 1]
      BY <2>1, <3>2
    <3> QED BY <1>4, <2>1, <3>1, <3>3
  <2>2. CASE n # k
    <3>1. n \in 0..(k - 1)
      BY <2>2, <1>5
    <3>2. f[n] = IF n = 0 THEN p ELSE After(f[n - 1])
      BY <1>6, <3>1 DEF IsPath
    <3>3. g[n] = f[n]
      BY <2>2
    <3>4. n # 0 => n - 1 \in 0..k /\ n - 1 # k
      BY <3>1, <1>5
    <3>5. n # 0 => g[n - 1] = f[n - 1]
      BY <3>4
    <3> QED BY <3>2, <3>3, <3>5
  <2> QED BY <2>1, <2>2
<1>8. g = [n \in 0..k |-> IF n = 0 THEN p ELSE After(g[n - 1])]
  <2> DEFINE h == [n \in 0..k |-> IF n = 0 THEN p ELSE After(g[n - 1])]
  <2>1. \A n \in 0..k : g[n] = h[n]
    BY <1>7
  <2>2. DOMAIN g = 0..k /\ DOMAIN h = 0..k
    OBVIOUS
  <2>3. g = [n \in 0..k |-> g[n]] /\ h = [n \in 0..k |-> h[n]]
    OBVIOUS
  <2> HIDE DEF g, h
  <2>4. g = h
    BY <2>1, <2>3
  <2> QED BY <2>4 DEF h
<1>9. IsPath(g, p, k)
  BY <1>8 DEF IsPath
<1> QED BY <1>3, <1>9

\* What Path is.
LEMMA PathIs ==
  ASSUME NEW p
  PROVE  /\ Path(p)[0] = p
         /\ \A n \in 0..Plugins : n # 0 => Path(p)[n] = After(Path(p)[n - 1])
<1>1. Path(p) = CHOOSE f : IsPath(f, p, Plugins)
  BY DEF Path, IsPath, After, Plugins
<1>2. IsPath(Path(p), p, Plugins)
  BY <1>1, PluginsAreNat, PathsExist
<1> QED BY <1>2, PluginsAreNat DEF IsPath

----------------------------------------------------------------------------
\* A path that has come to its end stays there.
LEMMA PathRests ==
  ASSUME NEW p, NEW k \in 0..Plugins, After(Path(p)[k]) = Path(p)[k]
  PROVE  \A n \in k..Plugins : Path(p)[n] = Path(p)[k]
<1> DEFINE S == {n \in k..Plugins : Path(p)[n] # Path(p)[k]}
<1>1. SUFFICES ASSUME S # {} PROVE FALSE
  OBVIOUS
<1>2. S \in SUBSET Nat
  BY PluginsAreNat
<1>3. PICK n \in S : \A j \in S : n <= j
  BY <1>1, <1>2, LeastOf
<1>4. n # k /\ n \in k..Plugins /\ n \in Nat /\ k \in Nat /\ Plugins \in Nat
  BY <1>2, <1>3, PluginsAreNat
<1>5. n - 1 \in k..Plugins /\ n - 1 \notin S /\ n \in 0..Plugins /\ n # 0
  BY <1>3, <1>4
<1>6. Path(p)[n - 1] = Path(p)[k]
  BY <1>5
<1>7. Path(p)[n] = After(Path(p)[n - 1])
  BY <1>5, PathIs
<1> QED BY <1>3, <1>6, <1>7

----------------------------------------------------------------------------
\* The invariant, in parts.

\* Who is at work on a plugin's node_modules: a dispatcher that removed the old
\* ones, an npm that unpacks, an npm that is to begin.
At(h, p, places) == h \in Working /\ job[h].plugin = p /\ job[h].pc \in places
Refilled(p) == \E h \in Hook : At(h, p, {"link", "install"}) /\ job[h].stripped
Filled(p) == \E h \in Hook : At(h, p, {"unpack"})
Begun(p) == \E h \in Hook : At(h, p, {"install"})

\* There is a reason for whatever is not in order: what a plugin had and has
\* not is being given back, an unfinished tree is being unpacked, and only the
\* shell line is at work for one that never had anything, to install it; or
\* the plugin is hurt, or its package.json will have it installed again.
Sound(p) ==
  /\ modules[p] = Absent /\ p \in served => p \in hurt \/ Refilled(p)
  /\ modules[p].kind = "tree" /\ ~modules[p].whole => p \in hurt \/ Filled(p)
  /\ p \notin served =>
       /\ modules[p] = Absent
       /\ \A h \in Working : job[h].plugin = p => job[h].pc = "install" /\ ~job[h].dispatcher
       /\ p \in hurt \/ stamp[p] # want[p] \/ Begun(p)

\* The shell line only installs; package.json is never ahead.
ShellsInstall ==
  \A h \in Working : ~job[h].dispatcher => ~job[h].stripped /\ job[h].pc \in {"install", "unpack"}
StampsLag == \A p \in Plugin : stamp[p] # Nothing => stamp[p] <= want[p]

\* Links, and those about to be made, are to plugins that had something.
LinksAreServed == \A p \in Plugin : modules[p].kind = "link" => modules[p].to \in served
SiblingsAreServed ==
  \A h \in Working : job[h].pc \in {"remove", "link"} => job[h].sibling \in served

\* A process that found a sibling knows which.
SiblingsAreFound ==
  \A h \in Working : job[h].pc \in {"remove", "link"} => job[h].sibling \in Plugin

TypeInv == BootstrapTypeOK /\ SiblingsAreFound
BootInv ==
  /\ \A p \in Plugin : Sound(p)
  /\ ShellsInstall /\ StampsLag /\ LinksAreServed /\ SiblingsAreServed

----------------------------------------------------------------------------
\* Types.

\* A process that one of its steps ends, or moves on, of which the others know
\* nothing.
Moved(h, j) ==
  /\ job' \in [Hook -> Job \cup {Nothing}]
  /\ job'[h] = j
  /\ \A g \in Hook : g # h => job'[g] = job[g]

LEMMA JobMoves ==
  ASSUME BootstrapTypeOK, NEW h \in Hook, NEW j \in Job \cup {Nothing},
         job' = [job EXCEPT ![h] = j]
  PROVE  Moved(h, j)
BY DEF Moved, BootstrapTypeOK

\* The steps of a process, one by one.
Began(h, p, dispatcher) ==
  /\ job[h] = Nothing
  /\ \E j \in Job : /\ Moved(h, j)
                    /\ j.plugin = p /\ j.dispatcher = dispatcher /\ j.version = want[p]
                    /\ j.pc = IF dispatcher THEN "find" ELSE "install"
                    /\ j.stripped = FALSE

WentOn(h, next) ==
  \E j \in Job : /\ Moved(h, j)
                 /\ j.plugin = job[h].plugin /\ j.dispatcher = job[h].dispatcher
                 /\ j.version = job[h].version /\ j.sibling = job[h].sibling
                 /\ j.stripped = job[h].stripped /\ j.pc = next

LEMMA JobsBegin ==
  ASSUME BootstrapTypeOK, NEW h \in Hook, NEW p \in Plugin, NEW d \in BOOLEAN,
         Start(h, AJob(p, d, IF d THEN "find" ELSE "install"))
  PROVE  Began(h, p, d)
<1> DEFINE j == AJob(p, d, IF d THEN "find" ELSE "install")
<1>1. want[p] \in Version
  BY DEF BootstrapTypeOK
<1>2. j \in Job
  BY <1>1 DEF AJob, Job
<1>3. /\ j.plugin = p /\ j.dispatcher = d /\ j.version = want[p]
      /\ j.pc = IF d THEN "find" ELSE "install"
      /\ j.stripped = FALSE
  BY DEF AJob
<1>4. job[h] = Nothing /\ job' = [job EXCEPT ![h] = j]
  BY <1>3 DEF Start
<1> HIDE DEF j
<1>5. Moved(h, j)
  BY <1>2, <1>4, JobMoves
<1> QED BY <1>2, <1>3, <1>4, <1>5 DEF Began

LEMMA JobIs ==
  ASSUME BootstrapTypeOK, NEW h \in Hook, job[h] # Nothing
  PROVE  /\ job[h] \in Job /\ h \in Working
         /\ job[h].plugin \in Plugin /\ job[h].version \in Version
         /\ job[h].dispatcher \in BOOLEAN /\ job[h].stripped \in BOOLEAN
         /\ job[h].pc \in {"find", "remove", "link", "install", "unpack"}
BY DEF BootstrapTypeOK, Job, Working

LEMMA JobsGoOn ==
  ASSUME BootstrapTypeOK, NEW h \in Hook, job[h] # Nothing,
         NEW next \in {"find", "remove", "link", "install", "unpack"}, GoOn(h, next)
  PROVE  WentOn(h, next)
<1> DEFINE j == [job[h] EXCEPT !.pc = next]
<1>1. job[h] \in Job
  BY JobIs
<1>2. j \in Job
  BY <1>1 DEF Job
<1>3. /\ j.plugin = job[h].plugin /\ j.dispatcher = job[h].dispatcher
      /\ j.version = job[h].version /\ j.sibling = job[h].sibling
      /\ j.stripped = job[h].stripped /\ j.pc = next
  BY <1>1 DEF Job
<1>4. job' = [job EXCEPT ![h] = j]
  BY DEF GoOn
<1> HIDE DEF j
<1>5. Moved(h, j)
  BY <1>2, <1>4, JobMoves
<1> QED BY <1>2, <1>3, <1>5 DEF WentOn

FellBack(h) ==
  \E j \in Job : /\ Moved(h, j)
                 /\ j.plugin = job[h].plugin /\ j.dispatcher = job[h].dispatcher
                 /\ j.stripped = job[h].stripped /\ j.pc = "install"

LEMMA JobsFallBack ==
  ASSUME BootstrapTypeOK, NEW h \in Hook, job[h] # Nothing, Fallback(h)
  PROVE  FellBack(h)
<1> DEFINE j == [job[h] EXCEPT !.pc = "install", !.sibling = Nothing]
<1>1. job[h] \in Job
  BY JobIs
<1>2. j \in Job
  BY <1>1 DEF Job
<1>3. /\ j.plugin = job[h].plugin /\ j.dispatcher = job[h].dispatcher
      /\ j.stripped = job[h].stripped /\ j.pc = "install"
  BY <1>1 DEF Job
<1>4. job' = [job EXCEPT ![h] = j]
  BY DEF Fallback, BootstrapTypeOK
<1> HIDE DEF j
<1>5. Moved(h, j)
  BY <1>2, <1>4, JobMoves
<1> QED BY <1>2, <1>3, <1>5 DEF FellBack

LEMMA JobsEnd ==
  ASSUME BootstrapTypeOK, NEW h \in Hook, End(h)
  PROVE  Moved(h, Nothing)
BY JobMoves DEF End

\* What Find, Remove and Unpack change in their process.
Chose(h, q) ==
  \E j \in Job : /\ Moved(h, j)
                 /\ j.plugin = job[h].plugin /\ j.dispatcher = job[h].dispatcher
                 /\ j.version = job[h].version /\ j.sibling = q
                 /\ j.stripped = job[h].stripped /\ j.pc = "remove"

Stripped(h) ==
  \E j \in Job : /\ Moved(h, j)
                 /\ j.plugin = job[h].plugin /\ j.dispatcher = job[h].dispatcher
                 /\ j.version = job[h].version /\ j.sibling = job[h].sibling
                 /\ j.stripped = TRUE /\ j.pc = "link"

Unpacking(h) ==
  \E j \in Job : /\ Moved(h, j)
                 /\ j.plugin = job[h].plugin /\ j.dispatcher = job[h].dispatcher
                 /\ j.stripped = job[h].stripped /\ j.pc = "unpack"

LEMMA JobsChoose ==
  ASSUME BootstrapTypeOK, NEW h \in Hook, job[h] # Nothing, NEW q \in Plugin,
         job' = [job EXCEPT ![h].sibling = q, ![h].pc = "remove"]
  PROVE  Chose(h, q)
<1> DEFINE j == [job[h] EXCEPT !.sibling = q, !.pc = "remove"]
<1>1. job[h] \in Job
  BY JobIs
<1>2. j \in Job
  BY <1>1 DEF Job
<1>3. /\ j.plugin = job[h].plugin /\ j.dispatcher = job[h].dispatcher
      /\ j.version = job[h].version /\ j.sibling = q
      /\ j.stripped = job[h].stripped /\ j.pc = "remove"
  BY <1>1 DEF Job
<1>4. job' = [job EXCEPT ![h] = j]
  BY DEF BootstrapTypeOK
<1> HIDE DEF j
<1>5. Moved(h, j)
  BY <1>2, <1>4, JobMoves
<1> QED BY <1>2, <1>3, <1>5 DEF Chose

LEMMA JobsStrip ==
  ASSUME BootstrapTypeOK, NEW h \in Hook, job[h] # Nothing,
         job' = [job EXCEPT ![h].pc = "link", ![h].stripped = TRUE]
  PROVE  Stripped(h)
<1> DEFINE j == [job[h] EXCEPT !.pc = "link", !.stripped = TRUE]
<1>1. job[h] \in Job
  BY JobIs
<1>2. j \in Job
  BY <1>1 DEF Job
<1>3. /\ j.plugin = job[h].plugin /\ j.dispatcher = job[h].dispatcher
      /\ j.version = job[h].version /\ j.sibling = job[h].sibling
      /\ j.stripped = TRUE /\ j.pc = "link"
  BY <1>1 DEF Job
<1>4. job' = [job EXCEPT ![h] = j]
  BY DEF BootstrapTypeOK
<1> HIDE DEF j
<1>5. Moved(h, j)
  BY <1>2, <1>4, JobMoves
<1> QED BY <1>2, <1>3, <1>5 DEF Stripped

LEMMA JobsUnpack ==
  ASSUME BootstrapTypeOK, NEW h \in Hook, job[h] # Nothing, NEW v \in Version,
         job' = [job EXCEPT ![h].pc = "unpack", ![h].version = v]
  PROVE  Unpacking(h)
<1> DEFINE j == [job[h] EXCEPT !.pc = "unpack", !.version = v]
<1>1. job[h] \in Job
  BY JobIs
<1>2. j \in Job
  BY <1>1 DEF Job
<1>3. /\ j.plugin = job[h].plugin /\ j.dispatcher = job[h].dispatcher
      /\ j.stripped = job[h].stripped /\ j.pc = "unpack"
  BY <1>1 DEF Job
<1>4. job' = [job EXCEPT ![h] = j]
  BY DEF BootstrapTypeOK
<1> HIDE DEF j
<1>5. Moved(h, j)
  BY <1>2, <1>4, JobMoves
<1> QED BY <1>2, <1>3, <1>5 DEF Unpacking

\* What becomes of the process in each of its steps.
LEMMA ProcessSteps ==
  ASSUME TypeInv, NEW h \in Hook
  PROVE  /\ \A p \in Plugin : /\ Command(h, p) => Began(h, p, FALSE)
                              /\ Dispatch(h, p) => Began(h, p, TRUE)
         /\ Find(h) => \/ Fallback(h) /\ FellBack(h)
                       \/ /\ \E q \in Plugin \ {job[h].plugin} :
                               Installed(q) = job[h].version /\ Chose(h, q)
                          /\ UNCHANGED stamp
         /\ Remove(h) => \/ Exists(job[h].plugin) /\ Stripped(h)
                         \/ ~Exists(job[h].plugin) /\ WentOn(h, "link")
         /\ LinkFails(h) => Fallback(h) /\ FellBack(h)
         /\ Unpack(h) => Unpacking(h)
         /\ Link(h) \/ NothingToUnpack(h) \/ Unpacked(h) \/ InstallFails(h) \/ Kill(h) =>
              Moved(h, Nothing)
<1>0. BootstrapTypeOK
  BY DEF TypeInv
<1>1. ASSUME NEW p \in Plugin, Command(h, p) PROVE Began(h, p, FALSE)
  BY <1>0, <1>1, JobsBegin DEF Command
<1>2. ASSUME NEW p \in Plugin, Dispatch(h, p) PROVE Began(h, p, TRUE)
  BY <1>0, <1>2, JobsBegin DEF Dispatch
<1>3. Fallback(h) /\ job[h] # Nothing => FellBack(h)
  BY <1>0, JobsFallBack
<1>4. ASSUME Find(h), ~Fallback(h)
      PROVE  /\ \E q \in Plugin \ {job[h].plugin} :
                  Installed(q) = job[h].version /\ Chose(h, q)
             /\ UNCHANGED stamp
  <2>1. PICK q \in Plugin \ {job[h].plugin} :
          /\ Installed(q) = job[h].version
          /\ job' = [job EXCEPT ![h].sibling = q, ![h].pc = "remove"]
    BY <1>4 DEF Find
  <2>2. Chose(h, q)
    BY <1>0, <1>4, <2>1, JobsChoose DEF Find
  <2> QED BY <1>4, <2>1, <2>2 DEF Find
<1>5. Remove(h) => \/ Exists(job[h].plugin) /\ Stripped(h)
                   \/ ~Exists(job[h].plugin) /\ WentOn(h, "link")
  BY <1>0, JobsStrip, JobsGoOn DEF Remove
<1>6. ASSUME Unpack(h) PROVE Unpacking(h)
  <2>1. /\ job[h] # Nothing
        /\ stamp[job[h].plugin] \in Version /\ newest \in Version
    BY <1>0, <1>6, JobIs DEF Unpack, BootstrapTypeOK
  <2>2. stamp[job[h].plugin]..newest \subseteq Version
    BY <2>1, SomeVersion DEF Version
  <2> QED BY <1>0, <1>6, <2>1, <2>2, JobsUnpack DEF Unpack
<1>7. Link(h) \/ NothingToUnpack(h) \/ Unpacked(h) \/ InstallFails(h) \/ Kill(h) =>
        Moved(h, Nothing)
  BY <1>0, JobsEnd DEF Link, NothingToUnpack, Unpacked, InstallFails, Kill
<1>8. Find(h) \/ LinkFails(h) => job[h] # Nothing
  BY DEF Find, LinkFails
<1>9. LinkFails(h) => Fallback(h)
  BY DEF LinkFails
<1> QED BY <1>1, <1>2, <1>3, <1>4, <1>5, <1>6, <1>7, <1>8, <1>9

\* All but the jobs.
RestOK ==
  /\ want \in [Plugin -> Version]
  /\ newest \in Version
  /\ stamp \in [Plugin -> Version \cup {Nothing}]
  /\ modules \in [Plugin -> Modules]
  /\ hurt \subseteq Plugin

\* What may be in place of a plugin's node_modules.
LEMMA ModulesAre ==
  /\ Absent \in Modules
  /\ \A p \in Plugin : LinkTo(p) \in Modules
  /\ \A v \in Version \cup {Nothing} : \A w \in BOOLEAN : Tree(v, w) \in Modules
<1>1. Absent \in Modules
  BY DEF Modules
<1>2. \A p \in Plugin : LinkTo(p) \in Modules
  BY DEF Modules, LinkTo
<1>3. ASSUME NEW v \in Version \cup {Nothing}, NEW w \in BOOLEAN
      PROVE  Tree(v, w) \in Modules
  BY DEF Modules, Tree
<1> QED BY <1>1, <1>2, <1>3

LEMMA MovedIsTyped ==
  ASSUME TypeInv, NEW h \in Hook, NEW j, Moved(h, j),
         j = Nothing \/ (j.pc \in {"remove", "link"} => j.sibling \in Plugin)
  PROVE  job' \in [Hook -> Job \cup {Nothing}] /\ SiblingsAreFound'
BY DEF TypeInv, Moved, SiblingsAreFound, Working

LEMMA TypeStep ==
  ASSUME TypeInv, BootstrapNext
  PROVE  TypeInv'
<1> DEFINE JobOK == job \in [Hook -> Job \cup {Nothing}]
<1>1. BootstrapTypeOK /\ RestOK /\ JobOK /\ SiblingsAreFound
  BY DEF TypeInv, BootstrapTypeOK, RestOK
<1>2. SUFFICES RestOK' /\ JobOK' /\ SiblingsAreFound'
  <2>1. served' \subseteq Plugin
    BY DEF BootstrapNext, TypeInv, BootstrapTypeOK
  <2> QED BY <2>1 DEF TypeInv, BootstrapTypeOK, RestOK
<1> HIDE DEF JobOK
<1>3. ASSUME NEW h \in Hook, NEW p \in Plugin, Command(h, p)
      PROVE  RestOK' /\ JobOK' /\ SiblingsAreFound'
  <2>1. RestOK'
    BY <1>1, <1>3 DEF Command, registry, RestOK
  <2>2. Began(h, p, FALSE)
    BY <1>3, ProcessSteps
  <2>3. PICK j \in Job : Moved(h, j) /\ j.pc = "install"
    BY <2>2 DEF Began
  <2> QED BY <2>1, <2>3, MovedIsTyped DEF JobOK
<1>4. ASSUME NEW h \in Hook, NEW p \in Plugin, Dispatch(h, p)
      PROVE  RestOK' /\ JobOK' /\ SiblingsAreFound'
  <2>1. RestOK'
    BY <1>1, <1>4 DEF Dispatch, registry, RestOK
  <2>2. Began(h, p, TRUE)
    BY <1>4, ProcessSteps
  <2>3. PICK j \in Job : Moved(h, j) /\ j.pc = "find"
    BY <2>2 DEF Began
  <2> QED BY <2>1, <2>3, MovedIsTyped DEF JobOK
<1>5. ASSUME NEW h \in Hook, Find(h) PROVE RestOK' /\ JobOK' /\ SiblingsAreFound'
  <2>1. RestOK'
    BY <1>1, <1>5, JobIs, ProcessSteps DEF Find, Fallback, registry, RestOK
  <2>2. PICK j \in Job : Moved(h, j) /\ (j.pc = "install" \/ j.sibling \in Plugin)
    BY <1>5, ProcessSteps DEF FellBack, Chose
  <2> QED BY <2>1, <2>2, MovedIsTyped DEF JobOK
<1>6. ASSUME NEW h \in Hook, Remove(h) PROVE RestOK' /\ JobOK' /\ SiblingsAreFound'
  <2>1. job[h].sibling \in Plugin /\ job[h] # Nothing
    BY <1>1, <1>6 DEF Remove, SiblingsAreFound, Working
  <2>2. RestOK'
    BY <1>1, <1>6, JobIs, ModulesAre DEF Remove, registry, RestOK
  <2>3. PICK j \in Job : Moved(h, j) /\ j.sibling = job[h].sibling
    BY <1>6, ProcessSteps DEF WentOn, Stripped
  <2> QED BY <2>1, <2>2, <2>3, MovedIsTyped DEF JobOK
<1>7. ASSUME NEW h \in Hook, Link(h) PROVE RestOK' /\ JobOK' /\ SiblingsAreFound'
  <2>1. job[h].sibling \in Plugin /\ job[h] # Nothing
    BY <1>1, <1>7 DEF Link, SiblingsAreFound, Working
  <2>2. RestOK'
    BY <1>1, <1>7, <2>1, JobIs, ModulesAre DEF Link, registry, RestOK
  <2>3. Moved(h, Nothing)
    BY <1>7, ProcessSteps
  <2> QED BY <2>2, <2>3, MovedIsTyped DEF JobOK
<1>8. ASSUME NEW h \in Hook, LinkFails(h) PROVE RestOK' /\ JobOK' /\ SiblingsAreFound'
  <2>1. RestOK'
    BY <1>1, <1>8, JobIs DEF LinkFails, Fallback, registry, RestOK
  <2>2. PICK j \in Job : Moved(h, j) /\ j.pc = "install"
    BY <1>8, ProcessSteps DEF FellBack
  <2> QED BY <2>1, <2>2, MovedIsTyped DEF JobOK
<1>9. ASSUME NEW h \in Hook, Unpack(h) PROVE RestOK' /\ JobOK' /\ SiblingsAreFound'
  <2>1. stamp[job[h].plugin] \in Version
    BY <1>1, <1>9, JobIs DEF Unpack, RestOK
  <2>2. PICK shown \in Version \cup {Nothing} :
          modules' = [modules EXCEPT ![job[h].plugin] = Tree(shown, FALSE)]
    <3>1. stamp[job[h].plugin]..newest \subseteq Version
      BY <1>1, <2>1, SomeVersion DEF RestOK, Version
    <3> QED BY <1>9, <3>1 DEF Unpack
  <2>3. Tree(shown, FALSE) \in Modules
    BY <2>2, ModulesAre
  <2>4. RestOK'
    BY <1>1, <1>9, <2>2, <2>3 DEF Unpack, registry, RestOK
  <2>5. PICK j \in Job : Moved(h, j) /\ j.pc = "unpack"
    BY <1>9, ProcessSteps DEF Unpacking
  <2> QED BY <2>4, <2>5, MovedIsTyped DEF JobOK
<1>10. ASSUME NEW h \in Hook, NothingToUnpack(h)
       PROVE  RestOK' /\ JobOK' /\ SiblingsAreFound'
  <2>1. RestOK'
    <3>1. job[h].plugin \in Plugin
      BY <1>1, <1>10, JobIs DEF NothingToUnpack
    <3> QED BY <1>1, <1>10, <3>1 DEF NothingToUnpack, registry, RestOK
  <2>2. Moved(h, Nothing)
    BY <1>10, ProcessSteps
  <2> QED BY <2>1, <2>2, MovedIsTyped DEF JobOK
<1>11. ASSUME NEW h \in Hook, Unpacked(h) PROVE RestOK' /\ JobOK' /\ SiblingsAreFound'
  <2>1. Tree(job[h].version, TRUE) \in Modules
    BY <1>1, <1>11, JobIs, ModulesAre DEF Unpacked
  <2>2. RestOK'
    BY <1>1, <1>11, <2>1 DEF Unpacked, registry, RestOK
  <2>3. Moved(h, Nothing)
    BY <1>11, ProcessSteps
  <2> QED BY <2>2, <2>3, MovedIsTyped DEF JobOK
<1>12. ASSUME NEW h \in Hook, InstallFails(h) PROVE RestOK' /\ JobOK' /\ SiblingsAreFound'
  <2>1. job[h].plugin \in Plugin
    BY <1>1, <1>12, JobIs DEF InstallFails
  <2>2. RestOK'
    BY <1>1, <1>12, <2>1 DEF InstallFails, registry, RestOK
  <2>3. Moved(h, Nothing)
    BY <1>12, ProcessSteps
  <2> QED BY <2>2, <2>3, MovedIsTyped DEF JobOK
<1>13. ASSUME NEW h \in Hook, Kill(h) PROVE RestOK' /\ JobOK' /\ SiblingsAreFound'
  <2>1. RestOK'
    <3>1. job[h].plugin \in Plugin
      BY <1>1, <1>13, JobIs DEF Kill
    <3> QED BY <1>1, <1>13, <3>1 DEF Kill, registry, RestOK
  <2>2. Moved(h, Nothing)
    BY <1>13, ProcessSteps
  <2> QED BY <2>1, <2>2, MovedIsTyped DEF JobOK
<1>14. ASSUME NEW p \in Plugin, Update(p) PROVE RestOK' /\ JobOK' /\ SiblingsAreFound'
  <2>1. want[p] + 1 \in Version
    BY <1>1, <1>14, SomeVersion DEF Update, RestOK, Version
  <2> QED BY <1>1, <1>14, <2>1
          DEF Update, RestOK, JobOK, SiblingsAreFound, Working
<1>15. ASSUME Publish PROVE RestOK' /\ JobOK' /\ SiblingsAreFound'
  <2>1. newest + 1 \in Version
    BY <1>1, <1>15, SomeVersion DEF Publish, RestOK, Version
  <2> QED BY <1>1, <1>15, <2>1
          DEF Publish, RestOK, JobOK, SiblingsAreFound, Working
<1> QED BY <1>3, <1>4, <1>5, <1>6, <1>7, <1>8, <1>9, <1>10, <1>11, <1>12, <1>13, <1>14, <1>15
        DEF BootstrapNext

LEMMA TypesHold == BootstrapSpec => []TypeInv
<1>1. InitBootstrap => TypeInv
  <2> SUFFICES ASSUME InitBootstrap PROVE TypeInv
    OBVIOUS
  <2>1. want \in [Plugin -> Version] /\ newest \in Version
    BY SomeVersion DEF InitBootstrap, Version
  <2>2. modules \in [Plugin -> Modules]
    BY ModulesAre DEF InitBootstrap
  <2>3. SiblingsAreFound
    BY DEF InitBootstrap, SiblingsAreFound, Working
  <2> QED BY <2>1, <2>2, <2>3 DEF InitBootstrap, TypeInv, BootstrapTypeOK
<1>2. TypeInv /\ UNCHANGED bvars => TypeInv'
  BY DEF bvars, TypeInv, BootstrapTypeOK, SiblingsAreFound, Working
<1> QED BY <1>1, <1>2, TypeStep, PTL DEF BootstrapSpec

\* Every variable keeps its type, with any plugins, versions and processes.
THEOREM BootstrapTypeCorrect == BootstrapSpec => []BootstrapTypeOK
BY TypesHold, PTL DEF TypeInv

----------------------------------------------------------------------------
\* What a step of one process leaves alone.

\* What becomes of the work of a process that moves on to j, or ends.
LEMMA WorkStays ==
  ASSUME NEW h \in Hook, NEW j, Moved(h, j), Nothing \notin Job, NEW p \in Plugin
  PROVE  /\ Refilled(p) => Refilled(p)' \/ (At(h, p, {"link", "install"}) /\ job[h].stripped)
         /\ Filled(p) => Filled(p)' \/ At(h, p, {"unpack"})
         /\ Begun(p) => Begun(p)' \/ At(h, p, {"install"})
         /\ j \in Job /\ j.plugin = p /\ j.pc \in {"link", "install"} /\ j.stripped => Refilled(p)'
         /\ j \in Job /\ j.plugin = p /\ j.pc = "unpack" => Filled(p)'
         /\ j \in Job /\ j.plugin = p /\ j.pc = "install" => Begun(p)'
<1>1. \A g \in Hook \ {h} : job'[g] = job[g]
  BY DEF Moved
<1>2. ASSUME Refilled(p), ~(At(h, p, {"link", "install"}) /\ job[h].stripped)
      PROVE  Refilled(p)'
  <2>1. PICK g \in Hook : At(g, p, {"link", "install"}) /\ job[g].stripped
    BY <1>2 DEF Refilled
  <2> QED BY <1>1, <1>2, <2>1 DEF Refilled, At, Working
<1>3. ASSUME Filled(p), ~At(h, p, {"unpack"}) PROVE Filled(p)'
  <2>1. PICK g \in Hook : At(g, p, {"unpack"})
    BY <1>3 DEF Filled
  <2> QED BY <1>1, <1>3, <2>1 DEF Filled, At, Working
<1>4. ASSUME Begun(p), ~At(h, p, {"install"}) PROVE Begun(p)'
  <2>1. PICK g \in Hook : At(g, p, {"install"})
    BY <1>4 DEF Begun
  <2> QED BY <1>1, <1>4, <2>1 DEF Begun, At, Working
<1>5. j \in Job => job'[h] = j /\ j # Nothing
  BY DEF Moved
<1> QED BY <1>2, <1>3, <1>4, <1>5 DEF Refilled, Filled, Begun, At, Working

\* A step of a process leaves the other plugins as sound as they were.
LEMMA OthersStaySound ==
  ASSUME NEW h \in Hook, NEW j, Moved(h, j), Nothing \notin Job,
         NEW p \in Plugin, Sound(p),
         modules'[p] = modules[p], stamp'[p] = stamp[p], want'[p] = want[p],
         hurt \subseteq hurt', p \in served' <=> p \in served,
         job[h] # Nothing => job[h].plugin # p, j # Nothing => j.plugin # p
  PROVE  Sound(p)'
<1>1. ~At(h, p, {"link", "install"}) /\ ~At(h, p, {"unpack"}) /\ ~At(h, p, {"install"})
  BY DEF At, Working
<1>2. /\ Refilled(p) => Refilled(p)'
      /\ Filled(p) => Filled(p)'
      /\ Begun(p) => Begun(p)'
  BY <1>1, WorkStays
<1>3. p \notin served => \A g \in Working' : job'[g].plugin = p => job'[g].pc = "install" /\ ~job'[g].dispatcher
  <2> SUFFICES ASSUME p \notin served, NEW g \in Working', job'[g].plugin = p
               PROVE  job'[g].pc = "install" /\ ~job'[g].dispatcher
    OBVIOUS
  <2>1. g \in Hook /\ job'[g] # Nothing
    BY DEF Working
  <2>2. g # h
    BY <2>1 DEF Moved
  <2>3. job'[g] = job[g] /\ g \in Working
    BY <2>1, <2>2 DEF Moved, Working
  <2> QED BY <2>3 DEF Sound
<1> QED BY <1>2, <1>3 DEF Sound

\* Having had something is not forgotten, and comes with a node_modules.
LEMMA ServedGrows ==
  ASSUME BootInv, BootstrapNext
  PROVE  /\ served \subseteq served'
         /\ \A p \in Plugin : p \in served' <=> p \in served \/ modules'[p] # Absent
         /\ \A p \in Plugin : modules'[p] = modules[p] => (p \in served' <=> p \in served)
<1>1. served' = served \cup {p \in Plugin : modules'[p] # Absent}
  BY DEF BootstrapNext
<1>2. \A p \in Plugin : modules[p] # Absent => p \in served
  BY DEF BootInv, Sound
<1> QED BY <1>1, <1>2

\* What is not linked is found where it is.
LEMMA FoundHere ==
  ASSUME NEW p \in Plugin, modules[p].kind # "link"
  PROVE  Found(p) = modules[p]
<1>1. 0 \in 0..Plugins /\ Plugins \in 0..Plugins
  BY PluginsAreNat
<1>2. After(Path(p)[0]) = Path(p)[0] /\ Path(p)[0] = p
  BY PathIs DEF After
<1>3. \A n \in 0..Plugins : Path(p)[n] = p
  BY <1>1, <1>2, PathRests
<1> QED BY <1>1, <1>3 DEF Found, Plugins

\* Whose package can be found has had something.
LEMMA ExistingIsServed ==
  ASSUME BootInv, NEW p \in Plugin, Exists(p)
  PROVE  p \in served
<1> SUFFICES ASSUME p \notin served PROVE FALSE
  OBVIOUS
<1>1. modules[p] = Absent
  BY DEF BootInv, Sound
<1> QED BY <1>1, FoundHere DEF Exists, Absent

----------------------------------------------------------------------------
\* The steps keep the plugins sound.  One lemma for each kind of step.

LEMMA JobRest ==
  ASSUME BootInv, NEW h \in Hook, NEW j, Moved(h, j), served \subseteq served',
         j = Nothing \/ /\ ~j.dispatcher => ~j.stripped /\ j.pc \in {"install", "unpack"}
                        /\ j.pc \in {"remove", "link"} => j.sibling \in served
  PROVE  ShellsInstall' /\ SiblingsAreServed'
<1>1. ASSUME NEW g \in Working'
      PROVE  /\ ~job'[g].dispatcher => ~job'[g].stripped /\ job'[g].pc \in {"install", "unpack"}
             /\ job'[g].pc \in {"remove", "link"} => job'[g].sibling \in served'
  <2>1. g \in Hook /\ job'[g] # Nothing
    BY DEF Working
  <2>2. CASE g = h
    BY <2>1, <2>2 DEF Moved
  <2>3. CASE g # h
    <3>1. job'[g] = job[g] /\ g \in Working
      BY <2>1, <2>3 DEF Moved, Working
    <3> QED BY <3>1 DEF BootInv, ShellsInstall, SiblingsAreServed
  <2> QED BY <2>2, <2>3
<1> QED BY <1>1 DEF ShellsInstall, SiblingsAreServed

\* A start.
LEMMA StartKeeps ==
  ASSUME TypeInv, BootInv, BootstrapNext, NEW h \in Hook, NEW p \in Plugin,
         Command(h, p) \/ Dispatch(h, p)
  PROVE  BootInv'
<1>0. BootstrapTypeOK /\ Nothing \notin Job
  BY NothingIsNothing DEF TypeInv
<1>1. PICK j \in Job : /\ Moved(h, j) /\ job[h] = Nothing
                       /\ j.plugin = p /\ ~j.stripped /\ j.pc \in {"find", "install"}
                       /\ j.pc = "install" \/ j.dispatcher
                       /\ Command(h, p) => j.pc = "install" /\ ~j.dispatcher
                       /\ Dispatch(h, p) => p \in served
  <2>1. CASE Command(h, p)
    <3>1. Began(h, p, FALSE)
      BY <2>1, ProcessSteps
    <3>2. ~Dispatch(h, p) \/ Exists(p)
      BY DEF Dispatch
    <3> QED BY <3>1, <3>2, ExistingIsServed DEF Began
  <2>2. CASE Dispatch(h, p)
    <3>1. Began(h, p, TRUE)
      BY <2>2, ProcessSteps
    <3>2. Exists(p)
      BY <2>2 DEF Dispatch
    <3>3. ~Command(h, p) \/ Began(h, p, FALSE)
      BY ProcessSteps
    <3>4. PICK j \in Job : /\ Moved(h, j)
                    /\ j.plugin = p /\ j.dispatcher = TRUE /\ j.version = want[p]
                    /\ j.pc = "find"
                    /\ j.stripped = FALSE
      BY <3>1 DEF Began
    <3>5. ~Command(h, p)
      <4> SUFFICES ASSUME Command(h, p) PROVE FALSE
        OBVIOUS
      <4>1. Began(h, p, FALSE)
        BY <3>3
      <4>2. PICK i \in Job : Moved(h, i) /\ i.pc = "install"
        BY <4>1 DEF Began
      <4> QED BY <3>4, <4>2 DEF Moved
    <3> QED BY <3>1, <3>2, <3>4, <3>5, ExistingIsServed DEF Began
  <2> QED BY <2>1, <2>2
<1>2. modules' = modules /\ hurt' = hurt /\ want' = want
  BY DEF Command, Dispatch, registry
<1>3. \A q \in Plugin : /\ q # p => stamp'[q] = stamp[q]
                        /\ stamp'[q] \in {stamp[q], want[q]}
  BY <1>0 DEF Command, Dispatch, BootstrapTypeOK
<1>4. \A q \in Plugin : q \in served' <=> q \in served
  BY <1>2, ServedGrows
<1>5. ASSUME NEW q \in Plugin PROVE Sound(q)'
  <2>1. CASE q # p
    BY <1>0, <1>1, <1>2, <1>3, <1>4, <2>1, OthersStaySound DEF BootInv
  <2>2. CASE q = p
    <3>1. /\ Refilled(p) => Refilled(p)'
          /\ Filled(p) => Filled(p)'
          /\ j.pc = "install" => Begun(p)'
      <4>1. ~At(h, p, {"link", "install"}) /\ ~At(h, p, {"unpack"})
        BY <1>1 DEF At, Working
      <4> QED BY <1>0, <1>1, <4>1, WorkStays
    <3>2. Sound(p)
      BY DEF BootInv
    <3>3. ASSUME p \notin served, NEW g \in Working', job'[g].plugin = p
          PROVE  job'[g].pc = "install" /\ ~job'[g].dispatcher
      <4>1. g \in Hook /\ job'[g] # Nothing /\ Command(h, p)
        BY <1>1, <3>3 DEF Working
      <4>2. CASE g = h
        BY <1>1, <4>1, <4>2 DEF Moved
      <4>3. CASE g # h
        <5>1. job'[g] = job[g] /\ g \in Working
          BY <1>1, <4>1, <4>3 DEF Moved, Working
        <5> QED BY <3>2, <3>3, <5>1 DEF Sound
      <4> QED BY <4>2, <4>3
    <3>4. p \notin served => Begun(p)'
      BY <1>1, <3>1
    <3> QED BY <1>2, <1>4, <2>2, <3>1, <3>2, <3>3, <3>4 DEF Sound
  <2> QED BY <2>1, <2>2
<1>6. ShellsInstall' /\ SiblingsAreServed'
  BY <1>1, JobRest, ServedGrows
<1>7. StampsLag' /\ LinksAreServed'
  <2>1. \A q \in Plugin : want[q] \in Nat
    BY <1>0 DEF BootstrapTypeOK, Version
  <2>2. StampsLag'
    BY <1>2, <1>3, <2>1 DEF BootInv, StampsLag
  <2>3. LinksAreServed'
    BY <1>2, ServedGrows DEF BootInv, LinksAreServed
  <2> QED BY <2>2, <2>3
<1> QED BY <1>5, <1>6, <1>7 DEF BootInv

\* A step of a process at work, that keeps its own plugin sound.
LEMMA StepKeeps ==
  ASSUME TypeInv, BootInv, BootstrapNext, NEW h \in Hook, job[h] # Nothing, NEW j, Moved(h, j),
         NEW p \in Plugin, p = job[h].plugin,
         \/ j = Nothing
         \/ /\ j \in Job /\ j.plugin = p
            /\ ~j.dispatcher => ~j.stripped /\ j.pc \in {"install", "unpack"}
            /\ j.pc \in {"remove", "link"} => j.sibling \in served,
         \A q \in Plugin \ {p} : modules'[q] = modules[q] /\ stamp'[q] = stamp[q],
         want' = want, hurt \subseteq hurt',
         stamp'[p] \in {stamp[p], want[p], Nothing},
         \/ modules'[p] = modules[p]
         \/ modules'[p].kind = "link" => modules'[p].to \in served,
         Sound(p)'
  PROVE  BootInv'
<1>0. BootstrapTypeOK /\ Nothing \notin Job
  BY NothingIsNothing DEF TypeInv
<1>1. ASSUME NEW q \in Plugin PROVE Sound(q)'
  <2>1. CASE q # p
    <3>1. q \in served' <=> q \in served
      BY <2>1, ServedGrows
    <3>2. j # Nothing => j.plugin # q
      BY <2>1
    <3> QED BY <1>0, <2>1, <3>1, <3>2, OthersStaySound DEF BootInv
  <2>2. CASE q = p
    BY <2>2
  <2> QED BY <2>1, <2>2
<1>2. ShellsInstall' /\ SiblingsAreServed'
  BY JobRest, ServedGrows
<1>3. StampsLag'
  <2>1. \A q \in Plugin : want[q] \in Nat
    BY <1>0 DEF BootstrapTypeOK, Version
  <2>2. ASSUME NEW q \in Plugin, stamp'[q] # Nothing PROVE stamp'[q] <= want[q]
    BY <1>0, <2>1, <2>2 DEF BootInv, StampsLag
  <2> QED BY <2>2 DEF StampsLag
<1>4. LinksAreServed'
  <2> SUFFICES ASSUME NEW q \in Plugin, modules'[q].kind = "link" PROVE modules'[q].to \in served'
    BY DEF LinksAreServed
  <2>1. modules'[q] = modules[q] \/ modules'[q].to \in served
    BY <1>0
  <2> QED BY <2>1, ServedGrows DEF BootInv, LinksAreServed
<1> QED BY <1>1, <1>2, <1>3, <1>4 DEF BootInv

\* What a process at work knows of its plugin and of itself.
LEMMA AtWork ==
  ASSUME TypeInv, BootInv, NEW h \in Hook, job[h] # Nothing
  PROVE  /\ BootstrapTypeOK /\ Nothing \notin Job /\ job[h].plugin \in Plugin
         /\ Sound(job[h].plugin)
         /\ ~job[h].dispatcher => ~job[h].stripped /\ job[h].pc \in {"install", "unpack"}
         /\ job[h].pc # "install" \/ job[h].dispatcher => job[h].plugin \in served
         /\ job[h].pc \in {"remove", "link"} => job[h].sibling \in served
<1>1. BootstrapTypeOK /\ Nothing \notin Job /\ h \in Working /\ job[h].plugin \in Plugin
  BY NothingIsNothing, JobIs DEF TypeInv
<1>2. Sound(job[h].plugin)
  BY <1>1 DEF BootInv
<1> QED BY <1>1, <1>2 DEF BootInv, ShellsInstall, SiblingsAreServed, Sound

\* Looking for a sibling, or falling back to npm: a dispatcher moves on.
LEMMA LookKeeps ==
  ASSUME TypeInv, BootInv, BootstrapNext, NEW h \in Hook, Find(h) \/ LinkFails(h)
  PROVE  BootInv'
<1>0. job[h] # Nothing /\ job[h].pc \in {"find", "link"}
  BY DEF Find, LinkFails
<1>9. PICK p \in Plugin : p = job[h].plugin
  BY <1>0, AtWork
<1>1. /\ BootstrapTypeOK /\ Nothing \notin Job /\ p \in Plugin /\ Sound(p) /\ p \in served
      /\ ~job[h].dispatcher => ~job[h].stripped /\ job[h].pc \in {"install", "unpack"}
  BY <1>9, <1>0, AtWork
<1>2. modules' = modules /\ hurt' = hurt /\ want' = want
  BY <1>9 DEF Find, LinkFails, registry
<1>3. /\ \A q \in Plugin \ {p} : stamp'[q] = stamp[q]
      /\ stamp'[p] \in {stamp[p], want[p]}
  BY <1>9, <1>1 DEF Find, LinkFails, Fallback, BootstrapTypeOK
<1>4. PICK j \in Job : /\ Moved(h, j) /\ j.plugin = p
                       /\ j.stripped = job[h].stripped /\ j.dispatcher = job[h].dispatcher
                       /\ j.pc \in {"install", "remove"}
                       /\ j.pc = "install" \/ job[h].pc = "find"
                       /\ j.pc = "remove" => j.sibling \in served
  <2>1. CASE FellBack(h)
    BY <1>9, <2>1 DEF FellBack
  <2>2. CASE Find(h) /\ ~FellBack(h)
    <3>1. PICK q \in Plugin : Installed(q) = job[h].version /\ Chose(h, q)
      BY <1>9, <2>2, ProcessSteps
    <3>2. q \in served
      <4>1. job[h].version # Nothing
        BY <1>9, <1>0, <1>1, JobIs, NothingIsNothing
      <4> QED BY <1>9, <3>1, <4>1, ExistingIsServed DEF Installed
    <3> QED BY <1>9, <2>2, <3>1, <3>2 DEF Chose, Find
  <2>3. LinkFails(h) => FellBack(h)
    BY <1>9, ProcessSteps
  <2> QED BY <1>9, <2>1, <2>2, <2>3
<1>5. Sound(p)'
  <2>1. /\ Refilled(p) => Refilled(p)'
        /\ Filled(p) => Filled(p)'
    <3>1. ASSUME At(h, p, {"link", "install"}) /\ job[h].stripped PROVE Refilled(p)'
      <4>1. j.pc = "install" /\ j.stripped
        BY <1>9, <1>0, <1>4, <3>1 DEF At
      <4> QED BY <1>9, <1>1, <1>4, <4>1, WorkStays
    <3>2. ~At(h, p, {"unpack"})
      BY <1>9, <1>0 DEF At
    <3> QED BY <1>9, <1>1, <1>4, <3>1, <3>2, WorkStays
  <2>2. p \in served'
    BY <1>9, <1>1, ServedGrows
  <2> QED BY <1>9, <1>1, <1>2, <2>1, <2>2 DEF Sound
<1> QED BY <1>9, <1>0, <1>1, <1>2, <1>3, <1>4, <1>5, StepKeeps

\* Removing what is there: a dispatcher that will put something else.
LEMMA RemoveKeeps ==
  ASSUME TypeInv, BootInv, BootstrapNext, NEW h \in Hook, Remove(h)
  PROVE  BootInv'
<1>0. job[h] # Nothing /\ job[h].pc = "remove"
  BY DEF Remove
<1>9. PICK p \in Plugin : p = job[h].plugin
  BY <1>0, AtWork
<1>1. /\ BootstrapTypeOK /\ Nothing \notin Job /\ p \in Plugin /\ Sound(p) /\ p \in served
      /\ ~job[h].dispatcher => ~job[h].stripped /\ job[h].pc \in {"install", "unpack"}
      /\ job[h].sibling \in served
  BY <1>9, <1>0, AtWork
<1>2. p \in served' /\ hurt' = hurt /\ want' = want /\ stamp' = stamp
  BY <1>9, <1>1, ServedGrows DEF Remove, registry
<1>3. \A q \in Plugin \ {p} : modules'[q] = modules[q]
  BY <1>9, <1>1 DEF Remove, BootstrapTypeOK
<1>4. ~At(h, p, {"link", "install"}) /\ ~At(h, p, {"unpack"})
  BY <1>9, <1>0 DEF At
<1>5. CASE Exists(p)
  <2>1. modules'[p] = Absent
    BY <1>9, <1>1, <1>5 DEF Remove, BootstrapTypeOK
  <2>2. job[h].dispatcher
    BY <1>9, <1>0, <1>1
  <2>3. PICK j \in Job : /\ Moved(h, j) /\ j.plugin = p /\ j.dispatcher = job[h].dispatcher
                         /\ j.sibling = job[h].sibling /\ j.stripped = TRUE /\ j.pc = "link"
    BY <1>9, <1>5, ProcessSteps DEF Stripped, WentOn
  <2>4. Refilled(p)'
    BY <1>9, <1>1, <2>3, WorkStays
  <2>5. Sound(p)'
    BY <1>9, <1>2, <2>1, <2>4 DEF Sound, Absent
  <2>6. modules'[p].kind # "link"
    BY <2>1 DEF Absent
  <2> QED BY <1>9, <1>0, <1>1, <1>2, <1>3, <2>2, <2>3, <2>5, <2>6, StepKeeps
<1>6. CASE ~Exists(p)
  <2>1. modules' = modules
    BY <1>9, <1>6 DEF Remove
  <2>2. PICK j \in Job : /\ Moved(h, j) /\ j.plugin = p /\ j.dispatcher = job[h].dispatcher
                         /\ j.sibling = job[h].sibling /\ j.stripped = job[h].stripped
                         /\ j.pc = "link"
    BY <1>9, <1>6, ProcessSteps DEF WentOn
  <2>3. Refilled(p) => Refilled(p)'
    BY <1>9, <1>1, <1>4, <2>2, WorkStays
  <2>4. Filled(p) => Filled(p)'
    BY <1>9, <1>1, <1>4, <2>2, WorkStays
  <2>5. Sound(p)'
    BY <1>9, <1>1, <1>2, <2>1, <2>3, <2>4 DEF Sound
  <2> QED BY <1>9, <1>0, <1>1, <1>2, <2>1, <2>2, <2>5, StepKeeps
<1> QED BY <1>9, <1>5, <1>6

\* A process that ends: it has linked, or npm has.
LEMMA EndKeeps ==
  ASSUME TypeInv, BootInv, BootstrapNext, NEW h \in Hook,
         Link(h) \/ NothingToUnpack(h) \/ Unpacked(h) \/ InstallFails(h) \/ Kill(h)
  PROVE  BootInv'
<1>0. job[h] # Nothing
  BY DEF Link, NothingToUnpack, Unpacked, InstallFails, Kill
<1>1. PICK p \in Plugin : p = job[h].plugin
  BY <1>0, AtWork
<1>2. /\ BootstrapTypeOK /\ Nothing \notin Job /\ Sound(p) /\ h \in Working
      /\ ~job[h].dispatcher => ~job[h].stripped /\ job[h].pc \in {"install", "unpack"}
      /\ job[h].pc # "install" => p \in served
      /\ job[h].pc \in {"remove", "link"} => job[h].sibling \in served
  BY <1>0, <1>1, AtWork DEF Working
<1>3. Moved(h, Nothing)
  BY ProcessSteps
<1>4. /\ Refilled(p) => Refilled(p)' \/ (At(h, p, {"link", "install"}) /\ job[h].stripped)
      /\ Filled(p) => Filled(p)' \/ At(h, p, {"unpack"})
      /\ Begun(p) => Begun(p)' \/ At(h, p, {"install"})
  BY <1>2, <1>3, WorkStays
<1>5. ASSUME p \notin served, NEW g \in Working', job'[g].plugin = p
      PROVE  job'[g].pc = "install" /\ ~job'[g].dispatcher
  <2>1. g \in Hook /\ job'[g] # Nothing
    BY <1>5 DEF Working
  <2>2. job'[g] = job[g] /\ g \in Working
    BY <1>3, <2>1 DEF Moved, Working
  <2> QED BY <1>2, <1>5, <2>2 DEF Sound
<1>6. /\ served \subseteq served'
      /\ p \in served' <=> p \in served \/ modules'[p] # Absent
  BY ServedGrows
<1>7. want' = want /\ newest' = newest
  BY DEF Link, NothingToUnpack, Unpacked, InstallFails, Kill, registry
<1>8. ASSUME Link(h) PROVE BootInv'
  <2>1. /\ modules' = [modules EXCEPT ![p] = LinkTo(job[h].sibling)]
        /\ stamp' = stamp /\ hurt' = hurt /\ job[h].pc = "link"
    BY <1>1, <1>8 DEF Link
  <2>2. /\ modules'[p] = LinkTo(job[h].sibling)
        /\ \A q \in Plugin \ {p} : modules'[q] = modules[q]
    BY <1>2, <2>1 DEF BootstrapTypeOK
  <2>3. modules'[p].kind = "link" /\ modules'[p].to \in served /\ modules'[p] # Absent
    BY <1>2, <2>1, <2>2 DEF LinkTo, Absent
  <2>4. Sound(p)'
    BY <1>6, <2>3 DEF Sound
  <2> QED BY <1>0, <1>1, <1>3, <1>7, <2>1, <2>2, <2>3, <2>4, StepKeeps
<1>9. ASSUME NothingToUnpack(h) PROVE BootInv'
  <2>1. /\ modules' = modules /\ stamp' = stamp /\ job[h].pc = "install"
        /\ stamp[p] # Nothing => modules[p].kind = "tree" /\ modules[p].whole
        /\ stamp[p] = Nothing /\ job[h].dispatcher => p \in hurt'
        /\ hurt \subseteq hurt'
    BY <1>1, <1>9 DEF NothingToUnpack
  <2>2. /\ ~At(h, p, {"unpack"})
        /\ modules[p] = Absent /\ job[h].stripped => p \in hurt'
    BY <1>2, <2>1 DEF At, Absent
  <2>3. want[p] # Nothing
    BY <1>2, NothingIsNothing DEF BootstrapTypeOK
  <2>4. Sound(p)'
    <3>1. modules[p] = Absent => stamp[p] # want[p]
      BY <2>1, <2>3 DEF Absent
    <3> QED BY <1>2, <1>4, <1>5, <1>6, <1>7, <2>1, <2>2, <3>1 DEF Sound
  <2> QED BY <1>0, <1>1, <1>3, <1>7, <2>1, <2>4, StepKeeps
<1>10. ASSUME Unpacked(h) PROVE BootInv'
  <2>1. /\ stamp' = stamp /\ hurt' = hurt /\ job[h].pc = "unpack"
        /\ \A q \in Plugin \ {p} : modules'[q] = modules[q]
        /\ IF modules[p].kind = "tree" THEN modules'[p] = Tree(job[h].version, TRUE)
                                       ELSE modules'[p] = modules[p]
    BY <1>1, <1>2, <1>10 DEF Unpacked, BootstrapTypeOK
  <2>2. modules'[p] = modules[p] \/ (modules'[p].kind = "tree" /\ modules'[p].whole)
    BY <2>1 DEF Tree
  <2>3. modules'[p] = Absent => modules[p] = Absent
    BY <2>1 DEF Tree, Absent
  <2>4. modules'[p].kind = "tree" => modules'[p].whole
    BY <2>1 DEF Tree
  <2>5. ~At(h, p, {"link", "install"}) /\ p \in served
    BY <1>2, <2>1 DEF At
  <2>6. Sound(p)'
    BY <1>2, <1>4, <1>6, <2>1, <2>3, <2>4, <2>5 DEF Sound
  <2>7. modules'[p] = modules[p] \/ modules'[p].kind # "link"
    BY <2>2
  <2> QED BY <1>0, <1>1, <1>3, <1>7, <2>1, <2>6, <2>7, StepKeeps
<1>11. ASSUME InstallFails(h) PROVE BootInv'
  <2>1. /\ modules' = modules /\ hurt \subseteq hurt' /\ job[h].pc = "install"
        /\ job[h].dispatcher => p \in hurt' /\ stamp' = stamp
        /\ ~job[h].dispatcher => stamp'[p] = Nothing
        /\ \A q \in Plugin \ {p} : stamp'[q] = stamp[q]
        /\ stamp'[p] \in {stamp[p], Nothing}
    BY <1>1, <1>2, <1>11 DEF InstallFails, BootstrapTypeOK
  <2>2. ~At(h, p, {"unpack"}) /\ (job[h].stripped => p \in hurt')
    BY <1>2, <2>1 DEF At
  <2>3. want[p] # Nothing
    BY <1>2, NothingIsNothing DEF BootstrapTypeOK
  <2>4. Sound(p)'
    BY <1>2, <1>4, <1>5, <1>6, <1>7, <2>1, <2>2, <2>3 DEF Sound
  <2> QED BY <1>0, <1>1, <1>3, <1>7, <2>1, <2>4, StepKeeps
<1>12. ASSUME Kill(h) PROVE BootInv'
  <2>1. /\ modules' = modules /\ stamp' = stamp /\ hurt \subseteq hurt'
        /\ Exposed(h) => p \in hurt'
    BY <1>1, <1>12 DEF Kill
  <2>2. At(h, p, {"unpack"}) \/ At(h, p, {"install"}) \/ job[h].stripped => p \in hurt'
    BY <2>1 DEF Exposed, At
  <2>3. Sound(p)'
    BY <1>2, <1>4, <1>5, <1>6, <1>7, <2>1, <2>2 DEF Sound
  <2> QED BY <1>0, <1>1, <1>3, <1>7, <2>1, <2>3, StepKeeps
<1> QED BY <1>8, <1>9, <1>10, <1>11, <1>12

\* npm replaces what is there by a tree of its own, at first unfinished.
LEMMA UnpackKeeps ==
  ASSUME TypeInv, BootInv, BootstrapNext, NEW h \in Hook, Unpack(h)
  PROVE  BootInv'
<1>0. job[h] # Nothing
  BY DEF Unpack
<1>1. PICK p \in Plugin : p = job[h].plugin
  BY <1>0, AtWork
<1>2. /\ BootstrapTypeOK /\ Nothing \notin Job
      /\ ~job[h].dispatcher => ~job[h].stripped /\ job[h].pc \in {"install", "unpack"}
  BY <1>0, <1>1, AtWork
<1>3. /\ stamp' = stamp /\ hurt' = hurt /\ want' = want
      /\ \E shown : modules' = [modules EXCEPT ![p] = Tree(shown, FALSE)]
  BY <1>1 DEF Unpack, registry
<1>4. /\ \A q \in Plugin \ {p} : modules'[q] = modules[q]
      /\ modules'[p].kind = "tree" /\ modules'[p] # Absent
  BY <1>2, <1>3 DEF BootstrapTypeOK, Tree, Absent
<1>5. PICK j \in Job : /\ Moved(h, j) /\ j.plugin = p /\ j.dispatcher = job[h].dispatcher
                       /\ j.stripped = job[h].stripped /\ j.pc = "unpack"
  BY <1>1, ProcessSteps DEF Unpacking
<1>6. Filled(p)'
  BY <1>2, <1>5, WorkStays
<1>7. Sound(p)'
  BY <1>4, <1>6, ServedGrows DEF Sound
<1>8. modules'[p].kind # "link"
  BY <1>4
<1> QED BY <1>0, <1>1, <1>2, <1>3, <1>4, <1>5, <1>7, <1>8, StepKeeps

\* New versions, of the plugins and of the package.
LEMMA ReleaseKeeps ==
  ASSUME TypeInv, BootInv, BootstrapNext, Publish \/ \E p \in Plugin : Update(p)
  PROVE  BootInv'
<1>1. BootstrapTypeOK /\ Working' = Working
  BY DEF TypeInv, Publish, Update, Working
<1>2. UNCHANGED <<stamp, modules, job, hurt>>
  BY DEF Publish, Update
<1>3. \A p \in Plugin : want[p] \in Nat /\ want'[p] \in Nat /\ want[p] <= want'[p]
  BY <1>1 DEF Publish, Update, BootstrapTypeOK, Version
<1>4. \A p \in Plugin : stamp[p] # Nothing => stamp[p] \in Nat /\ stamp[p] <= want[p]
  BY <1>1 DEF BootInv, StampsLag, BootstrapTypeOK, Version
<1>5. \A p \in Plugin : p \in served' <=> p \in served
  BY <1>2, ServedGrows
<1>6. served \subseteq served'
  BY ServedGrows
<1>7. ASSUME NEW p \in Plugin PROVE Sound(p)'
  <2>1. Sound(p)
    BY DEF BootInv
  <2>2. stamp[p] # want[p] => stamp[p] # want'[p]
    <3>1. CASE stamp[p] = Nothing
      <4>1. want'[p] \in Version
        BY <1>1, SomeVersion DEF Publish, Update, BootstrapTypeOK, Version
      <4> QED BY <3>1, <4>1, NothingIsNothing
    <3>2. CASE stamp[p] # Nothing
      BY <1>3, <1>4, <3>2
    <3> QED BY <3>1, <3>2
  <2>3. Refilled(p)' = Refilled(p) /\ Filled(p)' = Filled(p) /\ Begun(p)' = Begun(p)
    BY <1>1, <1>2 DEF Refilled, Filled, Begun, At
  <2> QED BY <1>1, <1>2, <1>5, <2>1, <2>2, <2>3 DEF Sound
<1>8. ShellsInstall' /\ SiblingsAreServed' /\ LinksAreServed'
  BY <1>1, <1>2, <1>6 DEF BootInv, ShellsInstall, SiblingsAreServed, LinksAreServed
<1>9. StampsLag'
  BY <1>2, <1>3, <1>4 DEF StampsLag
<1> QED BY <1>7, <1>8, <1>9 DEF BootInv

LEMMA BootInvHolds == BootstrapSpec => []BootInv
<1>1. InitBootstrap => BootInv
  <2> SUFFICES ASSUME InitBootstrap PROVE BootInv
    OBVIOUS
  <2>1. Working = {} /\ \A p \in Plugin : modules[p] = Absent /\ stamp[p] = Nothing
    BY DEF InitBootstrap, Working
  <2>2. \A p \in Plugin : want[p] # Nothing
    BY NothingIsNothing, SomeVersion DEF InitBootstrap, Version
  <2>3. \A p \in Plugin : Sound(p)
    BY <2>1, <2>2 DEF Sound, Absent, InitBootstrap
  <2> QED BY <2>1, <2>3
          DEF BootInv, ShellsInstall, StampsLag, LinksAreServed, SiblingsAreServed, Absent
<1>2. TypeInv /\ BootInv /\ BootstrapNext => BootInv'
  BY StartKeeps, LookKeeps, RemoveKeeps, EndKeeps, UnpackKeeps, ReleaseKeeps DEF BootstrapNext
<1>3. BootInv /\ UNCHANGED bvars => BootInv'
  <2> SUFFICES ASSUME BootInv, UNCHANGED bvars PROVE BootInv'
    OBVIOUS
  <2>1. \A p \in Plugin : Sound(p)'
    BY DEF BootInv, Sound, Refilled, Filled, Begun, At, Working, bvars
  <2> QED BY <2>1 DEF BootInv, ShellsInstall, StampsLag, LinksAreServed, SiblingsAreServed,
                      Working, bvars
<1> QED BY <1>1, <1>2, <1>3, TypesHold, PTL DEF BootstrapSpec

\* A path from a plugin that had something stays among those that had.
LEMMA PathIsServed ==
  ASSUME LinksAreServed, served \subseteq Plugin, NEW p \in served
  PROVE  \A n \in 0..Plugins : Path(p)[n] \in served
<1> DEFINE S == {n \in 0..Plugins : Path(p)[n] \notin served}
<1>1. SUFFICES ASSUME S # {} PROVE FALSE
  OBVIOUS
<1>2. S \in SUBSET Nat
  BY PluginsAreNat
<1>3. PICK n \in S : \A j \in S : n <= j
  BY <1>1, <1>2, LeastOf
<1>4. n # 0
  BY <1>3, PathIs
<1>5. n - 1 \in 0..Plugins /\ n - 1 \notin S /\ n \in 0..Plugins
  BY <1>3, <1>4, PluginsAreNat
<1>6. Path(p)[n - 1] \in served
  BY <1>5
<1>7. Path(p)[n] = After(Path(p)[n - 1])
  BY <1>4, <1>5, PathIs
<1>8. \A q \in served : After(q) \in served
  BY DEF After, LinksAreServed
<1> QED BY <1>3, <1>6, <1>7, <1>8

\* Whatever processes ran beside each other, of the same or of different
\* plugins, a plugin that once had a package has one when none is at work,
\* unless where its links end a process was killed in an exposed step or npm
\* brought a dispatcher nothing, or they end nowhere.
THEOREM ServedStaysServedHolds == BootstrapSpec => []ServedStaysServed
<1>1. ASSUME TypeInv, BootInv PROVE ServedStaysServed
  <2> SUFFICES ASSUME Quiet, NEW p \in served, Owner(p) \notin hurt, ~Circular(p)
               PROVE  Usable(p)
    BY DEF ServedStaysServed
  <2>1. served \subseteq Plugin /\ modules \in [Plugin -> Modules]
    BY <1>1 DEF TypeInv, BootstrapTypeOK
  <2>2. PICK e \in served : e = Owner(p)
    BY <1>1, <2>1, PathIsServed, PluginsAreNat DEF BootInv, Owner, Plugins
  <2>3. Found(p) = modules[e] /\ modules[e].kind # "link"
    BY <2>2 DEF Owner, Found, Circular
  <2>4. ~Refilled(e) /\ ~Filled(e)
    BY DEF Quiet, Refilled, Filled, At
  <2>5. Sound(e) /\ e \in Plugin /\ modules[e] \in Modules
    BY <1>1, <2>1 DEF BootInv
  <2>6. modules[e] # Absent /\ (modules[e].kind = "tree" => modules[e].whole)
    BY <2>2, <2>4, <2>5 DEF Sound
  <2>7. modules[e].kind = "tree"
    BY <2>3, <2>5, <2>6 DEF Modules
  <2> QED BY <2>3, <2>6, <2>7 DEF Usable, Exists
<1> QED BY <1>1, TypesHold, BootInvHolds, PTL

\* A plugin whose installation has never got anywhere has not got the copy of
\* package.json that would keep the next start from trying again, unless an
\* installation was killed.
THEOREM BrokenIsRetriedHolds == BootstrapSpec => []BrokenIsRetried
<1>1. ASSUME TypeInv, BootInv PROVE BrokenIsRetried
  <2> SUFFICES ASSUME Quiet, NEW p \in Plugin \ served PROVE stamp[p] # want[p] \/ p \in hurt
    BY DEF BrokenIsRetried
  <2>1. ~Begun(p)
    BY DEF Quiet, Begun, At
  <2> QED BY <1>1, <2>1 DEF BootInv, Sound
<1> QED BY <1>1, TypesHold, BootInvHolds, PTL
=============================================================================

------------------------------- MODULE AskMemo -------------------------------
(***************************************************************************)
(* Ask memoization (plugin-hooks/memo.mjs): an operator who has approved a *)
(* gated `git push` of a branch once is not asked again for that workload. *)
(*                                                                         *)
(* The store is two directories of JSON files.  pending[s, c] is the file  *)
(* of the ask last put to session s for command c, grants[r] the file of   *)
(* the standing grant for pushing r; the name of a grant's file holds its  *)
(* gate and scope but not its session.  One gate, one repository and one   *)
(* remote are modelled, so a scope is what is pushed: the text of the      *)
(* command's refspec, or the name of the branch checked out.               *)
(*                                                                         *)
(* Every hook call is a process of its own that reads and writes the files *)
(* without a lock.  A session runs one tool call at a time:                *)
(*   Gate, Lookup, Replay | Miss      the pre-tool-use process             *)
(*   Approve, Deny, Bypass            the prompt (external)                *)
(*   RunPush, RunSwitch               the command itself (external)        *)
(*   Confirm, Promote, SeeHead, Invalidate, Prune: post-tool-use process   *)
(* while `memo.mjs clear`, other terminals and time go on.                 *)
(***************************************************************************)
EXTENDS Naturals

CONSTANTS
  Session,     \* session ids
  Branch,      \* the repository's branches
  Protected,   \* main, master and NARAI_GIT_PROTECTED_BRANCHES
  Push,        \* gated push commands, by their text
  Ref,         \* refspecs: the branches' names, and other texts for them
  Named,       \* the branch a refspec names, as `refs/heads/main` does main
  Target,      \* the refspec a push command names, or None for the bare form
  PendingTTL,  \* PENDING_TTL_MS
  Idle,        \* the rule's idle_minutes
  MaxAge,      \* the rule's max_hours
  Sweep,       \* GRANT_SWEEP_MS
  MaxClock,    \* bound: how far time is followed
  MaxCalls,    \* bound: tool calls, clears and unseen switches together, at most
  None

ASSUME TimesAreNat == {PendingTTL, Idle, MaxAge, Sweep, MaxClock, MaxCalls} \subseteq Nat
ASSUME RefsNameBranches == /\ Branch \subseteq Ref
                           /\ Named \in [Ref -> Branch]
                           /\ \A b \in Branch : Named[b] = b
ASSUME TargetIsRef == Target \in [Push -> Ref \cup {None}]
ASSUME ProtectedIsBranch == Protected \subseteq Branch
ASSUME NoneIsNoRef == None \notin Ref \cup Push

VARIABLES
  head,      \* the branch checked out, None when HEAD is detached
  clock,
  budget,    \* how many of MaxCalls are left
  pending,   \* pending/<session>.<hash of command>.json
  grants,    \* grants/<gate>.<hash of scope>.json
  pc,        \* where each session's tool call is
  call,      \* the tool call's own data
  clearing,  \* whether `memo.mjs clear` stands between its two removals
  standing,  \* history: what each session has been granted and not lost
  racing,    \* history: whether a hook wrote a grant since `clear` began
  approved   \* history: the scopes whose prompt each session approved

vars == <<head, clock, budget, pending, grants, pc, call, clearing, standing, racing,
          approved>>
store == <<pending, grants>>
history == <<standing, racing, approved>>

Time == 0..MaxClock
PendingFile == [scope : Ref, at : Time]
GrantFile == [session : Session, granted : Time, used : Time]
ASSUME NoneIsNoRecord == None \notin [granted : Time, used : Time]
Pc == {"idle", "lookup", "replay", "miss", "ask", "run", "confirm", "promote",
       "head", "invalidate", "prune"}
\* The locals of a tool call, reset once they are dead.  cmd: the gated push,
\* or None for a switch, whose branch (None: `--detach`) is then `to`.  prompts: whether the
\* permission mode is one in which an ask reaches the operator.  scope: what
\* resolveScope returned, kept to the run of a push that was allowed unasked.
\* seen: the grant read.  at: the process's Date.now().  found: the scope of the
\* pending record, or the head, that the post-tool-use process read.  moved:
\* history, HEAD was switched since the scope was resolved.
Call == [cmd : Push \cup {None}, to : Branch \cup {None}, prompts : BOOLEAN,
         scope : Ref \cup {None}, seen : GrantFile \cup {None}, at : Time,
         found : Ref \cup {None}, moved : BOOLEAN]
NoCall == [cmd |-> None, to |-> None, prompts |-> FALSE, scope |-> None, seen |-> None,
           at |-> 0, found |-> None, moved |-> FALSE]

TypeOK ==
  /\ head \in Branch \cup {None}
  /\ clock \in Time
  /\ budget \in 0..MaxCalls
  /\ pending \in [Session \X Push -> PendingFile \cup {None}]
  /\ grants \in [Ref -> GrantFile \cup {None}]
  /\ pc \in [Session -> Pc]
  /\ call \in [Session -> Call]
  /\ clearing \in BOOLEAN
  /\ standing \in [Session \X Ref -> [granted : Time, used : Time] \cup {None}]
  /\ racing \in BOOLEAN
  /\ approved \subseteq Session \X (Ref \cup {None})

Init ==
  /\ head \in Branch
  /\ clock = 0
  /\ budget \in 0..MaxCalls
  /\ pending = [f \in Session \X Push |-> None]
  /\ grants = [r \in Ref |-> None]
  /\ pc = [s \in Session |-> "idle"]
  /\ call = [s \in Session |-> NoCall]
  /\ clearing = FALSE
  /\ standing = [f \in Session \X Ref |-> None]
  /\ racing = FALSE
  /\ approved = {}

----------------------------------------------------------------------------
\* The store.

\* A bug: the protected list is not consulted.
ScopeOfAnyBranch(c) == IF Target[c] = None THEN head ELSE Target[c]

\* resolveScope for scope "repo_branch": the refspec, else the branch checked
\* out now; never a detached head and never the name of a protected branch.
\* The refspec is taken by its text: another text for a protected branch is
\* not one of the names.
ResolveScope(c) ==
  LET r == IF Target[c] = None THEN head ELSE Target[c]
  IN  IF r \in Protected THEN None ELSE r

IsLive(g, s, now) ==
  /\ g # None
  /\ g.session = s
  /\ now - g.used < Idle
  /\ now - g.granted < MaxAge

PruneStore ==
  /\ pending' = [f \in Session \X Push |->
       IF pending[f] # None /\ clock - pending[f].at >= PendingTTL THEN None ELSE pending[f]]
  /\ grants' = [r \in Ref |->
       IF grants[r] # None /\ clock - grants[r].used >= Sweep THEN None ELSE grants[r]]

Spend == budget > 0 /\ budget' = budget - 1

Goto(s, p) == pc' = [pc EXCEPT ![s] = p]

----------------------------------------------------------------------------
\* The pre-tool-use process (memoHandleAsk).

\* The agent asks for a gated push.  A scope that cannot be resolved leaves a
\* plain ask: the store is not read, pruned or written.
Gate(s, c, prompts) ==
  /\ pc[s] = "idle"
  /\ call' = [call EXCEPT ![s] = [NoCall EXCEPT !.cmd = c, !.prompts = prompts,
                !.scope = ResolveScope(c)]]
  /\ Goto(s, IF ResolveScope(c) = None THEN "ask" ELSE "lookup")
  /\ Spend
  /\ UNCHANGED <<head, clock, store, clearing, history>>

Lookup(s) ==
  /\ pc[s] = "lookup"
  /\ PruneStore
  /\ LET g == grants'[call[s].scope]
     IN  /\ call' = [call EXCEPT ![s].seen = g, ![s].at = clock]
         /\ Goto(s, IF IsLive(g, s, clock) THEN "replay" ELSE "miss")
  /\ UNCHANGED <<head, clock, budget, clearing, history>>

\* A live grant: its last use is written back and the push is allowed.
Replay(s) ==
  /\ pc[s] = "replay"
  /\ LET r == call[s].scope
     IN  /\ grants' = [grants EXCEPT ![r] = [call[s].seen EXCEPT !.used = call[s].at]]
         /\ standing' = [standing EXCEPT ![<<s, r>>] =
              IF @ = None THEN @ ELSE [@ EXCEPT !.used = call[s].at]]
  /\ racing' = clearing
  /\ call' = [call EXCEPT ![s].seen = None, ![s].at = 0]
  /\ Goto(s, "run")
  /\ UNCHANGED <<head, clock, budget, pending, clearing, approved>>

\* No live grant: the ask stands, and is remembered.
Miss(s) ==
  /\ pc[s] = "miss"
  /\ pending' = [pending EXCEPT ![<<s, call[s].cmd>>] =
                   [scope |-> call[s].scope, at |-> call[s].at]]
  /\ call' = [call EXCEPT ![s].at = 0, ![s].seen = None, ![s].moved = FALSE]
  /\ Goto(s, "ask")
  /\ UNCHANGED <<head, clock, budget, grants, clearing, history>>

----------------------------------------------------------------------------
\* The prompt and the command.  A switch is not gated.

Approve(s) ==
  /\ pc[s] = "ask" /\ call[s].prompts
  /\ approved' = approved \cup {<<s, call[s].scope>>}
  /\ call' = [call EXCEPT ![s] = [NoCall EXCEPT !.cmd = call[s].cmd, !.prompts = TRUE]]
  /\ Goto(s, "run")
  /\ UNCHANGED <<head, clock, budget, store, clearing, standing, racing>>

Deny(s) ==
  /\ pc[s] = "ask" /\ call[s].prompts
  /\ Goto(s, "idle")
  /\ call' = [call EXCEPT ![s] = NoCall]
  /\ UNCHANGED <<head, clock, budget, store, clearing, history>>

\* bypassPermissions and the like: the ask runs without a click.
Bypass(s) ==
  /\ pc[s] = "ask" /\ ~call[s].prompts
  /\ call' = [call EXCEPT ![s] = [NoCall EXCEPT !.cmd = call[s].cmd]]
  /\ Goto(s, "run")
  /\ UNCHANGED <<head, clock, budget, store, clearing, history>>

BeginSwitch(s, b) ==
  /\ pc[s] = "idle"
  /\ call' = [call EXCEPT ![s] = [NoCall EXCEPT !.to = b]]
  /\ Goto(s, "run")
  /\ Spend
  /\ UNCHANGED <<head, clock, store, clearing, history>>

\* The scope of s's push was resolved, and is not used up.
Resolved(s) == pc[s] \in {"lookup", "replay", "run"} /\ call[s].scope # None

\* The calls when HEAD is switched to b.
CallsOnSwitch(b) ==
  [s \in Session |->
     IF Resolved(s) /\ b # head THEN [call[s] EXCEPT !.moved = TRUE] ELSE call[s]]

RunPush(s) ==
  /\ pc[s] = "run" /\ call[s].cmd # None
  /\ Goto(s, "confirm")
  /\ call' = [call EXCEPT ![s].scope = None, ![s].moved = FALSE]
  /\ UNCHANGED <<head, clock, budget, store, clearing, history>>

RunSwitch(s) ==
  /\ pc[s] = "run" /\ call[s].cmd = None
  /\ Goto(s, "head")
  /\ head' = call[s].to
  /\ call' = [CallsOnSwitch(call[s].to) EXCEPT ![s].to = None]
  /\ UNCHANGED <<clock, budget, store, clearing, history>>

----------------------------------------------------------------------------
\* The post-tool-use process (memoHandlePostToolUse).

\* A bug: the permission mode is not looked at.
ConfirmAnyMode(s) ==
  LET p == pending[<<s, call[s].cmd>>]
  IN  /\ pc[s] = "confirm"
      /\ pending' = [pending EXCEPT ![<<s, call[s].cmd>>] = None]
      /\ IF p # None /\ clock - p.at < PendingTTL
         THEN Goto(s, "promote") /\ call' = [call EXCEPT ![s].found = p.scope, ![s].at = clock]
         ELSE Goto(s, "prune") /\ UNCHANGED call
      /\ UNCHANGED <<head, clock, budget, grants, clearing, history>>

\* The pending record of this session and command text is taken out of the
\* store, whatever it was about and however the command came to run.
Confirm(s) ==
  LET p == pending[<<s, call[s].cmd>>]
  IN  /\ pc[s] = "confirm"
      /\ pending' = [pending EXCEPT ![<<s, call[s].cmd>>] = None]
      /\ IF p # None /\ call[s].prompts /\ clock - p.at < PendingTTL
         THEN Goto(s, "promote") /\ call' = [call EXCEPT ![s].found = p.scope, ![s].at = clock]
         ELSE Goto(s, "prune") /\ UNCHANGED call
      /\ UNCHANGED <<head, clock, budget, grants, clearing, history>>

Promote(s) ==
  LET r == call[s].found
  IN  /\ pc[s] = "promote"
      /\ grants' = [grants EXCEPT ![r] =
                      [session |-> s, granted |-> call[s].at, used |-> call[s].at]]
      /\ standing' = [standing EXCEPT ![<<s, r>>] = [granted |-> call[s].at, used |-> call[s].at]]
      /\ racing' = clearing
      /\ Goto(s, "prune")
      /\ UNCHANGED <<head, clock, budget, pending, call, clearing, approved>>

\* After a switch: `git rev-parse --abbrev-ref HEAD`, ...
SeeHead(s) ==
  /\ pc[s] = "head"
  /\ call' = [call EXCEPT ![s].found = head]
  /\ Goto(s, "invalidate")
  /\ UNCHANGED <<head, clock, budget, store, clearing, history>>

\* A process that has read the store and is about to write a grant.
Writing == {s \in Session : pc[s] \in {"replay", "promote"}}

\* A bug: the switch is not acted on.
InvalidateNothing(s) ==
  /\ pc[s] = "invalidate"
  /\ Goto(s, "prune")
  /\ standing' = IF Writing # {} THEN standing
                 ELSE [f \in Session \X Ref |->
                         IF f[2] # call[s].found THEN None ELSE standing[f]]
  /\ UNCHANGED <<head, clock, budget, store, call, clearing, racing, approved>>

\* ... and the grants of every other branch go, and those under another text.
Invalidate(s) ==
  /\ pc[s] = "invalidate"
  /\ grants' = [r \in Ref |-> IF r # call[s].found THEN None ELSE grants[r]]
  /\ standing' = IF Writing # {} THEN standing
                 ELSE [f \in Session \X Ref |->
                         IF f[2] # call[s].found THEN None ELSE standing[f]]
  /\ Goto(s, "prune")
  /\ UNCHANGED <<head, clock, budget, pending, call, clearing, racing, approved>>

Prune(s) ==
  /\ pc[s] = "prune"
  /\ PruneStore
  /\ Goto(s, "idle")
  /\ call' = [call EXCEPT ![s] = NoCall]
  /\ UNCHANGED <<head, clock, budget, clearing, history>>

----------------------------------------------------------------------------
\* `memo.mjs clear`: every grant, then the pending directory.

ClearGrants ==
  /\ ~clearing
  /\ clearing' = TRUE
  /\ grants' = [r \in Ref |-> None]
  /\ racing' = (Writing # {})
  /\ Spend
  /\ UNCHANGED <<head, clock, pending, pc, call, standing, approved>>

ClearPending ==
  /\ clearing
  /\ clearing' = FALSE
  /\ pending' = [f \in Session \X Push |-> None]
  /\ standing' = IF racing \/ Writing # {} THEN standing
                 ELSE [f \in Session \X Ref |-> None]
  /\ racing' = FALSE
  /\ UNCHANGED <<head, clock, budget, grants, pc, call, approved>>

\* A switch in another terminal, which no hook sees.
SwitchUnseen ==
  /\ head' \in (Branch \cup {None}) \ {head}
  /\ call' = CallsOnSwitch(head')
  /\ Spend
  /\ UNCHANGED <<clock, store, pc, clearing, history>>

Tick ==
  /\ clock < MaxClock
  /\ clock' = clock + 1
  /\ UNCHANGED <<head, budget, store, pc, call, clearing, history>>

Next ==
  \/ \E s \in Session, c \in Push, prompts \in BOOLEAN : Gate(s, c, prompts)
  \/ \E s \in Session, b \in Branch \cup {None} : BeginSwitch(s, b)
  \/ \E s \in Session :
       \/ Lookup(s) \/ Replay(s) \/ Miss(s)
       \/ Approve(s) \/ Deny(s) \/ Bypass(s)
       \/ RunPush(s) \/ RunSwitch(s)
       \/ Confirm(s) \/ Promote(s) \/ SeeHead(s) \/ Invalidate(s) \/ Prune(s)
  \/ ClearGrants \/ ClearPending
  \/ SwitchUnseen
  \/ Tick

Spec == Init /\ [][Next]_vars
----------------------------------------------------------------------------
\* Properties.

\* A push that was allowed without a prompt and is about to run, and the
\* branch it pushes (None: there is none, and the push fails).
Unprompted(s) == pc[s] = "run" /\ call[s].cmd # None /\ call[s].scope # None
Pushed(s) == IF Target[call[s].cmd] = None THEN head ELSE Named[Target[call[s].cmd]]

\* HEAD was switched under a bare push between the look at it and the push.
Diverted(s) == Target[call[s].cmd] = None /\ call[s].moved

\* A push is allowed unprompted only when it is backed, in an ideal store that
\* each session has for itself, by an approval for its very scope that is
\* neither idle nor too old, and that no observed switch of branches and no
\* `clear` has withdrawn (where a hook had read the store before a withdrawal
\* and wrote after it, `standing` keeps the approval); and what is then pushed
\* is the branch of that scope, unless HEAD was switched in between.
ReplayIsBacked ==
  \A s \in Session :
    /\ pc[s] = "replay" =>
         LET a == standing[<<s, call[s].scope>>]
         IN  a # None /\ call[s].at - a.used < Idle /\ call[s].at - a.granted < MaxAge
    /\ Unprompted(s) => Pushed(s) = Named[call[s].scope] \/ Diverted(s)

HasApproved(s) == \E r \in Ref \cup {None} : <<s, r>> \in approved

\* "The first ask always happens": a session that holds a grant, or is about
\* to push under one, has had a prompt approved by its operator; no mode
\* that skips prompts and no other session's approval gets it there.
FirstAskHappens ==
  /\ \A r \in Ref : grants[r] # None => HasApproved(grants[r].session)
  /\ \A s \in Session : pc[s] = "replay" => HasApproved(s)

\* "A protected branch is never a memoizable workload": no sequence of asks,
\* switches, promotions and replays leaves a grant or a pending record for the
\* name of one, and a push goes to one without a prompt only when its command
\* names the branch by another text than its name, or when HEAD was switched
\* to it between the look at HEAD and the push.
NamesAreUngranted ==
  \A b \in Protected :
    /\ grants[b] = None
    /\ \A f \in Session \X Push : pending[f] = None \/ pending[f].scope # b
ProtectedIsAsked ==
  /\ NamesAreUngranted
  /\ \A s \in Session : Unprompted(s) /\ Pushed(s) \in Protected =>
       Target[call[s].cmd] \notin Branch /\ (Target[call[s].cmd] = None => Diverted(s))

\* "A grant is created only after a real approval": every grant stands for
\* the scope of a prompt that its session's operator approved.
GrantIsForApprovedScope ==
  \A r \in Ref : grants[r] # None => <<grants[r].session, r>> \in approved

=============================================================================

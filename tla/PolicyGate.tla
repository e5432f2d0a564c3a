----------------------------- MODULE PolicyGate -----------------------------
(***************************************************************************)
(* The connectors' policy gate: what the operator's two YAML files say     *)
(* (src/toolkit/policy/config.ts), how they are merged and validated into  *)
(* rules, and how a classified call is decided from those rules and the    *)
(* approval mode (src/toolkit/policy/gate.ts).  All of it is pure: the     *)
(* module has no variables.                                                *)
(*                                                                         *)
(* A configuration file is NoFile (absent), Malformed (not a YAML mapping) *)
(* or a record [policy, mode].  policy is a mapping (Section), Unset when  *)
(* the file does not mention it, Null when its value is empty, Invalid     *)
(* when it is anything else; mode likewise.  In a section a key is Unset,  *)
(* a rule or Invalid: an empty rule is no rule, and validateRule throws.   *)
(***************************************************************************)
EXTENDS Naturals

CONSTANTS
  Aspect,       \* the free-form aspects an action may carry
  FloorAspect,  \* the aspects a connector declares in policyFloorAspects
  Unset,        \* a key a file does not mention
  Null,         \* a key a file gives the empty value: YAML's null
  Invalid,      \* a key with a value outside its vocabulary
  NoFile,       \* an absent configuration file
  Malformed,    \* a file, or a merged configuration, whose loading throws
  NoConfig      \* loadPolicyConfig's null: neither file exists

Kind == {"read", "write", "admin"}
Rule == {"success", "escalate", "denied"}
ApprovalMode == {"auto", "confirm_once", "confirm_each", "grant_required"}

ASSUME FloorIsAspect == FloorAspect \subseteq Aspect

NoAspects == [a \in Aspect |-> Unset]

\* The rules a validated configuration yields.  `admin` is a RestrictedRule.
Rules == [read : Rule, write : Rule, admin : Rule \ {"success"},
          aspects : [Aspect -> Rule \cup {Unset}]]
LoadedPolicy == [rules : Rules, mode : ApprovalMode]

ASSUME LoadsAreDistinct == /\ NoConfig # Malformed
                           /\ {NoConfig, Malformed} \cap LoadedPolicy = {}

FileRule == Rule \cup {Invalid, Unset}
Section == [read : FileRule, write : FileRule, admin : FileRule,
            aspects : [Aspect -> FileRule] \cup {Invalid, Unset}]
ConfigFile == [policy : Section \cup {Null, Invalid, Unset},
               mode : ApprovalMode \cup {Null, Invalid, Unset}]

ASSUME ValuesAreDistinct ==
  /\ Unset # Null /\ Unset # Invalid /\ Null # Invalid
  /\ \A v \in {Unset, Null, Invalid} :
       /\ v \notin Rule \cup ApprovalMode
       /\ v \notin [Aspect -> FileRule]
       /\ v \notin Section

Classification == [kind : Kind, aspects : SUBSET Aspect]

DefaultPolicy == [read |-> "success", write |-> "escalate", admin |-> "denied",
                  aspects |-> NoAspects]

----------------------------------------------------------------------------
\* Loading: discover, merge, validate.

Overlay(base, over) == IF over = Unset THEN base ELSE over

\* isPlainObject, of a value that is a mapping or one of the three words.
IsMapping(v) == v \notin {Unset, Null, Invalid}

\* deepMerge: the overlay wins key by key, nested mappings are merged, and
\* anything else, an empty value included, replaces what it overlays.
MergeSections(base, over) ==
  [read    |-> Overlay(base.read, over.read),
   write   |-> Overlay(base.write, over.write),
   admin   |-> Overlay(base.admin, over.admin),
   aspects |-> IF IsMapping(base.aspects) /\ IsMapping(over.aspects)
               THEN [a \in Aspect |-> Overlay(base.aspects[a], over.aspects[a])]
               ELSE Overlay(base.aspects, over.aspects)]

DeepMerge(base, over) ==
  [policy |-> IF IsMapping(base.policy) /\ IsMapping(over.policy)
              THEN MergeSections(base.policy, over.policy)
              ELSE Overlay(base.policy, over.policy),
   mode   |-> Overlay(base.mode, over.mode)]

\* A misreading of the safety floor: only the connector's own floor aspects are checked.
AspectFloorOnly(section) ==
  IsMapping(section.aspects) /\ \E a \in FloorAspect : section.aspects[a] = "success"

\* The safety floor: admin and the floor aspects cannot be "success".
BreaksFloor(section) ==
  \/ section.admin = "success"
  \/ IsMapping(section.aspects) /\ \E a \in FloorAspect : section.aspects[a] = "success"

HasInvalidValue(section) ==
  \/ Invalid \in {section.read, section.write, section.admin, section.aspects}
  \/ IsMapping(section.aspects) /\ \E a \in Aspect : section.aspects[a] = Invalid

\* validateRules: what a section leaves out comes from DEFAULT_POLICY (whose
\* aspects are empty), never from the connector's own defaultPolicy; and so
\* does everything if there is no section, or an empty one.
ValidRules(policy) ==
  IF IsMapping(policy)
  THEN [read    |-> Overlay(DefaultPolicy.read, policy.read),
        write   |-> Overlay(DefaultPolicy.write, policy.write),
        admin   |-> Overlay(DefaultPolicy.admin, policy.admin),
        aspects |-> Overlay(DefaultPolicy.aspects, policy.aspects)]
  ELSE DefaultPolicy

\* validateApprovalMode: an empty mode is as good as none.
ValidMode(mode) == IF mode \in {Unset, Null} THEN "auto" ELSE mode

ValidatePolicyConfig(file) ==
  IF \/ Invalid \in {file.policy, file.mode}
     \/ IsMapping(file.policy) /\ (BreaksFloor(file.policy) \/ HasInvalidValue(file.policy))
  THEN Malformed
  ELSE [rules |-> ValidRules(file.policy), mode |-> ValidMode(file.mode)]

\* loadPolicyConfig merges first and validates what came out.
Merged(user, repo) ==
  CASE user = NoFile -> repo
    [] repo = NoFile -> user
    [] OTHER         -> DeepMerge(user, repo)

LoadPolicyConfig(user, repo) ==
  CASE user = NoFile /\ repo = NoFile       -> NoConfig
    [] user = Malformed \/ repo = Malformed -> Malformed
    [] OTHER -> ValidatePolicyConfig(Merged(user, repo))

----------------------------------------------------------------------------
\* Deciding.

RuleRank == [success |-> 0, escalate |-> 1, denied |-> 2]

Strictest(S) == CHOOSE r \in S : \A q \in S : RuleRank[q] <= RuleRank[r]

\* A bug in the style of a lookup that lets an aspect replace the kind's rule.
AspectReplacesKind(c, rules) ==
  LET named == {a \in c.aspects : rules.aspects[a] # Unset}
  IN  IF named = {} THEN rules[c.kind] ELSE Strictest({rules.aspects[a] : a \in named})

\* The kind's rule, tightened by every declared aspect the rules mention.
CombinedRule(c, rules) ==
  Strictest({rules[c.kind]} \cup
            {rules.aspects[a] : a \in {b \in c.aspects : rules.aspects[b] # Unset}})

ResolveApprovalMode(mode, sessionApproved, readGrant) ==
  CASE mode = "auto"           -> "success"
    [] mode = "confirm_once"   -> IF sessionApproved THEN "success" ELSE "escalate"
    [] mode = "confirm_each"   -> "escalate"
    [] mode = "grant_required" -> IF readGrant THEN "success" ELSE "denied"

\* Only a permitted read goes on to the approval mode.
CheckPolicy(c, rules, mode, sessionApproved, readGrant) ==
  LET rule == CombinedRule(c, rules)
  IN  IF rule = "success" /\ c.kind = "read"
      THEN ResolveApprovalMode(mode, sessionApproved, readGrant)
      ELSE rule

=============================================================================

-------------------------- MODULE PolicyGateProofs --------------------------
(***************************************************************************)
(* Facts about the policy gate that the proofs about its users share: what *)
(* a combined rule and a decision let through, and what merging and        *)
(* validating the operator's files preserve.                               *)
(***************************************************************************)
EXTENDS PolicyGate, TLAPS

\* The strictest of some rules is one of them, and none is stricter.
LEMMA StrictestIsGreatest ==
  ASSUME NEW S \in SUBSET Rule, S # {}
  PROVE  /\ Strictest(S) \in S
         /\ \A q \in S : RuleRank[q] <= RuleRank[Strictest(S)]
<1>1. \E r \in S : \A q \in S : RuleRank[q] <= RuleRank[r]
  <2>1. CASE "denied" \in S
    BY <2>1 DEF RuleRank, Rule
  <2>2. CASE "denied" \notin S /\ "escalate" \in S
    BY <2>2 DEF RuleRank, Rule
  <2>3. CASE S = {"success"}
    BY <2>3 DEF RuleRank, Rule
  <2> QED BY <2>1, <2>2, <2>3 DEF Rule
<1> QED BY <1>1 DEF Strictest

\* The gate answers with one of the three rules, and with "success" only if
\* neither the kind nor any aspect of the call has a stricter one, and, for a
\* read, only in mode "auto" (as long as nobody approves or grants).
LEMMA GateIsStrict ==
  ASSUME NEW c \in Classification, NEW R \in Rules, NEW m \in ApprovalMode
  PROVE  /\ CheckPolicy(c, R, m, FALSE, FALSE) \in Rule
         /\ CheckPolicy(c, R, m, FALSE, FALSE) = "success" =>
              /\ R[c.kind] = "success"
              /\ \A a \in c.aspects : R.aspects[a] \in {"success", Unset}
              /\ c.kind = "read" => m = "auto"
<1> DEFINE named == {a \in c.aspects : R.aspects[a] # Unset}
           S == {R[c.kind]} \cup {R.aspects[a] : a \in named}
<1>1. R[c.kind] \in Rule
  BY DEF Classification, Kind, Rules
<1>2. \A a \in named : R.aspects[a] \in Rule
  BY DEF Classification, Rules
<1>3. S \in SUBSET Rule /\ S # {}
  BY <1>1, <1>2
<1>4. CombinedRule(c, R) = Strictest(S)
  BY DEF CombinedRule
<1> HIDE DEF S
<1>5. /\ CombinedRule(c, R) \in Rule
      /\ \A q \in S : RuleRank[q] <= RuleRank[CombinedRule(c, R)]
  BY <1>3, <1>4, StrictestIsGreatest
<1>6. CombinedRule(c, R) = "success" => \A q \in S : q = "success"
  BY <1>3, <1>5 DEF RuleRank, Rule
<1>7. CombinedRule(c, R) = "success" =>
        /\ R[c.kind] = "success"
        /\ \A a \in c.aspects : R.aspects[a] \in {"success", Unset}
  BY <1>6 DEF S
<1>8. ResolveApprovalMode(m, FALSE, FALSE) \in Rule
  BY DEF ResolveApprovalMode, ApprovalMode, Rule
<1>9. ResolveApprovalMode(m, FALSE, FALSE) = "success" => m = "auto"
  BY DEF ResolveApprovalMode, ApprovalMode
<1> QED BY <1>5, <1>7, <1>8, <1>9 DEF CheckPolicy

\* Conversely, a classification whose kind and aspects are all permitted is.
LEMMA PermittedPartsPermit ==
  ASSUME NEW c \in Classification, NEW R \in Rules, R[c.kind] = "success",
         \A a \in c.aspects : R.aspects[a] \in {"success", Unset}
  PROVE  CombinedRule(c, R) = "success"
<1>1. {R[c.kind]} \cup {R.aspects[a] : a \in {b \in c.aspects : R.aspects[b] # Unset}}
        = {"success"}
  OBVIOUS
<1>2. Strictest({"success"}) = "success"
  BY DEF Strictest, RuleRank
<1> QED BY <1>1, <1>2 DEF CombinedRule

\* A mapping is a section, or a function on aspects, and nothing else.
LEMMA MappingsAreTyped ==
  /\ \A p \in Section \cup {Null, Invalid, Unset} : IsMapping(p) <=> p \in Section
  /\ \A v \in [Aspect -> FileRule] \cup {Invalid, Unset} :
       IsMapping(v) <=> v \in [Aspect -> FileRule]
<1>1. \A v \in {Unset, Null, Invalid} : v \notin Section /\ v \notin [Aspect -> FileRule]
  BY ValuesAreDistinct
<1>2. \A p \in Section \cup {Null, Invalid, Unset} : IsMapping(p) <=> p \in Section
  BY <1>1, Zenon DEF IsMapping
<1>3. \A v \in [Aspect -> FileRule] \cup {Invalid, Unset} :
        IsMapping(v) <=> v \in [Aspect -> FileRule]
  BY <1>1, Zenon DEF IsMapping
<1> QED BY <1>2, <1>3

\* Two sections merge into a section.
LEMMA MergedSectionIsTyped ==
  ASSUME NEW p \in Section, NEW q \in Section
  PROVE  MergeSections(p, q) \in Section
<1>1. ASSUME IsMapping(p.aspects), IsMapping(q.aspects)
      PROVE  [a \in Aspect |-> Overlay(p.aspects[a], q.aspects[a])] \in [Aspect -> FileRule]
  <2>1. p.aspects \in [Aspect -> FileRule] /\ q.aspects \in [Aspect -> FileRule]
    BY <1>1, MappingsAreTyped DEF Section
  <2> QED BY <2>1 DEF Overlay
<1>2. MergeSections(p, q).aspects \in [Aspect -> FileRule] \cup {Invalid, Unset}
  BY <1>1 DEF MergeSections, Overlay, Section
<1>3. /\ MergeSections(p, q).read \in FileRule
      /\ MergeSections(p, q).write \in FileRule
      /\ MergeSections(p, q).admin \in FileRule
  BY DEF MergeSections, Overlay, Section
<1> QED BY <1>2, <1>3 DEF MergeSections, Section

\* Merging keeps a configuration a configuration.
LEMMA MergeIsTyped ==
  ASSUME NEW u \in ConfigFile, NEW r \in ConfigFile
  PROVE  DeepMerge(u, r) \in ConfigFile
<1>1. u.policy \in Section \cup {Null, Invalid, Unset}
      /\ r.policy \in Section \cup {Null, Invalid, Unset}
  BY DEF ConfigFile
<1>2. DeepMerge(u, r).policy \in Section \cup {Null, Invalid, Unset}
  <2>1. CASE IsMapping(u.policy) /\ IsMapping(r.policy)
    <3>1. u.policy \in Section /\ r.policy \in Section
      BY <1>1, <2>1, MappingsAreTyped
    <3> QED BY <2>1, <3>1, MergedSectionIsTyped DEF DeepMerge
  <2>2. CASE ~(IsMapping(u.policy) /\ IsMapping(r.policy))
    BY <1>1, <2>2 DEF DeepMerge, Overlay
  <2> QED BY <2>1, <2>2
<1>3. DeepMerge(u, r).mode \in ApprovalMode \cup {Null, Invalid, Unset}
  BY DEF DeepMerge, Overlay, ConfigFile
<1> QED BY <1>2, <1>3 DEF DeepMerge, ConfigFile

\* Validation lets no invalid value and no permitted admin through.
LEMMA ValidatedIsTyped ==
  ASSUME NEW f \in ConfigFile
  PROVE  ValidatePolicyConfig(f) \in LoadedPolicy \cup {Malformed}
<1> DEFINE p == f.policy
<1> SUFFICES ASSUME Invalid \notin {p, f.mode},
                    IsMapping(p) => ~BreaksFloor(p) /\ ~HasInvalidValue(p)
             PROVE  ValidatePolicyConfig(f) \in LoadedPolicy
  BY DEF ValidatePolicyConfig
<1>1. ValidMode(f.mode) \in ApprovalMode
  BY DEF ValidMode, ConfigFile, ApprovalMode
<1>2. ASSUME IsMapping(p)
      PROVE  ValidRules(p) \in Rules
  <2>1. p \in Section
    BY <1>2, MappingsAreTyped DEF ConfigFile
  <2>2. Invalid \notin {p.read, p.write, p.admin, p.aspects} /\ p.admin # "success"
    BY <1>2 DEF HasInvalidValue, BreaksFloor
  <2>3. /\ Overlay(DefaultPolicy.read, p.read) \in Rule
        /\ Overlay(DefaultPolicy.write, p.write) \in Rule
        /\ Overlay(DefaultPolicy.admin, p.admin) \in Rule \ {"success"}
    BY <2>1, <2>2 DEF Overlay, DefaultPolicy, Section, FileRule, Rule
  <2>4. Overlay(DefaultPolicy.aspects, p.aspects) \in [Aspect -> Rule \cup {Unset}]
    <3>1. CASE p.aspects = Unset
      BY <3>1 DEF Overlay, DefaultPolicy, NoAspects
    <3>2. CASE p.aspects # Unset
      <4>1. p.aspects \in [Aspect -> FileRule]
        BY <2>1, <2>2, <3>2 DEF Section
      <4>2. IsMapping(p.aspects)
        BY <4>1, MappingsAreTyped
      <4>3. \A a \in Aspect : p.aspects[a] # Invalid
        BY <1>2, <4>2 DEF HasInvalidValue
      <4> QED BY <3>2, <4>1, <4>3 DEF Overlay, FileRule
    <3> QED BY <3>1, <3>2
  <2> QED BY <1>2, <2>3, <2>4 DEF ValidRules, Rules
<1>3. ASSUME ~IsMapping(p)
      PROVE  ValidRules(p) \in Rules
  BY <1>3 DEF ValidRules, DefaultPolicy, NoAspects, Rules, Rule
<1> QED BY <1>1, <1>2, <1>3 DEF ValidatePolicyConfig, LoadedPolicy

=============================================================================

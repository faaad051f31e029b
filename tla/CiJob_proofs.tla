------------------------------ MODULE CiJob_proofs ------------------------------
(***************************************************************************)
(* What the comparison of two analyses and the policies see to, for all    *)
(* analyses whose sets of records are finite; then proofs about CiJob, for *)
(* every set of revisions, analyses and configurations that satisfies its  *)
(* assumptions.                                                            *)
(***************************************************************************)
EXTENDS CiJob, FiniteSetTheorems, TLAPS

-----------------------------------------------------------------------------
(* Finite sets.                                                             *)

(* A set of at most one member.                                             *)
LEMMA AtMostOne ==
  ASSUME NEW S, IsFiniteSet(S), ~(Cardinality(S) > 1), NEW x \in S
  PROVE  S = {x} /\ Cardinality(S) = 1
<1>1. Cardinality(S) \in Nat /\ Cardinality(S) # 0
  BY FS_CardinalityType, FS_EmptySet
<1>2. Cardinality(S) = 1
  BY <1>1
<1>3. PICK y : S = {y}
  BY <1>2, FS_Singleton
<1>4. QED
  BY <1>2, <1>3

LEMMA FinitePart ==
  ASSUME NEW S, IsFiniteSet(S), NEW T, T \subseteq S
  PROVE  IsFiniteSet(T)
BY FS_Subset

-----------------------------------------------------------------------------
(* Endpoints.                                                               *)

LEMMA BlockedMeans ==
  ASSUME NEW b, NEW c, NEW id
  PROVE  id \in BlockedIds(b, c) <=>
           \/ \E s \in DuplicateSlots(b, c) : id \in Ids(InSlot(b, s) \cup InSlot(c, s))
           \/ \E s \in Slots(b, c) : id \in Ids(Ambiguous(b, s) \cup Ambiguous(c, s))
<1> DEFINE shared  == UNION {Ids(InSlot(b, s) \cup InSlot(c, s)) : s \in DuplicateSlots(b, c)}
           unclear == UNION {Ids(Ambiguous(b, s) \cup Ambiguous(c, s)) : s \in Slots(b, c)}
<1>1. BlockedIds(b, c) = shared \cup unclear
  BY DEF BlockedIds
<1>2. id \in shared <=>
        \E s \in DuplicateSlots(b, c) : id \in Ids(InSlot(b, s) \cup InSlot(c, s))
  OBVIOUS
<1>3. id \in unclear <=>
        \E s \in Slots(b, c) : id \in Ids(Ambiguous(b, s) \cup Ambiguous(c, s))
  OBVIOUS
<1> HIDE DEF shared, unclear
<1>4. QED
  BY <1>1, <1>2, <1>3

(* An endpoint that may be matched is alone in its slot and not ambiguous.   *)
LEMMA AvailableAlone ==
  ASSUME NEW b, NEW c, NEW a \in {b, c}, IsFiniteSet(a.endpoints), NEW e \in Available(a, b, c)
  PROVE  InSlot(a, e.slot) = {e} /\ IdentityStatus(a, e) # "ambiguous"
<1>1. e \in a.endpoints /\ e.id \notin BlockedIds(b, c) /\ e \in InSlot(a, e.slot)
  BY DEF Available, InSlot
<1>2. e.slot \in Slots(b, c)
  BY <1>1 DEF Slots
<1>3. e.slot \notin DuplicateSlots(b, c)
  <2>1. e.id \in Ids(InSlot(b, e.slot) \cup InSlot(c, e.slot))
    BY <1>1 DEF Ids
  <2>2. QED
    BY <1>1, <2>1, BlockedMeans
<1>4. ~(Cardinality(InSlot(a, e.slot)) > 1)
  BY <1>2, <1>3 DEF DuplicateSlots
<1>5. IsFiniteSet(InSlot(a, e.slot))
  BY FinitePart DEF InSlot
<1>6. IdentityStatus(a, e) # "ambiguous"
  <2>1. SUFFICES ASSUME IdentityStatus(a, e) = "ambiguous" PROVE FALSE
    OBVIOUS
  <2>2. e \in Ambiguous(b, e.slot) \cup Ambiguous(c, e.slot)
    BY <1>1, <2>1 DEF Ambiguous
  <2>3. e.id \in Ids(Ambiguous(b, e.slot) \cup Ambiguous(c, e.slot))
    BY <2>2 DEF Ids
  <2>4. QED
    BY <1>1, <1>2, <2>3, BlockedMeans
<1>7. QED
  BY <1>1, <1>4, <1>5, <1>6, AtMostOne

(* Where no endpoint of a slot is one of several or ambiguous, all may be    *)
(* matched: identifiers tell the slots apart.                               *)
LEMMA CertainSlot ==
  ASSUME NEW b, NEW c, IdentifiersTell(b, c), NEW a \in {b, c}, NEW e \in a.endpoints,
         e.slot \notin DuplicateSlots(b, c),
         Ambiguous(b, e.slot) \cup Ambiguous(c, e.slot) = {}
  PROVE  e \in Available(a, b, c)
<1>1. \A x \in b.endpoints \cup c.endpoints : x.id = e.id => x.slot = e.slot
  BY DEF IdentifiersTell
<1>2. \A s \in DuplicateSlots(b, c) : e.id \notin Ids(InSlot(b, s) \cup InSlot(c, s))
  BY <1>1 DEF Ids, InSlot
<1>3. \A s \in Slots(b, c) : e.id \notin Ids(Ambiguous(b, s) \cup Ambiguous(c, s))
  <2>1. \A s : \A x \in Ambiguous(b, s) \cup Ambiguous(c, s) :
           x \in b.endpoints \cup c.endpoints /\ x.slot = s
    BY DEF Ambiguous, InSlot
  <2>2. QED
    BY <1>1, <2>1 DEF Ids
<1>4. e.id \notin BlockedIds(b, c)
  BY <1>2, <1>3, BlockedMeans
<1>5. QED
  BY <1>4 DEF Available

LEMMA PairFacts ==
  ASSUME NEW b, NEW c, NEW p \in Pairs(b, c)
  PROVE  p[1] \in Available(b, b, c) /\ p[2] \in Available(c, b, c) /\ p[1].slot = p[2].slot
<1>1. CASE p \in ExactPairs(b, c)
  <2>1. /\ p[1] \in Available(b, b, c) /\ p[2] \in Available(c, b, c)
        /\ ExactKey(b, p[1]) # NoKey /\ ExactKey(c, p[2]) # NoKey
        /\ ExactKey(b, p[1]) = ExactKey(c, p[2])
    BY <1>1 DEF ExactPairs
  <2>2. ASSUME NEW a, NEW e, ExactKey(a, e) # NoKey
        PROVE  ExactKey(a, e).slot = e.slot
    BY <2>2 DEF ExactKey
  <2>3. QED
    BY <2>1, <2>2
<1>2. CASE p \in SlotPairs(b, c)
  BY <1>2 DEF SlotPairs
<1>3. QED
  BY <1>1, <1>2 DEF Pairs

(* A pair shares its slot, and both of its endpoints are certain.           *)
THEOREM PairsAreCertain ==
  ASSUME NEW b, NEW c, IsFiniteSet(b.endpoints), IsFiniteSet(c.endpoints),
         NEW p \in Pairs(b, c)
  PROVE  /\ p[1] \in b.endpoints /\ p[2] \in c.endpoints /\ p[1].slot = p[2].slot
         /\ InSlot(b, p[1].slot) = {p[1]} /\ IdentityStatus(b, p[1]) # "ambiguous"
         /\ InSlot(c, p[2].slot) = {p[2]} /\ IdentityStatus(c, p[2]) # "ambiguous"
<1>1. p[1] \in Available(b, b, c) /\ p[2] \in Available(c, b, c) /\ p[1].slot = p[2].slot
  BY PairFacts
<1>2. InSlot(b, p[1].slot) = {p[1]} /\ IdentityStatus(b, p[1]) # "ambiguous"
  BY <1>1, AvailableAlone
<1>3. InSlot(c, p[2].slot) = {p[2]} /\ IdentityStatus(c, p[2]) # "ambiguous"
  BY <1>1, AvailableAlone
<1>4. QED
  BY <1>1, <1>2, <1>3 DEF Available

(* No endpoint is matched twice.                                            *)
THEOREM PairedOnce ==
  ASSUME NEW b, NEW c, IsFiniteSet(b.endpoints), IsFiniteSet(c.endpoints),
         NEW p \in Pairs(b, c), NEW q \in Pairs(b, c)
  PROVE  p[1] = q[1] <=> p[2] = q[2]
<1>1. /\ p[1] \in b.endpoints /\ p[2] \in c.endpoints /\ p[1].slot = p[2].slot
      /\ InSlot(b, p[1].slot) = {p[1]} /\ InSlot(c, p[2].slot) = {p[2]}
  BY PairsAreCertain
<1>2. /\ q[1] \in b.endpoints /\ q[2] \in c.endpoints /\ q[1].slot = q[2].slot
      /\ InSlot(b, q[1].slot) = {q[1]} /\ InSlot(c, q[2].slot) = {q[2]}
  BY PairsAreCertain
<1>3. p[1].slot = q[1].slot => p[1] = q[1] /\ p[2] = q[2]
  BY <1>1, <1>2
<1>4. QED
  BY <1>1, <1>2, <1>3

(* Where an endpoint of a slot is gone and another one has come, they were   *)
(* not matched because the slot or an identity is ambiguous, and the         *)
(* comparison says so.                                                      *)
THEOREM UnmatchedIsListed ==
  ASSUME NEW b, NEW c, IdentifiersTell(b, c),
         NEW e \in Removed(b, c), NEW f \in Added(b, c), e.slot = f.slot
  PROVE  \E x \in EndpointAmbiguities(b, c) : x.key = SlotKey(e.slot)
<1>1. e \in b.endpoints /\ f \in c.endpoints /\ e.slot \in Slots(b, c)
  BY DEF Removed, Added, Slots
<1>2. CASE e.slot \in DuplicateSlots(b, c)
  <2>1. SlotAmbiguity(b, c, e.slot) \in EndpointAmbiguities(b, c)
    BY <1>2 DEF EndpointAmbiguities
  <2>2. SlotAmbiguity(b, c, e.slot).key = SlotKey(e.slot)
    BY DEF SlotAmbiguity
  <2>3. QED
    BY <2>1, <2>2
<1>3. CASE /\ e.slot \notin DuplicateSlots(b, c)
           /\ Ambiguous(b, e.slot) \cup Ambiguous(c, e.slot) # {}
  <2>1. ExactAmbiguity(b, c, e.slot) \in EndpointAmbiguities(b, c)
    BY <1>1, <1>3 DEF EndpointAmbiguities
  <2>2. ExactAmbiguity(b, c, e.slot).key = SlotKey(e.slot)
    BY DEF ExactAmbiguity
  <2>3. QED
    BY <2>1, <2>2
<1>4. CASE /\ e.slot \notin DuplicateSlots(b, c)
           /\ Ambiguous(b, e.slot) \cup Ambiguous(c, e.slot) = {}
  <2>1. e \in Available(b, b, c) /\ f \in Available(c, b, c)
    BY <1>1, <1>4, CertainSlot
  <2>2. e \notin {p[1] : p \in ExactPairs(b, c)} /\ f \notin {p[2] : p \in ExactPairs(b, c)}
    BY DEF Removed, Added, Pairs
  <2>3. <<e, f>> \in SlotPairs(b, c)
    BY <2>1, <2>2 DEF SlotPairs
  <2>4. <<e, f>> \in Pairs(b, c) /\ <<e, f>>[1] = e
    BY <2>3 DEF Pairs
  <2>5. e \notin {p[1] : p \in Pairs(b, c)}
    BY DEF Removed
  <2>6. QED
    BY <2>4, <2>5
<1>5. QED
  BY <1>2, <1>3, <1>4

-----------------------------------------------------------------------------
(* Records and diagnostics.                                                 *)

LEMMA ChangedKeys ==
  ASSUME NEW before, NEW after, NEW x \in KeyChanges(before, after), NEW r \in x.before \cup x.after
  PROVE  r \in before \cup after /\ r.key \notin AmbiguousKeys(before, after)
<1> DEFINE single == Keys(before, after) \ AmbiguousKeys(before, after)
           old == {o \in before : o.key \in single}
           new == {n \in after : n.key \in single}
<1>1. \/ \E n \in new : x = KeyChange("added", {}, {n})
      \/ \E o \in old : x = KeyChange("removed", {o}, {})
      \/ \E p \in old \X new : x = KeyChange("modified", {p[1]}, {p[2]})
  BY DEF KeyChanges
<1>2. r \in old \cup new
  <2>1. ASSUME NEW n \in new, x = KeyChange("added", {}, {n}) PROVE r \in old \cup new
    BY <2>1 DEF KeyChange
  <2>2. ASSUME NEW o \in old, x = KeyChange("removed", {o}, {}) PROVE r \in old \cup new
    BY <2>2 DEF KeyChange
  <2>3. ASSUME NEW p \in old \X new, x = KeyChange("modified", {p[1]}, {p[2]})
        PROVE  r \in old \cup new
    <3>1. p[1] \in old /\ p[2] \in new
      BY <2>3
    <3>2. r \in {p[1], p[2]}
      BY <2>3 DEF KeyChange
    <3>3. QED
      BY <3>1, <3>2
  <2>4. QED
    BY <1>1, <2>1, <2>2, <2>3
<1>3. QED
  BY <1>2

LEMMA AmbiguousRecords ==
  ASSUME NEW kind, NEW before, NEW after, NEW y \in KeyAmbiguities(kind, before, after)
  PROVE  /\ y.key \in AmbiguousKeys(before, after)
         /\ \E r \in before \cup after : r.key = y.key
         /\ \A id \in y.before \cup y.after :
              \E r \in before \cup after : r.id = id /\ r.key = y.key
<1>1. PICK k \in AmbiguousKeys(before, after) :
        y = [kind |-> kind, record |-> k.kind, key |-> k,
             before |-> Ids(WithKey(before, k)), after |-> Ids(WithKey(after, k))]
  BY DEF KeyAmbiguities
<1>2. \E r \in before \cup after : r.key = k
  BY DEF AmbiguousKeys, Keys
<1>3. \A id \in Ids(WithKey(before, k)) \cup Ids(WithKey(after, k)) :
        \E r \in before \cup after : r.id = id /\ r.key = k
  BY DEF Ids, WithKey
<1>4. QED
  BY <1>1, <1>2, <1>3

(* A record of an ambiguous key is in no change.                            *)
THEOREM AmbiguousUnchanged ==
  ASSUME NEW b, NEW c, IdentifiersTell(b, c),
         NEW x \in RecordChanges(b, c), NEW y \in RecordAmbiguities(b, c),
         NEW r \in x.before \cup x.after
  PROVE  r.key # y.key /\ r.id \notin y.before \cup y.after
<1> DEFINE One == OfKind(b, {"assertion"}) \cup OfKind(c, {"assertion"})
           Other == OfKind(b, Interactions) \cup OfKind(c, Interactions)
<1>1. \/ x \in KeyChanges(OfKind(b, {"assertion"}), OfKind(c, {"assertion"}))
      \/ x \in KeyChanges(OfKind(b, Interactions), OfKind(c, Interactions))
  BY DEF RecordChanges
<1>2. \/ r \in One /\ r.key \notin AmbiguousKeys(OfKind(b, {"assertion"}), OfKind(c, {"assertion"}))
      \/ r \in Other /\ r.key \notin AmbiguousKeys(OfKind(b, Interactions), OfKind(c, Interactions))
  BY <1>1, ChangedKeys
<1>3. \/ /\ y.key \in AmbiguousKeys(OfKind(b, {"assertion"}), OfKind(c, {"assertion"}))
         /\ \E q \in One : q.key = y.key
      \/ /\ y.key \in AmbiguousKeys(OfKind(b, Interactions), OfKind(c, Interactions))
         /\ \E q \in Other : q.key = y.key
  BY AmbiguousRecords DEF RecordAmbiguities
<1>4. \A id \in y.before \cup y.after : \E q \in One \cup Other : q.id = id /\ q.key = y.key
  BY AmbiguousRecords DEF RecordAmbiguities
<1>5. /\ \A q \in One : q.key.kind = "assertion"
      /\ \A q \in Other : q.key.kind # "assertion"
      /\ One \cup Other \subseteq b.records \cup c.records
  BY DEF OfKind, Interactions
<1>6. r.key # y.key
  BY <1>2, <1>3, <1>5
<1>7. r.id \notin y.before \cup y.after
  <2>1. SUFFICES ASSUME NEW q \in One \cup Other, q.id = r.id, q.key = y.key PROVE FALSE
    BY <1>4
  <2>2. q \in b.records \cup c.records /\ r \in b.records \cup c.records
    BY <1>2, <1>5
  <2>3. QED
    BY <1>6, <2>1, <2>2 DEF IdentifiersTell
<1>8. QED
  BY <1>6, <1>7

-----------------------------------------------------------------------------
(* Policies: c is the candidate and nothing blocks.                         *)

(* A blocking rule whose result does not block has passed, or could not be   *)
(* decided and is configured not to block then.                             *)
LEMMA NotBlocking ==
  ASSUME NEW config, NEW rule,
         config[rule].severity = "error",
         config[rule].onUnknown \in {"warn", "error"},
         NEW outcome, NEW subject,
         ~PolicyResult(config, rule, outcome, subject).blocking
  PROVE  /\ outcome # "fail"
         /\ outcome = "unknown" => config[rule].onUnknown = "warn"
BY DEF PolicyResult

(* What could not be decided is listed.                                     *)
LEMMA UnknownIsListed ==
  ASSUME NEW config, NEW b, NEW c, NEW rule, NEW subject,
         PolicyResult(config, rule, "unknown", subject)
           \in PolicyResults(config, b, c)
  PROVE  \E g \in Evaluation(config, b, c).gaps :
           g.code = "policy_unknown" /\ g.about.rule = rule /\ g.about.subject = subject
<1> DEFINE r == PolicyResult(config, rule, "unknown", subject)
           results == PolicyResults(config, b, c)
<1>1. r.outcome = "unknown" /\ r.rule = rule /\ r.subject = subject
  BY DEF PolicyResult
<1>2. r \in {x \in results : x.outcome = "unknown"}
  BY <1>1
<1> HIDE DEF r, results
<1>3. Gap("policy_unknown", r) \in Gaps(results, b, c)
  BY <1>2 DEF Gaps
<1>4. Evaluation(config, b, c).gaps = Gaps(results, b, c)
  BY DEF Evaluation, results
<1>5. Gap("policy_unknown", r).code = "policy_unknown" /\ Gap("policy_unknown", r).about = r
  BY DEF Gap
<1>6. QED
  BY <1>1, <1>3, <1>4, <1>5

(* The result of a configured rule for a subject.                           *)
LEMMA ResultsOf ==
  ASSUME NEW config, NEW b, NEW c, NEW rule \in DOMAIN config
  PROVE  RuleResults(config, rule, b, c) \subseteq PolicyResults(config, b, c)
BY DEF PolicyResults

(* What a rule that blocks says of a subject: it has passed or its gap is    *)
(* listed.                                                                  *)
LEMMA PassedOrListed ==
  ASSUME NEW config, NEW b, NEW c, NEW rule \in DOMAIN config,
         config[rule].severity = "error",
         config[rule].onUnknown \in {"warn", "error"},
         ~\E r \in PolicyResults(config, b, c) : r.blocking,
         NEW outcome, NEW subject,
         PolicyResult(config, rule, outcome, subject)
           \in RuleResults(config, rule, b, c)
  PROVE  /\ outcome # "fail"
         /\ outcome = "unknown" =>
              /\ config[rule].onUnknown = "warn"
              /\ \E g \in Evaluation(config, b, c).gaps :
                   g.code = "policy_unknown" /\ g.about.rule = rule /\ g.about.subject = subject
<1>1. PolicyResult(config, rule, outcome, subject) \in PolicyResults(config, b, c)
  BY ResultsOf
<1>2. ~PolicyResult(config, rule, outcome, subject).blocking
  BY <1>1
<1>3. /\ outcome # "fail"
      /\ outcome = "unknown" => config[rule].onUnknown = "warn"
  BY <1>2, NotBlocking
<1>4. QED
  BY <1>1, <1>3, UnknownIsListed

(* An endpoint that shares its subject is unknown to every rule.             *)
LEMMA OutcomeOfEndpoint ==
  ASSUME NEW config, NEW b, NEW c, NEW rule \in EndpointRules,
         IsFiniteSet(c.endpoints), NEW e \in c.endpoints
  PROVE  \E outcome \in {"unknown", RuleOutcome(rule, c, e)} :
           PolicyResult(config, rule, outcome, GroupKey(c, e))
             \in RuleResults(config, rule, b, c)
<1> DEFINE key == GroupKey(c, e)
<1>1. GroupOutcome(rule, c, key) \in {"unknown", RuleOutcome(rule, c, e)}
  <2>1. CASE Cardinality(Group(c, key)) # 1
    BY <2>1 DEF GroupOutcome
  <2>2. CASE Cardinality(Group(c, key)) = 1
    <3>1. IsFiniteSet(Group(c, key)) /\ e \in Group(c, key)
      BY FinitePart DEF Group
    <3>2. Group(c, key) = {e}
      BY <2>2, <3>1, AtMostOne
    <3>3. (CHOOSE x \in Group(c, key) : TRUE) = e
      BY <3>2
    <3>4. QED
      BY <2>2, <3>3 DEF GroupOutcome
  <2>3. QED
    BY <2>1, <2>2
<1>2. RuleResults(config, rule, b, c) = EndpointRuleResults(config, rule, c)
  BY DEF RuleResults, EndpointRules, InteractionRules
<1>3. key \in GroupKeys(c) /\ c.endpoints # {}
  BY DEF GroupKeys
<1>4. PolicyResult(config, rule, GroupOutcome(rule, c, key), key)
        \in EndpointRuleResults(config, rule, c)
  BY <1>3 DEF EndpointRuleResults
<1>5. QED
  BY <1>1, <1>2, <1>4

(* A blocking rule is configured, and no result of the evaluation blocks.    *)
LetPass(config, b, c, rule) ==
  /\ rule \in DOMAIN config
  /\ config[rule].severity = "error"
  /\ config[rule].onUnknown \in {"warn", "error"}
  /\ ~\E r \in PolicyResults(config, b, c) : r.blocking

(* The rule is configured to let pass what is unknown, and this is listed.   *)
ListedGap(config, b, c, rule, subject) ==
  /\ config[rule].onUnknown = "warn"
  /\ \E g \in Evaluation(config, b, c).gaps :
       g.code = "policy_unknown" /\ g.about.rule = rule /\ g.about.subject = subject

(* A write endpoint that is let pass has a proven guard, or is listed.       *)
THEOREM WritesAreGuarded ==
  ASSUME NEW config, NEW b, NEW c, IsFiniteSet(c.endpoints),
         LetPass(config, b, c, "require-guard-on-write-endpoint"),
         NEW e \in c.endpoints, "resolved" \in e.writes
  PROVE  \/ "resolved" \in c.globalGuards \cup e.guards
         \/ ListedGap(config, b, c, "require-guard-on-write-endpoint", GroupKey(c, e))
<1> DEFINE rule == "require-guard-on-write-endpoint"
<1>1. rule \in EndpointRules
  BY DEF EndpointRules
<1>2. PICK outcome \in {"unknown", RuleOutcome(rule, c, e)} :
        PolicyResult(config, rule, outcome, GroupKey(c, e))
          \in RuleResults(config, rule, b, c)
  BY <1>1, OutcomeOfEndpoint
<1>3. outcome # "fail" /\ (outcome = "unknown" => ListedGap(config, b, c, rule, GroupKey(c, e)))
  BY <1>2, PassedOrListed DEF LetPass, ListedGap
<1>4. RuleOutcome(rule, c, e) = GuardOutcome(c, e)
  BY DEF RuleOutcome
<1>5. GuardOutcome(c, e) \in {"unknown", "fail"} \/ "resolved" \in c.globalGuards \cup e.guards
  <2>1. e.writes # {} /\ e.writes # {"ambiguous"}
    OBVIOUS
  <2>2. QED
    BY <2>1 DEF GuardOutcome, EffectiveGuards
<1>6. QED
  BY <1>2, <1>3, <1>4, <1>5

(* A write endpoint that is let pass has a trace without gaps, or is listed. *)
THEOREM WritesAreTraced ==
  ASSUME NEW config, NEW b, NEW c, IsFiniteSet(c.endpoints),
         LetPass(config, b, c, "require-complete-write-trace"),
         NEW e \in c.endpoints, "resolved" \in e.writes
  PROVE  \/ ~e.gap
         \/ ListedGap(config, b, c, "require-complete-write-trace", GroupKey(c, e))
<1> DEFINE rule == "require-complete-write-trace"
<1>1. rule \in EndpointRules
  BY DEF EndpointRules
<1>2. PICK outcome \in {"unknown", RuleOutcome(rule, c, e)} :
        PolicyResult(config, rule, outcome, GroupKey(c, e))
          \in RuleResults(config, rule, b, c)
  BY <1>1, OutcomeOfEndpoint
<1>3. outcome # "fail" /\ (outcome = "unknown" => ListedGap(config, b, c, rule, GroupKey(c, e)))
  BY <1>2, PassedOrListed DEF LetPass, ListedGap
<1>4. RuleOutcome(rule, c, e) = CompleteTraceOutcome(c, e)
  BY DEF RuleOutcome
<1>5. CompleteTraceOutcome(c, e) = IF HasGap(c, e) THEN "fail" ELSE "pass"
  <2>1. e.writes # {} /\ e.writes # {"ambiguous"}
    OBVIOUS
  <2>2. QED
    BY <2>1 DEF CompleteTraceOutcome
<1>6. e.gap => HasGap(c, e)
  BY DEF HasGap
<1>7. QED
  BY <1>2, <1>3, <1>4, <1>5, <1>6

(* A controller that is let pass has no proven access to a repository, or is *)
(* listed.                                                                  *)
THEOREM ControllersKeepOut ==
  ASSUME NEW config, NEW b, NEW c, IsFiniteSet(c.controllers),
         LetPass(config, b, c, "no-repository-access-in-controller"),
         NEW k \in c.controllers
  PROVE  \/ k.access \cap {"resolved", "unsupported"} = {}
         \/ ListedGap(config, b, c, "no-repository-access-in-controller", k.key)
<1> DEFINE rule == "no-repository-access-in-controller"
           group == ControllersOf(c, k.key)
           outcome == RepositoryOutcome(group)
<1>1. RuleResults(config, rule, b, c) = RepositoryResults(config, rule, c)
  BY DEF RuleResults, EndpointRules, InteractionRules
<1>2. PolicyResult(config, rule, outcome, k.key) \in RepositoryResults(config, rule, c)
  BY DEF RepositoryResults
<1>3. outcome # "fail" /\ (outcome = "unknown" => ListedGap(config, b, c, rule, k.key))
  BY <1>1, <1>2, PassedOrListed DEF LetPass, ListedGap
<1>4. IsFiniteSet(group) /\ k \in group
  BY FinitePart DEF ControllersOf
<1>5. CASE Cardinality(group) > 1
  BY <1>3, <1>5 DEF RepositoryOutcome
<1>6. CASE ~(Cardinality(group) > 1)
  <2>1. group = {k}
    BY <1>4, <1>6, AtMostOne
  <2>2. UNION {x.access : x \in group} = k.access
    BY <2>1
  <2>3. QED
    BY <1>3, <1>6, <2>2 DEF RepositoryOutcome
<1>7. QED
  BY <1>5, <1>6

(* An event that is let pass has a proven handler, or is listed.             *)
THEOREM EventsAreHandled ==
  ASSUME NEW config, NEW b, NEW c,
         LetPass(config, b, c, "require-local-in-process-event-handler"),
         NEW r \in c.records, r.key.kind = "interaction", r.event
  PROVE  \/ "resolved" \in r.matches
         \/ ListedGap(config, b, c, "require-local-in-process-event-handler",
                      InteractionSubject(r))
<1> DEFINE rule == "require-local-in-process-event-handler"
<1>1. RuleResults(config, rule, b, c) = InteractionRuleResults(config, rule, c)
  BY DEF RuleResults, EndpointRules, InteractionRules
<1>2. r \in InteractionSubjects(rule, c)
  BY DEF InteractionSubjects, OfKind
<1>3. InteractionOutcome(rule, c, r) = HandlerOutcome(c, r)
  BY DEF InteractionOutcome
<1>4. PolicyResult(config, rule, HandlerOutcome(c, r), InteractionSubject(r))
        \in InteractionRuleResults(config, rule, c)
  BY <1>2, <1>3 DEF InteractionRuleResults
<1>5. /\ HandlerOutcome(c, r) # "fail"
      /\ HandlerOutcome(c, r) = "unknown" =>
           ListedGap(config, b, c, rule, InteractionSubject(r))
  BY <1>1, <1>4, PassedOrListed DEF LetPass, ListedGap
<1>6. "resolved" \in r.matches \/ HandlerOutcome(c, r) \in {"fail", "unknown"}
  BY DEF HandlerOutcome
<1>7. QED
  BY <1>5, <1>6

(* A diagnostic as the comparison groups it.                                *)
LEMMA DiagnosticShape ==
  ASSUME NEW d, NEW severities,
         d = [id |-> d.id, key |-> d.key, severity |-> d.severity, body |-> d.body]
  PROVE  LET x == [d EXCEPT !.body = <<d.severity, d.body>>]
         IN  x.id = d.id /\ x.key = d.key /\ x.severity = d.severity
OBVIOUS

(* A diagnostic of the severity that is let pass has its key in the baseline,*)
(* or is listed.                                                            *)
THEOREM DiagnosticsAreKnown ==
  ASSUME NEW config, NEW b, NEW c, IsFiniteSet(c.diagnostics),
         \A x \in c.diagnostics :
           x = [id |-> x.id, key |-> x.key, severity |-> x.severity, body |-> x.body],
         \A x \in b.diagnostics :
           x = [id |-> x.id, key |-> x.key, severity |-> x.severity, body |-> x.body],
         LetPass(config, b, c, "no-new-diagnostics"),
         config["no-new-diagnostics"].minimumSeverity \in Severities,
         NEW d \in c.diagnostics, d.severity \in Severities,
         ~(SeverityRank[d.severity]
             < SeverityRank[config["no-new-diagnostics"].minimumSeverity])
  PROVE  \/ \E x \in b.diagnostics : x.key = d.key
         \/ ListedGap(config, b, c, "no-new-diagnostics", AnalysisSubject)
<1> DEFINE rule == "no-new-diagnostics"
           minimum == config[rule].minimumSeverity
           outcome == DiagnosticOutcome(b, c, minimum)
           Record(x) == [x EXCEPT !.body = <<x.severity, x.body>>]
<1>1. RuleResults(config, rule, b, c) = DiagnosticResults(config, rule, b, c)
  BY DEF RuleResults, EndpointRules, InteractionRules
<1>2. PolicyResult(config, rule, outcome, AnalysisSubject)
        \in DiagnosticResults(config, rule, b, c)
  BY DEF DiagnosticResults
<1>3. outcome # "fail" /\ (outcome = "unknown" => ListedGap(config, b, c, rule, AnalysisSubject))
  BY <1>1, <1>2, PassedOrListed DEF LetPass, ListedGap
<1>4. SUFFICES ASSUME \A x \in b.diagnostics : x.key # d.key, outcome = "pass"
               PROVE  FALSE
  BY <1>3 DEF DiagnosticOutcome
<1>5. NewDiagnostics(b, c, minimum) = {} /\ DiagnosticAmbiguities(b, c) = {}
  BY <1>4 DEF DiagnosticOutcome
<1>6. \A x \in b.diagnostics \cup c.diagnostics :
        Record(x).key = x.key /\ Record(x).severity = x.severity
  BY DiagnosticShape
<1>7. WithKey(DiagnosticRecords(b), d.key) = {}
  BY <1>4, <1>6 DEF WithKey, DiagnosticRecords
<1>8. WithKey(DiagnosticRecords(c), d.key) = {Record(d)}
  <2>1. ~(Cardinality(WithKey(c.diagnostics, d.key)) > 1)
    <3>1. SUFFICES ASSUME Cardinality(WithKey(c.diagnostics, d.key)) > 1 PROVE FALSE
      OBVIOUS
    <3>2. d.key \in AmbiguousKeys(b.diagnostics, c.diagnostics)
      BY <3>1 DEF AmbiguousKeys, Keys
    <3>3. QED
      BY <1>5, <3>2 DEF DiagnosticAmbiguities, KeyAmbiguities
  <2>2. IsFiniteSet(WithKey(c.diagnostics, d.key)) /\ d \in WithKey(c.diagnostics, d.key)
    BY FinitePart DEF WithKey
  <2>3. WithKey(c.diagnostics, d.key) = {d}
    BY <2>1, <2>2, AtMostOne
  <2>4. \A x \in c.diagnostics : x.key = d.key => x = d
    BY <2>3 DEF WithKey
  <2>5. DiagnosticRecords(c) = {Record(x) : x \in c.diagnostics}
    BY DEF DiagnosticRecords
  <2>6. QED
    BY <1>6, <2>4, <2>5 DEF WithKey
<1>9. KeyChange("added", {}, {Record(d)}) \in DiagnosticChanges(b, c)
  <2>1. Record(d) \in DiagnosticRecords(c) /\ Record(d).key = d.key
    BY <1>6 DEF DiagnosticRecords
  <2>2. /\ Cardinality(WithKey(DiagnosticRecords(b), d.key)) = 0
        /\ Cardinality(WithKey(DiagnosticRecords(c), d.key)) = 1
    BY <1>7, <1>8, FS_EmptySet, FS_Singleton
  <2>3. d.key \in Keys(DiagnosticRecords(b), DiagnosticRecords(c))
                    \ AmbiguousKeys(DiagnosticRecords(b), DiagnosticRecords(c))
    BY <2>1, <2>2 DEF Keys, AmbiguousKeys
  <2> DEFINE before == DiagnosticRecords(b)
             after  == DiagnosticRecords(c)
             single == Keys(before, after) \ AmbiguousKeys(before, after)
             old    == {x \in before : x.key \in single}
             new    == {x \in after : x.key \in single}
  <2>4. WithKey(old, Record(d).key) = {}
    BY <1>7, <2>1 DEF WithKey
  <2>5. Record(d) \in {x \in new : WithKey(old, x.key) = {}}
    BY <2>1, <2>3, <2>4
  <2>6. {KeyChange("added", {}, {x}) : x \in {y \in new : WithKey(old, y.key) = {}}}
          \subseteq KeyChanges(before, after)
    BY DEF KeyChanges
  <2>7. QED
    BY <2>5, <2>6 DEF DiagnosticChanges
<1>10. SeverityRank[d.severity] >= SeverityRank[minimum]
  <2>1. \A s \in Severities : SeverityRank[s] \in Nat
    BY DEF Severities, SeverityRank
  <2>2. QED
    BY <2>1
<1>11. KeyChange("added", {}, {Record(d)}) \in NewDiagnostics(b, c, minimum)
  <2>1. /\ KeyChange("added", {}, {Record(d)}).change = "added"
        /\ KeyChange("added", {}, {Record(d)}).after = {Record(d)}
    BY DEF KeyChange
  <2>2. \A x \in {Record(d)} : SeverityRank[x.severity] >= SeverityRank[minimum]
    BY <1>6, <1>10
  <2>3. QED
    BY <1>9, <2>1, <2>2 DEF NewDiagnostics
<1>12. QED
  BY <1>5, <1>11

-----------------------------------------------------------------------------
(* The inductive invariant of a job.                                        *)

Before == {"inputs", "fresh", "prepare", "install", "configure",
           "scan baseline", "scan candidate", "evaluate"}
Steps  == Before \cup {"stage", "commit", "summary", "outputs", "upload", "enforce",
                       "report", "report files", "done"}

Failures == {"invalid_input", "analysis_failure", "incompatible_baseline"}
Outcomes == Failures \cup {"none", "success", "policy_violation"}

(* What each variable may hold.                                             *)
TypeOK ==
  /\ platform \in {"gitlab", "github"}
  /\ step \in Steps
  /\ directory \in Directories
  /\ disk \in [Files -> {"none", "foreign", "evaluated", "failure"}]
  /\ next \in Nat \ {0}
  /\ failure \in Failures \cup {"none"}
  /\ outputs \in [code : Outcomes, artifact : BOOLEAN]
  /\ stepFailed \in BOOLEAN /\ refused \in BOOLEAN
  /\ exit \in Outcomes
  /\ status \in {"running", "green", "red"}

(* The analyses at hand are those of the two checkouts.                     *)
Compared ==
  /\ configuration \in Configurations
  /\ \E r \in BaselineHeads, s \in CandidateHeads :
       baseline \in AnalysesOf(r) /\ candidate \in CandidatesOf(baseline, s)

Ready ==
  /\ Compared /\ RevisionsMatch /\ ~AnalysisFailed

Evidence ==
  /\ step \in {"scan baseline", "scan candidate"} => configuration \in Configurations
  /\ step = "scan candidate" => \E r \in BaselineHeads : baseline \in AnalysesOf(r)
  /\ step = "evaluate" => Compared
  /\ step \in {"stage", "commit", "summary", "outputs"} => Ready

(* Until the writer is called, the publication directory is as it was found; *)
(* on GitLab it must not be there.                                          *)
Untouched ==
  /\ directory \in {"absent", "leftover"}
  /\ disk = [f \in Files |-> IF directory = "leftover" THEN "foreign" ELSE "none"]

NothingYet ==
  step \in Before \cup {"stage"} =>
    /\ Untouched
    /\ next = 1 /\ failure = "none" /\ outputs = NoOutputs
    /\ step \notin {"inputs", "fresh"} /\ platform = "gitlab" => directory = "absent"

(* The steps of each platform.                                              *)
OwnSteps ==
  /\ step \in {"fresh", "report files"} => platform = "gitlab"
  /\ step \in {"summary", "outputs", "upload", "enforce"} => platform = "github"
  /\ step \notin {"enforce", "done"} => ~stepFailed
  /\ step # "done" <=> status = "running"
  /\ step # "done" => exit = "none"
  /\ step \in {"report", "report files"} => failure \in Failures

(* The plan is renamed in order.                                            *)
Committing ==
  step = "commit" =>
    /\ next \in 1..Len(Plan)
    /\ \A i \in 1..(next - 1) : disk[Plan[i]] = "evaluated"
    /\ platform = "gitlab" =>
         /\ directory = "made"
         /\ \A i \in next..Len(GitLabPlan) : disk[GitLabPlan[i]] = "none"

(* GitHub: what the step has said to those after it.                        *)
Announced ==
  /\ step \in {"summary", "outputs"} => InPlan("evaluated")
  /\ step \in {"upload", "enforce"} /\ ~stepFailed =>
       \/ outputs.code \in Failures /\ ~outputs.artifact
       \/ /\ Ready /\ InPlan("evaluated")
          /\ outputs = [code |-> TheEvaluation.outcome, artifact |-> TRUE]

(* GitLab: an error is reported before there is a result.                   *)
Reporting ==
  platform = "gitlab" =>
    /\ step = "report" =>
         /\ \/ Untouched
            \/ /\ directory = "made" /\ refused
               /\ \A f \in Files : disk[f] \in {"none", "evaluated"}
         /\ disk["process-result.json"] \in {"none", "foreign"}
         /\ next = 1
    /\ step = "report files" =>
         /\ directory = "made" /\ next \in 1..Len(FailurePlan)
         /\ \A i \in 1..(next - 1) : disk[FailurePlan[i]] = "failure"
         /\ \A i \in next..Len(FailurePlan) : disk[FailurePlan[i]] = "none"
         /\ disk["documents"] = "none" /\ disk["manifest.json"] = "none"

Progress == Evidence /\ NothingYet /\ OwnSteps /\ Committing /\ Announced /\ Reporting

(* A job that ended green was ready to.                                     *)
GreenWasReady == status = "green" => Ready

Ended == GreenWasReady /\ GreenMeansEvaluated /\ ReportedOutcomeAgrees

Inv == TypeOK /\ Progress /\ Ended

-----------------------------------------------------------------------------
(* The plans as the provers see them.                                       *)
LEMMA PlanFacts ==
  /\ Files = {"documents", "manifest.json", "gl-code-quality-report.json",
              "gitlab-summary.md", "process-result.json"}
  /\ "process-result.json" \in Files
  /\ Len(GitLabPlan) = 5 /\ Len(GitHubPlan) = 2 /\ Len(FailurePlan) = 3
  /\ DOMAIN GitLabPlan = 1..5 /\ DOMAIN GitHubPlan = 1..2 /\ DOMAIN FailurePlan = 1..3
  /\ GitLabPlan[1] = "documents" /\ GitLabPlan[2] = "manifest.json"
  /\ GitLabPlan[3] = "gl-code-quality-report.json" /\ GitLabPlan[4] = "gitlab-summary.md"
  /\ GitLabPlan[5] = "process-result.json"
  /\ GitHubPlan[1] = "documents" /\ GitHubPlan[2] = "manifest.json"
  /\ FailurePlan[1] = "gl-code-quality-report.json" /\ FailurePlan[2] = "gitlab-summary.md"
  /\ FailurePlan[3] = "process-result.json"
BY DEF Files, GitLabPlan, GitHubPlan, FailurePlan

LEMMA PlanShape ==
  /\ Len(Plan) \in Nat \ {0} /\ DOMAIN Plan = 1..Len(Plan)
  /\ \A i \in 1..Len(Plan) : Plan[i] \in Files
  /\ \A i, j \in 1..Len(Plan) : Plan[i] = Plan[j] => i = j
<1>1. CASE platform = "gitlab"
  <2>1. Plan = GitLabPlan
    BY <1>1 DEF Plan
  <2>2. \A i, j \in 1..5 : GitLabPlan[i] = GitLabPlan[j] => i = j
    BY PlanFacts
  <2>3. \A i \in 1..5 : GitLabPlan[i] \in Files
    BY PlanFacts
  <2>4. QED
    BY <2>1, <2>2, <2>3, PlanFacts
<1>2. CASE platform # "gitlab"
  <2>1. Plan = GitHubPlan
    BY <1>2 DEF Plan
  <2>2. \A i, j \in 1..2 : GitHubPlan[i] = GitHubPlan[j] => i = j
    BY PlanFacts
  <2>3. \A i \in 1..2 : GitHubPlan[i] \in Files
    BY PlanFacts
  <2>4. QED
    BY <2>1, <2>2, <2>3, PlanFacts
<1>3. QED
  BY <1>1, <1>2

(* An evaluation succeeds or blocks.                                        *)
LEMMA OutcomeFacts ==
  /\ TheEvaluation.outcome \in {"success", "policy_violation"}
  /\ TheEvaluation.outcome = "success" => ~\E r \in TheEvaluation.policies : r.blocking
BY DEF TheEvaluation, Evaluation

(* What is decided by the evidence stays, once the evidence does.           *)
LEMMA SameInputs ==
  ASSUME UNCHANGED inputs
  PROVE  /\ platform' = platform /\ configuration' = configuration
         /\ TheEvaluation' = TheEvaluation /\ Plan' = Plan
         /\ Compared' = Compared /\ Ready' = Ready
BY DEF inputs, TheEvaluation, Compared, Ready, RevisionsMatch, AnalysisFailed, Plan

LEMMA ReadyFacts ==
  Ready => /\ Completed(baseline) /\ Completed(candidate)
           /\ baseline.revision = DeclaredBaseline
           /\ candidate.revision = DeclaredCandidate
<1>1. SUFFICES ASSUME Ready PROVE Completed(baseline) /\ Completed(candidate)
  BY DEF Ready, RevisionsMatch
<1>2. AnalysisOK(baseline) /\ AnalysisOK(candidate)
  <2>1. PICK r \in BaselineHeads, s \in CandidateHeads :
          baseline \in AnalysesOf(r) /\ candidate \in CandidatesOf(baseline, s)
    BY <1>1 DEF Ready, Compared
  <2>2. baseline \in AnalysesOf(r) /\ candidate \in AnalysesOf(r) \cup AnalysesOf(s)
    BY <2>1 DEF CandidatesOf
  <2>3. QED
    BY <2>2, AnalysesAssumption
<1>3. QED
  BY <1>1, <1>2 DEF Ready, AnalysisFailed, AnalysisOK, Completed

(* As long as the job runs, its result is not there, and what it ends with  *)
(* is not in doubt.                                                         *)
Unreported ==
  platform = "gitlab" =>
    /\ disk["process-result.json"] \in {"none", "foreign"}
    /\ (\E f \in Files : disk[f] = "foreign") => \A f \in Files : disk[f] = "foreign"

LEMMA OpenJob ==
  TypeOK /\ Progress /\ step # "done" => Unreported /\ Ended
<1>1. SUFFICES ASSUME TypeOK, Progress, step # "done" PROVE Unreported /\ Ended
  OBVIOUS
<1>2. Unreported
  <2>0. Untouched => Unreported
    BY PlanFacts DEF Untouched, Unreported
  <2>1. CASE step \in Before \cup {"stage"}
    BY <1>1, <2>0, <2>1 DEF Progress, NothingYet
  <2>2. CASE step = "commit"
    <3>1. SUFFICES ASSUME platform = "gitlab" PROVE Unreported
      BY DEF Unreported
    <3>2. /\ next \in 1..5
          /\ \A i \in 1..(next - 1) : disk[GitLabPlan[i]] = "evaluated"
          /\ \A i \in next..5 : disk[GitLabPlan[i]] = "none"
      BY <1>1, <2>2, <3>1, PlanFacts DEF Progress, Committing, Plan
    <3>3. disk[GitLabPlan[5]] = "none" /\ \A i \in 1..5 : disk[GitLabPlan[i]] # "foreign"
      BY <3>2
    <3>4. QED
      BY <3>3, PlanFacts DEF Unreported
  <2>3. CASE step = "report"
    <3>1. CASE Untouched \/ platform # "gitlab"
      BY <2>0, <3>1 DEF Unreported
    <3>2. CASE ~Untouched /\ platform = "gitlab"
      BY <1>1, <2>3, <3>2 DEF Progress, Reporting, Unreported
    <3>3. QED
      BY <3>1, <3>2
  <2>4. CASE step = "report files"
    <3>1. SUFFICES ASSUME platform = "gitlab" PROVE Unreported
      BY DEF Unreported
    <3>2. /\ next \in 1..3
          /\ \A i \in 1..(next - 1) : disk[FailurePlan[i]] = "failure"
          /\ \A i \in next..3 : disk[FailurePlan[i]] = "none"
          /\ disk["documents"] = "none" /\ disk["manifest.json"] = "none"
      BY <1>1, <2>4, <3>1, PlanFacts DEF Progress, Reporting
    <3>3. disk[FailurePlan[3]] = "none" /\ \A i \in 1..3 : disk[FailurePlan[i]] # "foreign"
      BY <3>2
    <3>4. QED
      BY <3>2, <3>3, PlanFacts DEF Unreported
  <2>5. CASE step \in {"summary", "outputs", "upload", "enforce"}
    BY <1>1, <2>5 DEF Progress, OwnSteps, Unreported
  <2>6. QED
    BY <1>1, <2>1, <2>2, <2>3, <2>4, <2>5 DEF TypeOK, Steps
<1>3. GreenWasReady /\ GreenMeansEvaluated
  BY <1>1 DEF Progress, OwnSteps, GreenWasReady, GreenMeansEvaluated
<1>4. ReportedOutcomeAgrees
  <2>1. disk["process-result.json"] \notin {"evaluated", "failure"} \/ platform # "gitlab"
    BY <1>2 DEF Unreported
  <2>2. (platform = "github" /\ step = "enforce" /\ ~stepFailed /\ outputs.artifact) =>
          InPlan("evaluated") /\ outputs.code = TheEvaluation.outcome
    BY <1>1 DEF Progress, Announced
  <2>3. QED
    BY <1>1, <1>2, <2>1, <2>2 DEF ReportedOutcomeAgrees, Unreported
<1>5. QED
  BY <1>2, <1>3, <1>4 DEF Ended

-----------------------------------------------------------------------------
LEMMA InitInv == Init => Inv
<1>1. SUFFICES ASSUME Init PROVE Inv
  OBVIOUS
<1>2. TypeOK
  BY <1>1, PlanFacts DEF Init, TypeOK, Steps, Before, Directories, NoOutputs, Outcomes
<1>3. Progress
  BY <1>1 DEF Init, Progress, Evidence, NothingYet, OwnSteps, Committing, Announced,
              Reporting, Untouched, Before
<1>4. step # "done"
  BY <1>1 DEF Init
<1>5. QED
  BY <1>2, <1>3, <1>4, OpenJob DEF Inv

(* An error before the writer is called.                                    *)
LEMMA EarlyThrow ==
  ASSUME Inv, step \in Before \cup {"stage"}, NEW outcome \in Failures, Throw(outcome),
         UNCHANGED <<inputs, storage, verdicts>>, refused' \in BOOLEAN
  PROVE  Inv'
<1>1. TypeOK'
  BY DEF Inv, TypeOK, Throw, GoTo, inputs, storage, verdicts, Steps
<1>2. Progress'
  BY PlanFacts
     DEF Inv, Progress, Throw, GoTo, inputs, storage, verdicts, Before, TypeOK, Evidence,
         NothingYet, OwnSteps, Committing, Announced, Reporting, Untouched
<1>3. (step # "done")'
  BY DEF Throw, GoTo
<1>4. QED
  BY <1>1, <1>2, <1>3, OpenJob, PTL DEF Inv

LEMMA RefusalStep ==
  ASSUME Inv, Refuse \/ RefuseExistingDirectory \/ CommandFails \/ RefuseFailedAnalysis
                \/ RejectEvaluation
  PROVE  Inv'
<1>1. /\ step \in Before \cup {"stage"}
      /\ UNCHANGED <<inputs, storage, verdicts>> /\ refused' \in BOOLEAN
  BY DEF Inv, TypeOK, Refuse, RefuseExistingDirectory, CommandFails, RefuseFailedAnalysis,
         RejectEvaluation, Before
<1>2. \E outcome \in Failures : Throw(outcome)
  BY DEF Refuse, RefuseExistingDirectory, CommandFails, RefuseFailedAnalysis,
         RejectEvaluation, Failures
<1>3. QED
  BY <1>1, <1>2, EarlyThrow

LEMMA ProceedStep ==
  ASSUME Inv, Proceed
  PROVE  Inv'
<1>1. TypeOK'
  BY DEF Inv, TypeOK, Proceed, GoTo, inputs, storage, verdicts, Steps, Before
<1>2. Progress'
  BY DEF Inv, Progress, Proceed, GoTo, inputs, storage, verdicts, Before, Evidence,
         NothingYet, OwnSteps, Committing, Announced, Reporting, Untouched
<1>3. (step # "done")'
  BY DEF Proceed, GoTo
<1>4. QED
  BY <1>1, <1>2, <1>3, OpenJob, PTL DEF Inv

(* What is scanned is what the two checkouts give.                          *)
LEMMA ScanStep ==
  ASSUME Inv, \/ LoadConfiguration
              \/ \E revision \in BaselineHeads : ScanBaseline(revision)
              \/ \E revision \in CandidateHeads : ScanCandidate(revision)
  PROVE  Inv'
<1>1. TypeOK'
  BY DEF Inv, TypeOK, LoadConfiguration, ScanBaseline, ScanCandidate, GoTo, storage,
         verdicts, Steps, Before
<1>2. Evidence'
  <2>1. CASE LoadConfiguration
    BY <2>1 DEF LoadConfiguration, GoTo, Evidence
  <2>2. ASSUME NEW revision \in BaselineHeads, ScanBaseline(revision)
        PROVE  Evidence'
    BY <2>2 DEF Inv, Progress, ScanBaseline, GoTo, Evidence
  <2>3. ASSUME NEW revision \in CandidateHeads, ScanCandidate(revision)
        PROVE  Evidence'
    <3>1. configuration \in Configurations /\ \E r \in BaselineHeads : baseline \in AnalysesOf(r)
      BY <2>3 DEF Inv, Progress, ScanCandidate, Evidence
    <3>2. candidate' \in CandidatesOf(baseline, revision)
      BY <2>3 DEF ScanCandidate
    <3>3. Compared'
      BY <2>3, <3>1, <3>2 DEF Compared, ScanCandidate
    <3>4. QED
      BY <2>3, <3>3 DEF ScanCandidate, GoTo, Evidence
  <2>4. QED
    BY <2>1, <2>2, <2>3
<1>3. /\ step \in Before \ {"inputs", "fresh"}
      /\ step' \in {"scan baseline", "scan candidate", "evaluate"}
      /\ UNCHANGED <<platform, storage, failure, verdicts, refused>>
  BY DEF LoadConfiguration, ScanBaseline, ScanCandidate, GoTo, Before
<1>4. (NothingYet /\ OwnSteps /\ Committing /\ Announced /\ Reporting)'
  BY <1>3 DEF Inv, Progress, storage, verdicts, Before, NothingYet, OwnSteps, Committing,
              Announced, Reporting, Untouched
<1>5. (step # "done")'
  BY <1>3
<1>6. QED
  BY <1>1, <1>2, <1>4, <1>5, OpenJob, PTL DEF Inv, Progress

LEMMA EvaluateStep ==
  ASSUME Inv, Evaluate
  PROVE  Inv'
<1>1. CASE ~RevisionsMatch
  <2>1. Throw("incompatible_baseline") /\ UNCHANGED <<inputs, storage, verdicts, refused>>
    BY <1>1 DEF Evaluate
  <2>2. step \in Before \cup {"stage"} /\ refused' \in BOOLEAN
    BY <2>1 DEF Inv, TypeOK, Evaluate, Before
  <2>3. QED
    BY <2>1, <2>2, EarlyThrow DEF Failures
<1>2. CASE RevisionsMatch
  <2>1. step' = "stage" /\ UNCHANGED <<inputs, storage, verdicts, refused, failure>>
    BY <1>2 DEF Evaluate, GoTo
  <2>2. TypeOK'
    BY <2>1 DEF Inv, TypeOK, inputs, storage, verdicts, Steps
  <2>3. Ready'
    <3>1. Ready
      BY <1>2 DEF Inv, Progress, Evidence, Evaluate, Ready
    <3>2. QED
      BY <2>1, <3>1, SameInputs
  <2>4. Progress'
    BY <2>1, <2>3
       DEF Evaluate, Inv, Progress, inputs, storage, verdicts, Before, Evidence,
           NothingYet, OwnSteps, Committing, Announced, Reporting, Untouched
  <2>5. (step # "done")'
    BY <2>1
  <2>6. QED
    BY <2>2, <2>4, <2>5, OpenJob, PTL DEF Inv
<1>3. QED
  BY <1>1, <1>2

-----------------------------------------------------------------------------
(* The writer.                                                              *)

LEMMA StageStep ==
  ASSUME Inv, Stage \/ StageFails
  PROVE  Inv'
<1>1. /\ step = "stage" /\ MakeDirectory /\ Untouched /\ next = 1
      /\ UNCHANGED <<inputs, disk, next, verdicts>>
      /\ \/ step' = "commit" /\ UNCHANGED <<failure, refused>>
         \/ step' = "report" /\ failure' = "invalid_input" /\ refused' = TRUE
  BY DEF Inv, Progress, NothingYet, Before, Stage, StageFails, Throw, GoTo
<1>2. TypeOK'
  BY <1>1 DEF Inv, TypeOK, inputs, verdicts, Steps, Failures, MakeDirectory, Directories
<1>3. (Evidence /\ NothingYet /\ OwnSteps /\ Announced)'
  BY <1>1, SameInputs
     DEF Inv, Progress, Evidence, NothingYet, OwnSteps, Announced, verdicts, Before, Failures
<1>4. (Committing /\ Reporting)'
  <2>1. platform = "gitlab" => /\ directory' = "made"
                               /\ \A f \in Files : disk'[f] = "none"
    BY <1>1 DEF Inv, Progress, NothingYet, Before, Untouched, MakeDirectory
  <2>2. Committing'
    <3>1. Plan' = Plan /\ platform' = platform
      BY <1>1, SameInputs
    <3>2. next' = 1 /\ Len(Plan) \in Nat \ {0}
      BY <1>1, PlanShape
    <3>3. platform = "gitlab" => \A i \in 1..Len(GitLabPlan) : disk'[GitLabPlan[i]] = "none"
      BY <2>1, PlanFacts
    <3>4. QED
      BY <2>1, <3>1, <3>2, <3>3 DEF Committing
  <2>3. Reporting'
    BY <1>1, <2>1, PlanFacts, SameInputs DEF Reporting
  <2>4. QED
    BY <2>2, <2>3
<1>5. (step # "done")'
  BY <1>1
<1>6. QED
  BY <1>2, <1>3, <1>4, <1>5, OpenJob, PTL DEF Inv, Progress

(* The last file of a bundle ends a job on GitLab.                           *)
LEMMA CommitFileStep ==
  ASSUME Inv, CommitFile
  PROVE  Inv'
<1>1. /\ step = "commit" /\ next \in 1..Len(Plan) /\ Plan' = Plan /\ Ready /\ Ready'
      /\ platform' = platform /\ TheEvaluation' = TheEvaluation
  BY SameInputs DEF Inv, Progress, Committing, Evidence, CommitFile
<1>2. /\ Len(Plan) \in Nat \ {0} /\ DOMAIN Plan = 1..Len(Plan)
      /\ \A i \in 1..Len(Plan) : Plan[i] \in Files
      /\ \A i, j \in 1..Len(Plan) : Plan[i] = Plan[j] => i = j
  BY PlanShape
<1>3. disk' \in [Files -> {"none", "foreign", "evaluated", "failure"}]
  BY <1>1, <1>2 DEF Inv, TypeOK, CommitFile
<1>4. \A i \in 1..next : disk'[Plan[i]] = "evaluated"
  BY <1>1, <1>2 DEF Inv, TypeOK, Progress, Committing, CommitFile
<1>5. CASE next < Len(Plan)
  <2>1. /\ next' = next + 1 /\ UNCHANGED <<step, exit, status>>
        /\ UNCHANGED <<inputs, directory, failure, outputs, stepFailed, refused>>
    BY <1>5 DEF CommitFile
  <2>2. TypeOK'
    BY <1>3, <2>1 DEF Inv, TypeOK, inputs
  <2>3. (Evidence /\ NothingYet /\ OwnSteps /\ Announced /\ Reporting)'
    BY <1>1, <2>1
       DEF Inv, Progress, Evidence, NothingYet, OwnSteps, Announced, Reporting, Before
  <2>4. Committing'
    <3>1. \A i \in 1..(next' - 1) : disk'[Plan'[i]] = "evaluated"
      BY <1>1, <1>4, <2>1
    <3>2. platform = "gitlab" => \A i \in next'..Len(GitLabPlan) : disk'[GitLabPlan[i]] = "none"
      BY <1>1, <1>2, <2>1 DEF Inv, TypeOK, Progress, Committing, CommitFile, Plan
    <3>3. QED
      BY <1>1, <1>2, <1>5, <2>1, <3>1, <3>2 DEF Inv, Progress, Committing
  <2>5. (step # "done")'
    BY <1>1, <2>1
  <2>6. QED
    BY <2>2, <2>3, <2>4, <2>5, OpenJob, PTL DEF Inv, Progress
<1>6. CASE ~(next < Len(Plan))
  <2>1. /\ next' = 1
        /\ IF platform = "gitlab" THEN Finish(TheEvaluation.outcome)
           ELSE step' = "summary" /\ UNCHANGED <<exit, status>>
        /\ UNCHANGED <<inputs, directory, failure, outputs, stepFailed, refused>>
    BY <1>6 DEF CommitFile, GoTo
  <2>2. InPlan("evaluated")'
    BY <1>1, <1>2, <1>4, <1>6 DEF InPlan
  <2>3. TypeOK'
    <3>1. /\ step' \in Steps /\ status' \in {status, "green", "red"}
          /\ exit' = exit \/ exit' \in Outcomes
      BY <2>1, OutcomeFacts DEF Finish, GoTo, Steps, Outcomes
    <3>2. /\ next' = 1 /\ UNCHANGED <<platform, directory, failure, outputs, stepFailed, refused>>
      BY <2>1 DEF inputs
    <3>3. QED
      BY <1>3, <3>1, <3>2 DEF Inv, TypeOK
  <2>4. Progress'
    BY <1>1, <2>1, <2>2
       DEF Inv, Progress, Evidence, NothingYet, OwnSteps, Committing, Announced, Reporting,
           Before, Finish, GoTo, TypeOK, inputs
  <2>5. CASE platform = "github"
    <3>1. (step # "done")'
      BY <2>1, <2>5
    <3>2. QED
      BY <2>3, <2>4, <3>1, OpenJob, PTL DEF Inv
  <2>6. CASE platform = "gitlab"
    <3>1. /\ exit' = TheEvaluation.outcome /\ step' = "done"
          /\ status' = IF exit' = "success" THEN "green" ELSE "red"
      BY <2>1, <2>6 DEF Finish, GoTo
    <3>2. GreenWasReady'
      BY <1>1 DEF GreenWasReady
    <3>3. GreenMeansEvaluated'
      <4>1. status' = "green" => ~(\E r \in TheEvaluation.policies : r.blocking)
        BY <3>1, OutcomeFacts
      <4>2. (Ready => /\ Completed(baseline) /\ Completed(candidate)
                      /\ baseline.revision = DeclaredBaseline
                      /\ candidate.revision = DeclaredCandidate)'
        BY ReadyFacts, PTL
      <4>3. QED
        BY <1>1, <2>2, <2>6, <4>1, <4>2 DEF GreenMeansEvaluated
    <3>4. ReportedOutcomeAgrees'
      <4>1. \A f \in Files : disk'[f] = "evaluated"
        <5>1. \A i \in 1..5 : disk'[GitLabPlan[i]] = "evaluated"
          BY <1>1, <1>4, <1>6, <2>6, PlanFacts DEF Plan
        <5>2. QED
          BY <5>1, PlanFacts
      <4>2. QED
        BY <1>1, <2>2, <2>6, <3>1, <4>1, PlanFacts DEF ReportedOutcomeAgrees
    <3>5. QED
      BY <2>3, <2>4, <3>2, <3>3, <3>4 DEF Inv, Ended
  <2>7. QED
    BY <2>5, <2>6 DEF Inv, TypeOK
<1>7. QED
  BY <1>5, <1>6

LEMMA CommitFailsStep ==
  ASSUME Inv, CommitFails
  PROVE  Inv'
<1>1. /\ step = "commit" /\ step' = "report" /\ failure' = "invalid_input" /\ refused' = TRUE
      /\ next' = 1 /\ UNCHANGED <<inputs, directory, disk, verdicts>>
  BY DEF CommitFails, Throw, GoTo
<1>2. TypeOK'
  BY <1>1 DEF Inv, TypeOK, inputs, verdicts, Steps, Failures
<1>3. (Evidence /\ NothingYet /\ OwnSteps /\ Committing /\ Announced)'
  BY <1>1 DEF Inv, Progress, Evidence, NothingYet, OwnSteps, Committing, Announced, verdicts,
              Before, Failures
<1>4. Reporting'
  <2>1. SUFFICES ASSUME platform = "gitlab" PROVE Reporting'
    BY <1>1, SameInputs DEF Reporting
  <2>2. /\ next \in 1..5 /\ directory = "made"
        /\ \A i \in 1..(next - 1) : disk[GitLabPlan[i]] = "evaluated"
        /\ \A i \in next..5 : disk[GitLabPlan[i]] = "none"
    BY <1>1, <2>1, PlanFacts DEF Inv, Progress, Committing, Plan
  <2>3. disk[GitLabPlan[5]] = "none" /\ \A i \in 1..5 : disk[GitLabPlan[i]] \in {"none", "evaluated"}
    BY <2>2
  <2>4. QED
    BY <1>1, <2>2, <2>3, PlanFacts DEF Reporting
<1>5. (step # "done")'
  BY <1>1
<1>6. QED
  BY <1>2, <1>3, <1>4, <1>5, OpenJob, PTL DEF Inv, Progress

-----------------------------------------------------------------------------
(* GitHub: what is appended, and what the steps after it make of that.      *)

(* An append that failed half way is never read: the step has failed, or    *)
(* the outputs are appended again.                                          *)
LEMMA AppendedOutputs ==
  ASSUME TypeOK, NEW code \in Outcomes, NEW artifact \in BOOLEAN
  PROVE  /\ PrefixesOf(code, artifact) \subseteq [code : Outcomes, artifact : BOOLEAN]
         /\ [code |-> code, artifact |-> artifact] \in [code : Outcomes, artifact : BOOLEAN]
<1>1. /\ outputs \in [code : Outcomes, artifact : BOOLEAN]
      /\ [outputs EXCEPT !.code = code] \in [code : Outcomes, artifact : BOOLEAN]
      /\ [code |-> code, artifact |-> artifact] \in [code : Outcomes, artifact : BOOLEAN]
  BY DEF TypeOK
<1>2. QED
  BY <1>1 DEF PrefixesOf

LEMMA AppendStep ==
  ASSUME Inv, AppendSummary \/ AppendOutputs \/ AppendFails
  PROVE  Inv'
<1>1. /\ step \in {"summary", "outputs"} /\ Ready /\ InPlan("evaluated") /\ platform = "github"
      /\ UNCHANGED <<inputs, storage, stepFailed, exit, status>>
  <2>1. step \in {"summary", "outputs"} /\ UNCHANGED <<inputs, storage, stepFailed, exit, status>>
    BY DEF AppendSummary, AppendOutputs, AppendFails, GoTo, verdicts
  <2>2. QED
    BY <2>1 DEF Inv, Progress, Evidence, OwnSteps, Announced
<1>2. Ready' /\ InPlan("evaluated")' /\ TheEvaluation' = TheEvaluation /\ platform' = platform
  BY <1>1, SameInputs DEF InPlan, storage
<1>3. TheEvaluation.outcome \in Outcomes
  BY OutcomeFacts DEF Outcomes
<1>4. \/ step' = "outputs" /\ UNCHANGED <<failure, outputs, refused>>
      \/ /\ step' = "upload" /\ UNCHANGED <<failure, refused>>
         /\ outputs' = [code |-> TheEvaluation.outcome, artifact |-> TRUE]
      \/ /\ step' = "report" /\ failure' = "invalid_input" /\ refused' = TRUE
         /\ outputs' \in {outputs} \cup PrefixesOf(TheEvaluation.outcome, TRUE)
  <2>1. CASE AppendSummary
    BY <2>1 DEF AppendSummary, GoTo, verdicts
  <2>2. CASE AppendOutputs
    BY <2>2 DEF AppendOutputs, GoTo
  <2>3. CASE AppendFails
    BY <2>3 DEF AppendFails, Throw, GoTo
  <2>4. QED
    BY <2>1, <2>2, <2>3
<1>5. TypeOK'
  <2>1. outputs' \in [code : Outcomes, artifact : BOOLEAN]
    <3>1. outputs \in [code : Outcomes, artifact : BOOLEAN]
      BY DEF Inv, TypeOK
    <3>2. /\ PrefixesOf(TheEvaluation.outcome, TRUE) \subseteq [code : Outcomes, artifact : BOOLEAN]
          /\ [code |-> TheEvaluation.outcome, artifact |-> TRUE] \in [code : Outcomes, artifact : BOOLEAN]
      BY <1>3, AppendedOutputs DEF Inv
    <3>3. QED
      BY <1>4, <3>1, <3>2
  <2>2. step' \in Steps /\ failure' \in Failures \cup {"none"} /\ refused' \in BOOLEAN
    BY <1>4 DEF Inv, TypeOK, Steps, Failures
  <2>3. QED
    BY <1>1, <2>1, <2>2 DEF Inv, TypeOK, inputs, storage
<1>6. Progress'
  BY <1>1, <1>2, <1>4
     DEF Inv, Progress, Evidence, NothingYet, OwnSteps, Committing, Announced, Reporting,
         Before, Failures
<1>7. (step # "done")'
  BY <1>4
<1>8. QED
  BY <1>5, <1>6, <1>7, OpenJob, PTL DEF Inv

LEMMA AppendFailureStep ==
  ASSUME Inv, AppendFailure \/ AppendFailureFails
  PROVE  Inv'
<1>1. /\ step = "report" /\ platform = "github" /\ failure \in Failures
      /\ UNCHANGED <<inputs, storage, failure, exit, status>>
  BY DEF Inv, Progress, OwnSteps, AppendFailure, AppendFailureFails
<1>2. \/ /\ step' = "upload" /\ UNCHANGED <<stepFailed, refused>>
         /\ outputs' = [code |-> failure, artifact |-> FALSE]
      \/ /\ step' = "enforce" /\ stepFailed' = TRUE /\ refused' = TRUE
         /\ outputs' \in PrefixesOf(failure, FALSE)
  BY DEF AppendFailure, AppendFailureFails, GoTo
<1>3. TypeOK'
  <2>1. outputs' \in [code : Outcomes, artifact : BOOLEAN]
    <3>1. failure \in Outcomes
      BY <1>1 DEF Outcomes
    <3>2. /\ PrefixesOf(failure, FALSE) \subseteq [code : Outcomes, artifact : BOOLEAN]
          /\ [code |-> failure, artifact |-> FALSE] \in [code : Outcomes, artifact : BOOLEAN]
      BY <3>1, AppendedOutputs DEF Inv
    <3>3. QED
      BY <1>2, <3>2
  <2>2. step' \in Steps /\ stepFailed' \in BOOLEAN /\ refused' \in BOOLEAN
    BY <1>2 DEF Inv, TypeOK, Steps
  <2>3. QED
    BY <1>1, <2>1, <2>2 DEF Inv, TypeOK, inputs, storage
<1>4. Progress'
  <2>1. step' \in {"upload", "enforce"} /\ ~stepFailed' => outputs' = [code |-> failure, artifact |-> FALSE]
    BY <1>2
  <2>2. Announced'
    <3>1. step' \notin {"summary", "outputs"}
      BY <1>2
    <3>2. outputs' = [code |-> failure, artifact |-> FALSE] =>
            outputs'.code \in Failures /\ ~outputs'.artifact
      BY <1>1
    <3>3. QED
      BY <2>1, <3>1, <3>2 DEF Announced
  <2>3. (Evidence /\ NothingYet /\ OwnSteps /\ Committing /\ Reporting)'
    <3>1. step' \in {"upload", "enforce"} /\ platform' = "github" /\ (step' # "enforce" => ~stepFailed')
      <4>1. platform' = platform
        BY <1>1, SameInputs
      <4>2. ~stepFailed
        BY <1>1 DEF Inv, Progress, OwnSteps
      <4>3. step' # "enforce" => ~stepFailed'
        BY <1>2, <4>2, Zenon
      <4>4. QED
        BY <1>1, <1>2, <4>1, <4>3
    <3>2. status' = "running" /\ exit' = "none"
      BY <1>1 DEF Inv, Progress, OwnSteps
    <3>3. QED
      BY <3>1, <3>2 DEF Evidence, NothingYet, OwnSteps, Committing, Reporting, Before
  <2>4. QED
    BY <2>2, <2>3 DEF Progress
<1>5. (step # "done")'
  BY <1>2
<1>6. QED
  BY <1>3, <1>4, <1>5, OpenJob, PTL DEF Inv

LEMMA UploadStep ==
  ASSUME Inv, Upload
  PROVE  Inv'
<1>1. /\ step = "upload" /\ step' = "enforce" /\ stepFailed' \in {stepFailed, TRUE}
      /\ refused' \in {refused, TRUE}
      /\ UNCHANGED <<inputs, storage, failure, outputs, exit, status>>
  BY DEF Upload, GoTo
<1>2. TypeOK'
  BY <1>1 DEF Inv, TypeOK, inputs, storage, Steps
<1>3. InPlan("evaluated")' <=> InPlan("evaluated")
  BY <1>1, SameInputs DEF InPlan, storage
<1>4. Progress'
  BY <1>1, <1>3, SameInputs
     DEF Inv, Progress, Evidence, NothingYet, OwnSteps, Committing, Announced, Reporting, Before
<1>5. (step # "done")'
  BY <1>1
<1>6. QED
  BY <1>2, <1>4, <1>5, OpenJob, PTL DEF Inv

(* Green needs both outputs: the code, and that no step failed before.       *)
LEMMA EnforceStep ==
  ASSUME Inv, Enforce
  PROVE  Inv'
<1>1. /\ step = "enforce" /\ platform = "github" /\ step' = "done" /\ exit' = outputs.code
      /\ status' = IF outputs.code = "success" /\ ~stepFailed THEN "green" ELSE "red"
      /\ UNCHANGED <<inputs, storage, failure, outputs, stepFailed, refused>>
  BY DEF Inv, Progress, OwnSteps, Enforce, GoTo
<1>2. TypeOK'
  BY <1>1 DEF Inv, TypeOK, inputs, storage, Steps
<1>3. Progress'
  BY <1>1, SameInputs
     DEF Progress, Evidence, NothingYet, OwnSteps, Committing, Announced, Reporting, Before
<1>4. status' = "green" =>
        /\ Ready /\ InPlan("evaluated") /\ TheEvaluation.outcome = "success"
        /\ outputs = [code |-> "success", artifact |-> TRUE]
  <2>1. SUFFICES ASSUME outputs.code = "success", ~stepFailed
                 PROVE  /\ Ready /\ InPlan("evaluated")
                        /\ outputs = [code |-> TheEvaluation.outcome, artifact |-> TRUE]
    BY <1>1
  <2>2. outputs.code \notin Failures
    BY <2>1 DEF Failures
  <2>3. QED
    BY <1>1, <2>1, <2>2 DEF Inv, Progress, Announced
<1>5. InPlan("evaluated")' <=> InPlan("evaluated")
  BY <1>1, SameInputs DEF InPlan, storage
<1>6. GreenWasReady'
  BY <1>1, <1>4, SameInputs DEF GreenWasReady
<1>7. GreenMeansEvaluated'
  <2>1. (Ready => /\ Completed(baseline) /\ Completed(candidate)
                  /\ baseline.revision = DeclaredBaseline
                  /\ candidate.revision = DeclaredCandidate)'
    BY ReadyFacts, PTL
  <2>2. status' = "green" => ~(\E r \in TheEvaluation.policies : r.blocking)
    BY <1>4, OutcomeFacts
  <2>3. QED
    BY <1>1, <1>4, <1>5, <2>1, <2>2, SameInputs DEF GreenMeansEvaluated
<1>8. ReportedOutcomeAgrees'
  BY <1>1, SameInputs DEF ReportedOutcomeAgrees
<1>9. QED
  BY <1>2, <1>3, <1>6, <1>7, <1>8 DEF Inv, Ended

-----------------------------------------------------------------------------
(* GitLab: the files of a failure.                                          *)

(* A job that is over and not green.                                        *)
LEMMA EndedRed ==
  ASSUME Inv, step' = "done", status' = "red"
  PROVE  Progress' /\ GreenWasReady' /\ GreenMeansEvaluated'
BY DEF Inv, Progress, Evidence, NothingYet, OwnSteps, Committing, Announced, Reporting,
       Before, GreenWasReady, GreenMeansEvaluated

LEMMA StageFailureFilesStep ==
  ASSUME Inv, StageFailureFiles
  PROVE  Inv'
<1>1. /\ platform = "gitlab" /\ step = "report" /\ directory = "absent" /\ directory' = "made"
      /\ step' = "report files" /\ UNCHANGED <<inputs, disk, next, failure, verdicts, refused>>
  BY DEF StageFailureFiles, MakeDirectory, GoTo
<1>2. TypeOK'
  BY <1>1 DEF Inv, TypeOK, inputs, verdicts, Steps, Directories
<1>3. (Evidence /\ NothingYet /\ OwnSteps /\ Committing /\ Announced)'
  BY <1>1, SameInputs
     DEF Inv, Progress, Evidence, NothingYet, OwnSteps, Committing, Announced, verdicts, Before
<1>4. Reporting'
  <2>1. Untouched /\ next = 1
    BY <1>1 DEF Inv, Progress, Reporting
  <2>2. \A f \in Files : disk[f] = "none"
    BY <1>1, <2>1 DEF Untouched
  <2>3. \A i \in 1..3 : disk[FailurePlan[i]] = "none"
    BY <2>2, PlanFacts
  <2>4. disk["documents"] = "none" /\ disk["manifest.json"] = "none"
    BY <2>2, PlanFacts
  <2>5. next' = 1 /\ disk' = disk /\ directory' = "made" /\ step' = "report files"
    BY <1>1, <2>1
  <2>6. /\ \A i \in 1..(next' - 1) : disk'[FailurePlan[i]] = "failure"
        /\ \A i \in next'..Len(FailurePlan) : disk'[FailurePlan[i]] = "none"
        /\ next' \in 1..Len(FailurePlan)
    <3>1. next' = 1 /\ Len(FailurePlan) = 3
      BY <2>5, PlanFacts
    <3>2. \A i \in 1..3 : disk'[FailurePlan[i]] = "none"
      BY <2>3, <2>5
    <3>3. QED
      BY <3>1, <3>2
  <2>7. QED
    BY <2>4, <2>5, <2>6 DEF Reporting
<1>5. (step # "done")'
  BY <1>1
<1>6. QED
  BY <1>2, <1>3, <1>4, <1>5, OpenJob, PTL DEF Inv, Progress

LEMMA CommitFailureFileStep ==
  ASSUME Inv, CommitFailureFile
  PROVE  Inv'
<1>1. /\ step = "report files" /\ platform = "gitlab" /\ directory = "made" /\ next \in 1..3
      /\ failure \in Failures
      /\ \A i \in 1..(next - 1) : disk[FailurePlan[i]] = "failure"
      /\ \A i \in next..3 : disk[FailurePlan[i]] = "none"
      /\ disk["documents"] = "none" /\ disk["manifest.json"] = "none"
  BY PlanFacts DEF Inv, Progress, OwnSteps, Reporting, CommitFailureFile
<1>0. next \in 1..3
  BY <1>1
<1>2. /\ UNCHANGED <<inputs, directory, failure, outputs, stepFailed, refused>>
      /\ disk' = [disk EXCEPT ![FailurePlan[next]] = "failure"]
  BY DEF CommitFailureFile
<1>3. /\ disk' \in [Files -> {"none", "foreign", "evaluated", "failure"}]
      /\ \A i \in 1..next : disk'[FailurePlan[i]] = "failure"
      /\ \A i \in (next + 1)..3 : disk'[FailurePlan[i]] = "none"
      /\ disk'["documents"] = "none" /\ disk'["manifest.json"] = "none"
  <2>1. disk \in [Files -> {"none", "foreign", "evaluated", "failure"}]
    BY DEF Inv, TypeOK
  <2>2. \A i \in 1..3 : FailurePlan[i] \in Files \ {"documents", "manifest.json"}
    BY PlanFacts
  <2>3. \A i, j \in 1..3 : FailurePlan[i] = FailurePlan[j] => i = j
    BY PlanFacts
  <2>4. disk' \in [Files -> {"none", "foreign", "evaluated", "failure"}]
    BY <1>1, <1>2, <2>1, <2>2
  <2>5. \A i \in 1..3 : disk'[FailurePlan[i]] = IF i = next THEN "failure" ELSE disk[FailurePlan[i]]
    BY <1>1, <1>2, <2>1, <2>2, <2>3
  <2>6. disk'["documents"] = "none" /\ disk'["manifest.json"] = "none"
    BY <1>1, <1>2, <2>1, <2>2, PlanFacts
  <2>7. \A i \in 1..next : disk'[FailurePlan[i]] = "failure"
    <3>1. \A i \in 1..(next - 1) : disk[FailurePlan[i]] = "failure"
      BY <1>1
    <3>2. QED
      BY <1>0, <2>5, <3>1
  <2>8. \A i \in (next + 1)..3 : disk'[FailurePlan[i]] = "none"
    <3>1. \A i \in next..3 : disk[FailurePlan[i]] = "none"
      BY <1>1
    <3>2. QED
      BY <1>0, <2>5, <3>1
  <2>9. QED
    BY <2>4, <2>6, <2>7, <2>8
<1>4. CASE next < 3
  <2>0. next < Len(FailurePlan)
    BY <1>1, <1>4, PlanFacts
  <2>1. next' = next + 1 /\ UNCHANGED <<step, exit, status>>
    BY <2>0 DEF CommitFailureFile
  <2>2. TypeOK'
    <3>1. next' \in Nat \ {0}
      BY <1>0, <2>1
    <3>2. QED
      BY <1>2, <1>3, <2>1, <3>1 DEF Inv, TypeOK, inputs
  <2>3. (Evidence /\ NothingYet /\ OwnSteps /\ Committing /\ Announced)'
    BY <1>1, <1>2, <2>1, SameInputs
       DEF Inv, Progress, Evidence, NothingYet, OwnSteps, Committing, Announced, Before
  <2>4. Reporting'
    <3>0. next' \in 1..3
      BY <1>0, <1>4, <2>1
    <3>1. step' = "report files" /\ directory' = "made"
      BY <1>1, <1>2, <2>1
    <3>2. /\ \A i \in 1..(next' - 1) : disk'[FailurePlan[i]] = "failure"
          /\ \A i \in next'..3 : disk'[FailurePlan[i]] = "none"
      <4>1. next' - 1 = next
        BY <1>0, <2>1
      <4>2. QED
        BY <1>3, <2>1, <4>1
    <3>3. QED
      BY <1>3, <3>0, <3>1, <3>2, PlanFacts DEF Reporting
  <2>5. (step # "done")'
    BY <1>1, <2>1
  <2>6. QED
    BY <2>2, <2>3, <2>4, <2>5, OpenJob, PTL DEF Inv, Progress
<1>5. CASE next = 3
  <2>0. ~(next < Len(FailurePlan))
    BY <1>5, PlanFacts
  <2>1. next' = 1 /\ step' = "done" /\ exit' = failure /\ status' = "red"
    <3>1. next' = 1 /\ Finish(failure)
      BY <2>0 DEF CommitFailureFile
    <3>2. failure # "success"
      BY <1>1 DEF Failures
    <3>3. QED
      BY <3>1, <3>2 DEF Finish, GoTo
  <2>2. TypeOK'
    <3>1. exit' \in Outcomes
      BY <1>1, <2>1 DEF Outcomes
    <3>2. step' \in Steps /\ status' \in {"running", "green", "red"} /\ next' \in Nat \ {0}
      BY <2>1 DEF Steps
    <3>3. QED
      BY <1>2, <1>3, <3>1, <3>2 DEF Inv, TypeOK, inputs
  <2>3. ReportedOutcomeAgrees'
    <3>1. /\ disk'["gl-code-quality-report.json"] = "failure"
          /\ disk'["gitlab-summary.md"] = "failure" /\ disk'["process-result.json"] = "failure"
      BY <1>3, <1>5, PlanFacts
    <3>2. \A f \in Files : disk'[f] # "foreign"
      BY <1>3, <3>1, PlanFacts
    <3>3. QED
      BY <1>1, <1>2, <1>3, <2>1, <3>1, <3>2, SameInputs DEF ReportedOutcomeAgrees
  <2>4. QED
    BY <2>1, <2>2, <2>3, EndedRed DEF Inv, Ended
<1>6. next < 3 \/ next = 3
  BY <1>0
<1>7. QED
  BY <1>4, <1>5, <1>6

(* What was there is not touched, and the job ends without a result.         *)
LEMMA NoFailureFilesStep ==
  ASSUME Inv, RefuseFailureFiles \/ FailureFilesFail
  PROVE  Inv'
<1>1. /\ platform = "gitlab" /\ step \in {"report", "report files"} /\ failure \in Failures
      /\ step' = "done" /\ exit' = failure /\ status' = "red"
      /\ UNCHANGED <<inputs, disk, next, failure, outputs, stepFailed>>
      /\ directory' \in {directory, "made"}
      /\ \/ refused'
         \/ refused' = refused /\ step = "report" /\ directory # "absent" /\ directory' = directory
  BY DEF Inv, Progress, OwnSteps, RefuseFailureFiles, FailureFilesFail, Finish, GoTo,
         MakeDirectory, Failures, storage
<1>2. TypeOK'
  <2>1. exit' \in Outcomes /\ refused' \in BOOLEAN
    BY <1>1 DEF Inv, TypeOK, Outcomes, RefuseFailureFiles, FailureFilesFail
  <2>2. QED
    BY <1>1, <2>1 DEF Inv, TypeOK, inputs, Steps, Directories
<1>3. ReportedOutcomeAgrees'
  <2>1. Unreported
    BY <1>1, OpenJob DEF Inv
  <2>2. refused' \/ directory' = "leftover"
    <3>1. SUFFICES ASSUME refused' = refused, step = "report", directory # "absent",
                          directory' = directory
                   PROVE  refused' \/ directory' = "leftover"
      BY <1>1
    <3>2. Untouched \/ refused
      BY <1>1, <3>1 DEF Inv, Progress, Reporting
    <3>3. CASE refused
      BY <3>1, <3>3, Zenon
    <3>4. CASE Untouched
      BY <3>1, <3>4 DEF Untouched
    <3>5. QED
      BY <3>2, <3>3, <3>4
  <2>3. QED
    BY <1>1, <2>1, <2>2, SameInputs DEF ReportedOutcomeAgrees, Unreported
<1>4. QED
  BY <1>1, <1>2, <1>3, EndedRed DEF Inv, Ended

LEMMA KillStep ==
  ASSUME Inv, Kill
  PROVE  Inv'
<1>1. /\ step # "done" /\ step' = "done" /\ status' = "red" /\ refused' = TRUE
      /\ UNCHANGED <<inputs, storage, failure, outputs, stepFailed, exit>>
  BY DEF Kill, GoTo
<1>2. TypeOK'
  BY <1>1 DEF Inv, TypeOK, inputs, storage, Steps
<1>3. ReportedOutcomeAgrees'
  <2>1. Unreported
    BY <1>1, OpenJob DEF Inv
  <2>2. QED
    BY <1>1, <2>1, SameInputs DEF ReportedOutcomeAgrees, Unreported, storage
<1>4. QED
  BY <1>1, <1>2, <1>3, EndedRed DEF Inv, Ended

-----------------------------------------------------------------------------
(* The invariant holds at every step, for every job.                        *)
THEOREM Invariance == Spec => []Inv
<1>1. ASSUME Inv, [Next]_vars PROVE Inv'
  <2>1. CASE Next
    BY <1>1, <2>1, RefusalStep, ProceedStep, ScanStep, EvaluateStep, StageStep, CommitFileStep,
       CommitFailsStep, AppendStep, AppendFailureStep, UploadStep, EnforceStep,
       StageFailureFilesStep, CommitFailureFileStep, NoFailureFilesStep, KillStep
       DEF Next
  <2>2. CASE UNCHANGED vars
    <3>1. Ready' = Ready /\ Compared' = Compared /\ TheEvaluation' = TheEvaluation /\ Plan' = Plan
      BY <2>2, SameInputs DEF vars, inputs
    <3>2. TypeOK'
      BY <1>1, <2>2 DEF vars, Inv, TypeOK
    <3>3. InPlan("evaluated")' = InPlan("evaluated")
      BY <2>2, <3>1 DEF vars, InPlan
    <3>4. Progress'
      <4>1. /\ platform' = platform /\ step' = step /\ disk' = disk /\ next' = next
            /\ directory' = directory /\ outputs' = outputs /\ exit' = exit
            /\ failure' = failure /\ status' = status
            /\ configuration' = configuration /\ baseline' = baseline
        BY <2>2 DEF vars
      <4>2. (stepFailed' <=> stepFailed) /\ (refused' <=> refused)
        BY <2>2 DEF vars
      <4>3. Progress
        BY <1>1 DEF Inv
      <4>4. (Evidence /\ NothingYet)'
        BY <3>1, <4>1, <4>3, Zenon DEF Progress, Evidence, NothingYet, Untouched
      <4>5. OwnSteps'
        BY <4>1, <4>2, <4>3, Zenon DEF Progress, OwnSteps
      <4>6. (Committing /\ Announced)'
        BY <3>1, <3>3, <4>1, <4>2, <4>3, Zenon DEF Progress, Committing, Announced
      <4>7. Reporting'
        BY <4>1, <4>2, <4>3, Zenon DEF Progress, Reporting, Untouched
      <4>8. QED
        BY <4>4, <4>5, <4>6, <4>7 DEF Progress
    <3>5. GreenWasReady' /\ GreenMeansEvaluated'
      <4>1. GreenWasReady /\ GreenMeansEvaluated
        BY <1>1 DEF Inv, Ended
      <4>2. /\ status' = status /\ baseline' = baseline /\ candidate' = candidate
            /\ platform' = platform /\ outputs' = outputs
        BY <2>2 DEF vars
      <4>3. QED
        BY <3>1, <3>3, <4>1, <4>2 DEF GreenWasReady, GreenMeansEvaluated, Completed
    <3>6. ReportedOutcomeAgrees'
      <4>1. ReportedOutcomeAgrees
        BY <1>1 DEF Inv, Ended
      <4>2. /\ platform' = platform /\ disk' = disk /\ exit' = exit /\ failure' = failure
            /\ step' = step /\ directory' = directory /\ outputs' = outputs
        BY <2>2 DEF vars
      <4>3. refused' <=> refused
        BY <2>2 DEF vars
      <4>4. stepFailed' <=> stepFailed
        BY <2>2 DEF vars
      <4>5. QED
        BY <3>1, <3>3, <4>1, <4>2, <4>3, <4>4, Zenon DEF ReportedOutcomeAgrees
    <3>7. QED
      BY <3>2, <3>4, <3>5, <3>6 DEF Inv, Ended
  <2>3. QED
    BY <1>1, <2>1, <2>2
<1>2. QED
  BY InitInv, <1>1, PTL DEF Spec

(* Every variable of a job holds a value of its kind.                       *)
THEOREM TypeCorrect == Spec => []TypeOK
BY Invariance, PTL DEF Inv

(* A green job has compared two completed analyses of the declared          *)
(* revisions, published all of its bundle and found nothing that blocks: no *)
(* order of refusals, torn appends and kills turns anything else green.     *)
THEOREM GreenIsEvaluated == Spec => []GreenMeansEvaluated
BY Invariance, PTL DEF Inv, Ended

(* What a job leaves behind, in its directory or in the outputs of its step,*)
(* agrees with how it ended.                                                *)
THEOREM ReportsAgree == Spec => []ReportedOutcomeAgrees
BY Invariance, PTL DEF Inv, Ended

-----------------------------------------------------------------------------
(* What the comparison and the policies see to holds of every job, because  *)
(* the analyses it compares are of the kind the assumptions describe.       *)

LEMMA ComparedFacts ==
  Compared => /\ AnalysisOK(baseline) /\ AnalysisOK(candidate)
              /\ IdentifiersTell(baseline, candidate)
<1>1. SUFFICES ASSUME Compared
               PROVE  /\ AnalysisOK(baseline) /\ AnalysisOK(candidate)
                      /\ IdentifiersTell(baseline, candidate)
  OBVIOUS
<1>2. PICK r \in BaselineHeads, s \in CandidateHeads :
        baseline \in AnalysesOf(r) /\ candidate \in CandidatesOf(baseline, s)
  BY <1>1 DEF Compared
<1>3. candidate \in AnalysesOf(r) \cup AnalysesOf(s)
  BY <1>2 DEF CandidatesOf
<1>4. QED
  BY <1>2, <1>3, AnalysesAssumption

LEMMA ComparedNotGuessed == Inv => NothingPairedByGuess
<1>1. SUFFICES ASSUME Compared PROVE NothingPairedByGuess
  BY DEF Inv, Progress, Evidence, NothingPairedByGuess
<1> DEFINE b == baseline
           c == candidate
<1>2. /\ IsFiniteSet(b.endpoints) /\ IsFiniteSet(c.endpoints) /\ IdentifiersTell(b, c)
  BY <1>1, ComparedFacts DEF AnalysisOK
<1>3. \A p, q \in Pairs(b, c) : p[1] = q[1] <=> p[2] = q[2]
  BY <1>2, PairedOnce
<1>4. \A p \in Pairs(b, c) :
        /\ p[1].slot = p[2].slot
        /\ InSlot(b, p[1].slot) = {p[1]} /\ IdentityStatus(b, p[1]) # "ambiguous"
        /\ InSlot(c, p[2].slot) = {p[2]} /\ IdentityStatus(c, p[2]) # "ambiguous"
  BY <1>2, PairsAreCertain
<1>5. \A e \in Removed(b, c), f \in Added(b, c) :
        e.slot = f.slot => \E x \in EndpointAmbiguities(b, c) : x.key = SlotKey(e.slot)
  BY <1>2, UnmatchedIsListed
<1>6. \A s \in {e.slot : e \in Removed(b, c)} \cap {e.slot : e \in Added(b, c)} :
        \E x \in EndpointAmbiguities(b, c) : x.key = SlotKey(s)
  BY <1>5
<1>7. \A x \in RecordChanges(b, c), y \in RecordAmbiguities(b, c) :
        \A r \in x.before \cup x.after : r.key # y.key /\ r.id \notin y.before \cup y.after
  BY <1>2, AmbiguousUnchanged
<1>8. QED
  BY <1>3, <1>4, <1>6, <1>7 DEF NothingPairedByGuess

(* Nothing is matched by guessing, in the comparison of any two analyses.    *)
THEOREM NothingIsGuessed == Spec => []NothingPairedByGuess
BY Invariance, ComparedNotGuessed, PTL

LEMMA GreenPassed == Inv => NoSilentPass
<1>1. SUFFICES ASSUME Inv, status = "green" PROVE NoSilentPass
  BY DEF NoSilentPass
<1> DEFINE b == baseline
           c == candidate
           Passes(rule) == rule \in DOMAIN configuration /\ configuration[rule].severity = "error"
<1>2. Compared /\ ~\E r \in PolicyResults(configuration, b, c) : r.blocking
  <2>1. Compared /\ ~\E r \in TheEvaluation.policies : r.blocking
    BY <1>1 DEF Inv, Ended, GreenWasReady, Ready, GreenMeansEvaluated
  <2>2. TheEvaluation.policies = PolicyResults(configuration, b, c)
    BY DEF TheEvaluation, Evaluation
  <2>3. QED
    BY <2>1, <2>2
<1>3. AnalysisOK(b) /\ AnalysisOK(c)
  BY <1>2, ComparedFacts
<1>4. \A rule \in DOMAIN configuration :
        /\ configuration[rule].onUnknown \in {"warn", "error"}
        /\ configuration[rule].minimumSeverity \in Severities
  BY <1>2, ConfigurationsAssumption DEF Compared
<1>5. \A rule : Passes(rule) => LetPass(configuration, b, c, rule)
  BY <1>2, <1>4 DEF LetPass
<1>6. ASSUME Passes("require-guard-on-write-endpoint"),
             NEW e \in c.endpoints, "resolved" \in e.writes
      PROVE  \/ "resolved" \in c.globalGuards \cup e.guards
             \/ ListedGap(configuration, b, c, "require-guard-on-write-endpoint", GroupKey(c, e))
  BY <1>3, <1>5, <1>6, WritesAreGuarded DEF AnalysisOK
<1>7. ASSUME Passes("require-complete-write-trace"),
             NEW e \in c.endpoints, "resolved" \in e.writes
      PROVE  \/ ~e.gap
             \/ ListedGap(configuration, b, c, "require-complete-write-trace", GroupKey(c, e))
  BY <1>3, <1>5, <1>7, WritesAreTraced DEF AnalysisOK
<1>8. ASSUME Passes("no-repository-access-in-controller"), NEW k \in c.controllers
      PROVE  \/ k.access \cap {"resolved", "unsupported"} = {}
             \/ ListedGap(configuration, b, c, "no-repository-access-in-controller", k.key)
  BY <1>3, <1>5, <1>8, ControllersKeepOut DEF AnalysisOK
<1>9. ASSUME Passes("require-local-in-process-event-handler"),
             NEW r \in c.records, r.key.kind = "interaction", r.event
      PROVE  \/ "resolved" \in r.matches
             \/ ListedGap(configuration, b, c, "require-local-in-process-event-handler",
                          InteractionSubject(r))
  BY <1>3, <1>5, <1>9, EventsAreHandled
<1>10. ASSUME Passes("no-new-diagnostics"), NEW d \in c.diagnostics
       PROVE  \/ d.key \in {x.key : x \in b.diagnostics}
              \/ SeverityRank[d.severity]
                   < SeverityRank[configuration["no-new-diagnostics"].minimumSeverity]
              \/ ListedGap(configuration, b, c, "no-new-diagnostics", AnalysisSubject)
  <2>1. SUFFICES ASSUME ~(SeverityRank[d.severity]
                            < SeverityRank[configuration["no-new-diagnostics"].minimumSeverity])
                 PROVE  \/ \E x \in b.diagnostics : x.key = d.key
                        \/ ListedGap(configuration, b, c, "no-new-diagnostics", AnalysisSubject)
    OBVIOUS
  <2>2. /\ d.severity \in Severities
        /\ configuration["no-new-diagnostics"].minimumSeverity \in Severities
        /\ IsFiniteSet(c.diagnostics)
        /\ LetPass(configuration, b, c, "no-new-diagnostics")
    BY <1>3, <1>4, <1>5, <1>10 DEF AnalysisOK
  <2>3. \A x \in b.diagnostics \cup c.diagnostics :
          x = [id |-> x.id, key |-> x.key, severity |-> x.severity, body |-> x.body]
    BY <1>3 DEF AnalysisOK
  <2>4. QED
    BY <2>1, <2>2, <2>3, DiagnosticsAreKnown
<1>11. QED
  BY <1>6, <1>7, <1>8, <1>9, <1>10 DEF NoSilentPass, ListedGap, TheEvaluation

(* No blocking rule is passed in silence.                                   *)
THEOREM NoRulePassedInSilence == Spec => []NoSilentPass
BY Invariance, GreenPassed, PTL
=============================================================================

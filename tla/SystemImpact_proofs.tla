--------------------------- MODULE SystemImpact_proofs ---------------------------
(***************************************************************************)
(* Proofs about the chain of system analyses.  First SystemStitching and   *)
(* SystemComparison, for all systems of finitely many endpoints and        *)
(* whatever is missing when they are compared.  Then SystemPropagation,    *)
(* for every system that is searched and every choice of limits.  Last     *)
(* SystemImpact, which composes them.                                      *)
(***************************************************************************)
EXTENDS SystemImpact, FiniteSetTheorems, SequenceTheorems, TLAPS

-----------------------------------------------------------------------------
(* Finite sets.                                                             *)

LEMMA FinitePart ==
  ASSUME NEW S, IsFiniteSet(S), NEW T, T \subseteq S
  PROVE  IsFiniteSet(T)
BY FS_Subset

LEMMA FiniteImage ==
  ASSUME NEW S, IsFiniteSet(S), NEW f, f \in [S -> {f[x] : x \in S}]
  PROVE  IsFiniteSet({f[x] : x \in S})
<1>1. f \in Surjection(S, {f[x] : x \in S})
  BY DEF Surjection
<1>2. QED
  BY <1>1, FS_Surjection

-----------------------------------------------------------------------------
(* What is given to the stitcher, and what it makes of it.                  *)

InputOK(i) ==
  /\ IsFiniteSet(i.endpoints) /\ Null \notin i.endpoints
  /\ \A e \in i.endpoints : e.role \in {"producer", "consumer"}

Consumed(i, ps) == UNION {ConsumedBy(i, p) : p \in ps}

(* The correlations of a whole system, in whatever order it is stitched.    *)
Stitched(i) ==
  {CorrelationOf(i, p) : p \in OfRole(i, "producer")}
    \cup {ConsumerAlone(i, c) : c \in OfRole(i, "consumer") \ Consumed(i, OfRole(i, "producer"))}

(* The realms that a producer and its candidates are in.                    *)
RealmsOf(i, p) == {RealmOf(i, e) : e \in {p} \cup Candidates(i, p)}

LEMMA RealmsFinite ==
  ASSUME NEW i, InputOK(i), NEW p
  PROVE  /\ IsFiniteSet(RealmsOf(i, p))
         /\ Cardinality(RealmsOf(i, p)) \in Nat /\ Cardinality(RealmsOf(i, p) \ {Null}) \in Nat
<1> DEFINE S == {p} \cup Candidates(i, p)
           f == [e \in S |-> RealmOf(i, e)]
<1>1. IsFiniteSet(Candidates(i, p))
  BY FinitePart DEF InputOK, Candidates, SameKind, OfRole
<1>2. IsFiniteSet(S)
  BY <1>1, FS_Union, FS_Singleton
<1>3. {f[x] : x \in S} = RealmsOf(i, p)
  BY DEF RealmsOf
<1>4. f \in [S -> {f[x] : x \in S}]
  OBVIOUS
<1> HIDE DEF f, S
<1>5. IsFiniteSet(RealmsOf(i, p))
  BY <1>2, <1>3, <1>4, FiniteImage
<1>6. QED
  BY <1>5, FS_RemoveElement, FS_CardinalityType

LEMMA CandidateFacts ==
  ASSUME NEW i, NEW p, NEW c \in Candidates(i, p)
  PROVE  /\ c \in i.endpoints /\ c.role = "consumer" /\ Eligible(c)
         /\ ContractsCompatible(p.contract, c.contract)
BY DEF Candidates, SameKind, OfRole

(* What matching finds, one line for each outcome.                          *)
SharedRealm(i, p) ==
  IF Cardinality(RealmsOf(i, p)) = 1 THEN CHOOSE r \in RealmsOf(i, p) : TRUE ELSE Null

LEMMA MatchedForm ==
  ASSUME NEW i, NEW p
  PROVE  Matched(i, p) =
          CASE Cardinality(RealmsOf(i, p) \ {Null}) > 1 ->
                 Correlation("unmatched", "realm_mismatch", p, Candidates(i, p), Null)
            [] Cardinality(RealmsOf(i, p) \ {Null}) <= 1
                 /\ OneConsumerOnly(p.contract) /\ Cardinality(Candidates(i, p)) > 1 ->
                 Correlation("ambiguous", "multiple_consumers", p, Candidates(i, p), SharedRealm(i, p))
            [] OTHER ->
                 Correlation(IF SharedRealm(i, p) # Null THEN "declared_realm_candidate"
                                                         ELSE "target_only_candidate",
                             Null, p, Candidates(i, p), SharedRealm(i, p))
BY DEF Matched, RealmsOf, SharedRealm

LEMMA MatchedFacts ==
  ASSUME NEW i, InputOK(i), NEW p
  PROVE  \/ /\ Cardinality(RealmsOf(i, p) \ {Null}) > 1
            /\ Matched(i, p) = Correlation("unmatched", "realm_mismatch", p, Candidates(i, p), Null)
         \/ /\ OneConsumerOnly(p.contract)
            /\ Matched(i, p) = Correlation("ambiguous", "multiple_consumers", p,
                                           Candidates(i, p), SharedRealm(i, p))
         \/ /\ ~(OneConsumerOnly(p.contract) /\ Cardinality(Candidates(i, p)) > 1)
            /\ SharedRealm(i, p) # Null
            /\ Matched(i, p) = Correlation("declared_realm_candidate", Null, p,
                                           Candidates(i, p), SharedRealm(i, p))
         \/ /\ SharedRealm(i, p) = Null
            /\ Matched(i, p) = Correlation("target_only_candidate", Null, p,
                                           Candidates(i, p), SharedRealm(i, p))
<1>1. Matched(i, p) =
        CASE Cardinality(RealmsOf(i, p) \ {Null}) > 1 ->
               Correlation("unmatched", "realm_mismatch", p, Candidates(i, p), Null)
          [] Cardinality(RealmsOf(i, p) \ {Null}) <= 1
               /\ OneConsumerOnly(p.contract) /\ Cardinality(Candidates(i, p)) > 1 ->
               Correlation("ambiguous", "multiple_consumers", p, Candidates(i, p), SharedRealm(i, p))
          [] OTHER ->
               Correlation(IF SharedRealm(i, p) # Null THEN "declared_realm_candidate"
                                                       ELSE "target_only_candidate",
                           Null, p, Candidates(i, p), SharedRealm(i, p))
  BY MatchedForm
<1>2. Cardinality(RealmsOf(i, p) \ {Null}) \in Nat
  BY RealmsFinite
<1>3. CASE Cardinality(RealmsOf(i, p) \ {Null}) > 1
  BY <1>1, <1>2, <1>3
<1>4. CASE /\ Cardinality(RealmsOf(i, p) \ {Null}) <= 1
           /\ OneConsumerOnly(p.contract) /\ Cardinality(Candidates(i, p)) > 1
  BY <1>1, <1>2, <1>4
<1>5. CASE /\ ~(Cardinality(RealmsOf(i, p) \ {Null}) > 1)
           /\ ~(OneConsumerOnly(p.contract) /\ Cardinality(Candidates(i, p)) > 1)
  BY <1>1, <1>2, <1>5
<1>6. QED
  BY <1>2, <1>3, <1>4, <1>5

LEMMA MatchedShape ==
  ASSUME NEW i, InputOK(i), NEW p
  PROVE  Matched(i, p).producer = p /\ Matched(i, p).consumers = Candidates(i, p)
<1>1. \E state, reason, realm :
        Matched(i, p) = Correlation(state, reason, p, Candidates(i, p), realm)
  BY MatchedFacts
<1>2. ASSUME NEW state, NEW reason, NEW realm,
             Matched(i, p) = Correlation(state, reason, p, Candidates(i, p), realm)
      PROVE  Matched(i, p).producer = p /\ Matched(i, p).consumers = Candidates(i, p)
  BY <1>2 DEF Correlation
<1>3. QED
  BY <1>1, <1>2

LEMMA SharedMeans ==
  ASSUME NEW i, InputOK(i), NEW p
  PROVE  /\ Cardinality(RealmsOf(i, p)) = 1 => RealmsOf(i, p) = {SharedRealm(i, p)}
         /\ SharedRealm(i, p) # Null => RealmsOf(i, p) = {SharedRealm(i, p)}
<1>1. ASSUME Cardinality(RealmsOf(i, p)) = 1 PROVE RealmsOf(i, p) = {SharedRealm(i, p)}
  <2>1. PICK r : RealmsOf(i, p) = {r}
    BY <1>1, RealmsFinite, FS_Singleton
  <2>2. SharedRealm(i, p) = r
    BY <1>1, <2>1 DEF SharedRealm
  <2>3. QED
    BY <2>1, <2>2
<1>2. QED
  BY <1>1 DEF SharedRealm

(* A correlation is of its producer and consumes what the producer does.    *)
LEMMA CorrelationFacts ==
  ASSUME NEW i, InputOK(i), NEW p \in OfRole(i, "producer")
  PROVE  /\ CorrelationOf(i, p).producer = p
         /\ CorrelationOf(i, p).consumers = ConsumedBy(i, p)
         /\ CorrelationOf(i, p).state = "declared_realm_candidate" =>
              /\ Eligible(p) /\ Candidates(i, p) # {}
              /\ CorrelationOf(i, p) = Matched(i, p)
<1>1. CASE ~Eligible(p)
  BY <1>1 DEF CorrelationOf, Unmatched, Correlation, ConsumedBy
<1>2. CASE Eligible(p) /\ Candidates(i, p) = {}
  BY <1>2 DEF CorrelationOf, Unmatched, Correlation, ConsumedBy
<1>3. CASE Eligible(p) /\ Candidates(i, p) # {}
  <2>1. CorrelationOf(i, p) = Matched(i, p)
    BY <1>3 DEF CorrelationOf
  <2>2. Matched(i, p).producer = p /\ Matched(i, p).consumers = Candidates(i, p)
    BY MatchedShape
  <2>3. QED
    BY <1>3, <2>1, <2>2 DEF ConsumedBy
<1>4. QED
  BY <1>1, <1>2, <1>3

LEMMA ConsumedIsConsumer ==
  ASSUME NEW i, NEW p
  PROVE  ConsumedBy(i, p) \subseteq OfRole(i, "consumer")
BY DEF ConsumedBy, Candidates, SameKind

-----------------------------------------------------------------------------
(* The validator accepts what the stitcher makes.                           *)

LEMMA MatchedValid ==
  ASSUME NEW i, InputOK(i), NEW p \in OfRole(i, "producer"), Eligible(p), Candidates(i, p) # {}
  PROVE  CorrelationValid(i, Matched(i, p))
<1> DEFINE x == Matched(i, p)
           members == x.consumers \cup (IF x.producer = Null THEN {} ELSE {x.producer})
           realms  == {RealmOf(i, e) : e \in members}
           several == Cardinality(x.consumers) > 1
<1>1. p \in i.endpoints /\ p.role = "producer" /\ p # Null /\ ExactContract(p.contract)
  BY DEF InputOK, OfRole, Eligible
<1>2. x.producer = p /\ x.consumers = Candidates(i, p)
  BY MatchedShape
<1>3. members = {p} \cup Candidates(i, p)
  BY <1>1, <1>2
<1>4. realms = RealmsOf(i, p)
  BY <1>3 DEF RealmsOf
<1>5. /\ x.producer # Null => x.producer.role = "producer"
      /\ \A c \in x.consumers :
           /\ c.role = "consumer"
           /\ x.producer # Null => ContractsCompatible(x.producer.contract, c.contract)
  BY <1>1, <1>2, CandidateFacts
<1>6. CASE /\ Cardinality(RealmsOf(i, p) \ {Null}) > 1
           /\ x = Correlation("unmatched", "realm_mismatch", p, Candidates(i, p), Null)
  <2>1. x.state = "unmatched" /\ x.reason = "realm_mismatch"
    BY <1>6 DEF Correlation
  <2>2. x.producer # Null /\ x.consumers # {} /\ Cardinality(realms \ {Null}) > 1
    BY <1>1, <1>2, <1>4, <1>6
  <2>3. QED
    BY <1>5, <2>1, <2>2 DEF CorrelationValid
<1>7. CASE /\ OneConsumerOnly(p.contract)
           /\ x = Correlation("ambiguous", "multiple_consumers", p, Candidates(i, p),
                              SharedRealm(i, p))
  <2>1. x.state = "ambiguous" /\ x.reason = "multiple_consumers"
    BY <1>7 DEF Correlation
  <2>2. OneConsumerOnly(x.producer.contract)
    BY <1>2, <1>7
  <2>3. QED
    BY <1>5, <2>1, <2>2 DEF CorrelationValid
<1>8. CASE /\ ~(OneConsumerOnly(p.contract) /\ Cardinality(Candidates(i, p)) > 1)
           /\ SharedRealm(i, p) # Null
           /\ x = Correlation("declared_realm_candidate", Null, p, Candidates(i, p),
                              SharedRealm(i, p))
  <2>1. x.state = "declared_realm_candidate" /\ x.reason = Null /\ x.realm = SharedRealm(i, p)
    BY <1>8 DEF Correlation
  <2>2. /\ realms = {x.realm} /\ x.realm # Null
        /\ x.producer # Null /\ ExactContract(x.producer.contract)
        /\ several => ~OneConsumerOnly(x.producer.contract)
    BY <1>1, <1>2, <1>4, <1>8, <2>1, SharedMeans
  <2>3. x.reason \notin Reasons
    BY <2>1, NullAssumption
  <2>4. QED
    BY <1>5, <2>1, <2>2, <2>3 DEF CorrelationValid, Reasons
<1>9. CASE /\ SharedRealm(i, p) = Null
           /\ x = Correlation("target_only_candidate", Null, p, Candidates(i, p),
                              SharedRealm(i, p))
  <2>1. x.state = "target_only_candidate" /\ x.reason = Null
    BY <1>9 DEF Correlation
  <2>2. Cardinality(realms) = 1 => Null \in realms
    BY <1>4, <1>9, SharedMeans
  <2>3. x.reason \notin Reasons
    BY <2>1, NullAssumption
  <2>4. QED
    BY <1>5, <2>1, <2>2, <2>3 DEF CorrelationValid, Reasons
<1>10. QED
  BY <1>6, <1>7, <1>8, <1>9, MatchedFacts

LEMMA UnmatchedValid ==
  ASSUME NEW i, InputOK(i), NEW p \in OfRole(i, "producer"),
         NEW reason \in {"unsupported_identity", "producer_only", "target_mismatch"}
  PROVE  CorrelationValid(i, Unmatched(i, reason, p))
<1> DEFINE x == Unmatched(i, reason, p)
<1>1. /\ x.state = "unmatched" /\ x.reason = reason /\ x.producer = p /\ x.consumers = {}
      /\ p # Null /\ p.role = "producer"
  BY DEF Unmatched, Correlation, InputOK, OfRole
<1>2. QED
  BY <1>1 DEF CorrelationValid

LEMMA AloneValid ==
  ASSUME NEW i, NEW c \in OfRole(i, "consumer")
  PROVE  CorrelationValid(i, ConsumerAlone(i, c))
<1> DEFINE x == ConsumerAlone(i, c)
<1>1. /\ x.state = "unmatched" /\ x.reason \in {"consumer_only", "unsupported_identity"}
      /\ x.producer = Null /\ x.consumers = {c} /\ c.role = "consumer"
  BY DEF ConsumerAlone, Correlation, OfRole
<1>2. QED
  BY <1>1 DEF CorrelationValid

(* What the stitcher makes of any input, its validator accepts.             *)
THEOREM StitchedIsValid ==
  ASSUME NEW i, InputOK(i), NEW x \in Stitched(i)
  PROVE  CorrelationValid(i, x)
<1>1. ASSUME NEW p \in OfRole(i, "producer") PROVE CorrelationValid(i, CorrelationOf(i, p))
  <2>1. CASE ~Eligible(p)
    BY <2>1, UnmatchedValid DEF CorrelationOf
  <2>2. CASE Eligible(p) /\ Candidates(i, p) = {}
    <3>1. \E reason \in {"producer_only", "target_mismatch"} :
            CorrelationOf(i, p) = Unmatched(i, reason, p)
      BY <2>2 DEF CorrelationOf
    <3>2. QED
      BY <3>1, UnmatchedValid
  <2>3. CASE Eligible(p) /\ Candidates(i, p) # {}
    BY <2>3, MatchedValid DEF CorrelationOf
  <2>4. QED
    BY <2>1, <2>2, <2>3
<1>2. QED
  BY <1>1, AloneValid DEF Stitched

-----------------------------------------------------------------------------
(* Who is accounted for.                                                    *)

LEMMA ConsumedMeans ==
  ASSUME NEW i, NEW ps, NEW c
  PROVE  c \in Consumed(i, ps) <=> \E p \in ps : c \in ConsumedBy(i, p)
BY DEF Consumed

(* A stitched system has one correlation for each producer, and one for a   *)
(* consumer alone exactly if it is a candidate of none of them.             *)
THEOREM StitchedAccounts ==
  ASSUME NEW i, InputOK(i), NEW e \in i.endpoints
  PROVE  LET mine == {x \in Stitched(i) : e = x.producer \/ e \in x.consumers}
         IN  IF e.role = "producer" THEN Cardinality(mine) = 1
             ELSE mine # {} /\ \A x \in mine : x.producer = Null => mine = {x}
<1> DEFINE producers == OfRole(i, "producer")
           alone == OfRole(i, "consumer") \ Consumed(i, producers)
           mine == {x \in Stitched(i) : e = x.producer \/ e \in x.consumers}
<1>1. \A p \in producers : /\ CorrelationOf(i, p).producer = p
                           /\ CorrelationOf(i, p).consumers = ConsumedBy(i, p)
  BY CorrelationFacts
<1>2. \A c : ConsumerAlone(i, c).producer = Null /\ ConsumerAlone(i, c).consumers = {c}
  BY DEF ConsumerAlone, Correlation
<1>3. \A p : ConsumedBy(i, p) \subseteq OfRole(i, "consumer")
  BY ConsumedIsConsumer
<1>4. /\ Null \notin i.endpoints /\ e # Null /\ e.role \in {"producer", "consumer"}
      /\ \A p \in producers : p # Null
  BY DEF InputOK, OfRole
<1>5. CASE e.role = "producer"
  <2>1. e \in producers /\ e \notin OfRole(i, "consumer")
    BY <1>5 DEF OfRole
  <2>2. CorrelationOf(i, e) \in mine
    BY <1>1, <2>1 DEF Stitched
  <2>3. ASSUME NEW x \in mine PROVE x = CorrelationOf(i, e)
    <3>1. CASE \E p \in producers : x = CorrelationOf(i, p)
      BY <1>1, <1>3, <2>1, <3>1
    <3>2. CASE \E c \in alone : x = ConsumerAlone(i, c)
      BY <1>2, <1>4, <2>1, <3>2
    <3>3. QED
      BY <3>1, <3>2 DEF Stitched
  <2>4. mine = {CorrelationOf(i, e)}
    BY <2>2, <2>3
  <2>5. Cardinality(mine) = 1
    BY <2>4, FS_Singleton
  <2>6. QED
    BY <1>5, <2>5
<1>6. CASE e.role = "consumer"
  <2>1. e \in OfRole(i, "consumer") /\ e \notin producers
    BY <1>6 DEF OfRole
  <2>2. CASE e \in Consumed(i, producers)
    <3>1. PICK p \in producers : e \in ConsumedBy(i, p)
      BY <2>2, ConsumedMeans
    <3>2. CorrelationOf(i, p) \in mine
      BY <1>1, <3>1 DEF Stitched
    <3>3. \A x \in mine : x.producer # Null
      <4>1. \A p1 \in producers : CorrelationOf(i, p1).producer # Null
        BY <1>1, <1>4
      <4>2. \A c \in alone : ConsumerAlone(i, c) \notin mine
        BY <1>2, <1>4, <2>2
      <4>3. QED
        BY <4>1, <4>2 DEF Stitched
    <3>4. QED
      BY <1>6, <3>2, <3>3
  <2>3. CASE e \notin Consumed(i, producers)
    <3>1. ConsumerAlone(i, e) \in mine
      BY <1>2, <2>1, <2>3 DEF Stitched
    <3>2. ASSUME NEW x \in mine PROVE x = ConsumerAlone(i, e)
      <4>1. CASE \E p \in producers : x = CorrelationOf(i, p)
        BY <1>1, <2>1, <2>3, <4>1, ConsumedMeans
      <4>2. CASE \E c \in alone : x = ConsumerAlone(i, c)
        BY <1>2, <1>4, <4>2
      <4>3. QED
        BY <4>1, <4>2 DEF Stitched
    <3>3. QED
      BY <1>6, <3>1, <3>2
  <2>4. QED
    BY <2>2, <2>3
<1>7. QED
  BY <1>4, <1>5, <1>6

-----------------------------------------------------------------------------
(* What a correlation depends on: the endpoints and their realms.           *)

LEMMA SameRealms ==
  ASSUME NEW i, NEW j, i.endpoints = j.endpoints,
         \A e \in i.endpoints : RealmOf(i, e) = RealmOf(j, e)
  PROVE  Stitched(i) = Stitched(j)
<1>1. /\ \A role : OfRole(i, role) = OfRole(j, role)
      /\ \A p : SameKind(i, p) = SameKind(j, p)
      /\ \A p : Candidates(i, p) = Candidates(j, p)
      /\ \A p : ConsumedBy(i, p) = ConsumedBy(j, p)
  BY DEF OfRole, SameKind, Candidates, ConsumedBy
<1>2. ASSUME NEW p \in OfRole(i, "producer") PROVE CorrelationOf(i, p) = CorrelationOf(j, p)
  <2>1. p \in i.endpoints /\ Candidates(i, p) \subseteq i.endpoints
    BY CandidateFacts DEF OfRole
  <2>2. RealmOf(i, p) = RealmOf(j, p)
    BY <2>1
  <2>3. {RealmOf(i, e) : e \in {p} \cup Candidates(i, p)}
          = {RealmOf(j, e) : e \in {p} \cup Candidates(j, p)}
    BY <1>1, <2>1
  <2>4. Matched(i, p) = Matched(j, p)
    <3>1. RealmsOf(i, p) = RealmsOf(j, p) /\ Candidates(i, p) = Candidates(j, p)
      BY <1>1, <2>3 DEF RealmsOf
    <3>2. SharedRealm(i, p) = SharedRealm(j, p)
      BY <3>1 DEF SharedRealm
    <3>3. QED
      BY <3>1, <3>2, MatchedForm
  <2>5. QED
    BY <1>1, <2>2, <2>4 DEF CorrelationOf, Unmatched
<1>3. ASSUME NEW c \in OfRole(i, "consumer") PROVE ConsumerAlone(i, c) = ConsumerAlone(j, c)
  BY DEF OfRole, ConsumerAlone
<1>4. Consumed(i, OfRole(i, "producer")) = Consumed(j, OfRole(j, "producer"))
  BY <1>1 DEF Consumed
<1>5. QED
  BY <1>1, <1>2, <1>3, <1>4 DEF Stitched

(* An endpoint that one binding is for is in the realm of that binding.      *)
LEMMA BoundOnce ==
  ASSUME NEW i, ~InputRefused(i), NEW e \in i.endpoints,
         NEW b \in i.bindings, BindingMatches(b, e)
  PROVE  RealmOf(i, e) = b.realm
<1>1. \A a \in i.bindings : BindingMatches(a, e) => a = b
  BY DEF InputRefused
<1>2. (CHOOSE a \in i.bindings : BindingMatches(a, e)) = b
  BY <1>1
<1>3. QED
  BY <1>2 DEF RealmOf, RealmIn

(* More bindings keep the realm of an endpoint that has one.                *)
LEMMA RealmKept ==
  ASSUME NEW i, NEW j, ~InputRefused(i), ~InputRefused(j),
         i.endpoints = j.endpoints, i.bindings \subseteq j.bindings,
         NEW e \in i.endpoints, RealmOf(i, e) # Null
  PROVE  RealmOf(j, e) = RealmOf(i, e)
<1>1. PICK b \in i.bindings : BindingMatches(b, e)
  BY DEF RealmOf, RealmIn
<1>2. RealmOf(i, e) = b.realm
  BY <1>1, BoundOnce
<1>3. RealmOf(j, e) = b.realm
  BY <1>1, BoundOnce
<1>4. QED
  BY <1>2, <1>3

(* A candidate that a topology declares stays one when it declares more.     *)
THEOREM DeclaredStays ==
  ASSUME NEW i, NEW j, InputOK(i), InputOK(j), ~InputRefused(i), ~InputRefused(j),
         i.endpoints = j.endpoints, i.bindings \subseteq j.bindings,
         NEW x \in Stitched(i), x.state = "declared_realm_candidate"
  PROVE  x \in Stitched(j)
<1>1. PICK p \in OfRole(i, "producer") : x = CorrelationOf(i, p)
  BY DEF Stitched, ConsumerAlone, Correlation
<1>2. Eligible(p) /\ Candidates(i, p) # {} /\ x = Matched(i, p)
  BY <1>1, CorrelationFacts
<1>3. /\ ~(OneConsumerOnly(p.contract) /\ Cardinality(Candidates(i, p)) > 1)
      /\ SharedRealm(i, p) # Null
      /\ x = Correlation("declared_realm_candidate", Null, p, Candidates(i, p), SharedRealm(i, p))
  <2>1. \A state, reason, realm :
          Correlation(state, reason, p, Candidates(i, p), realm).state = state
    BY DEF Correlation
  <2>2. \A state, reason, realm :
          Matched(i, p) = Correlation(state, reason, p, Candidates(i, p), realm) =>
            state = "declared_realm_candidate"
    BY <1>2, <2>1
  <2>3. QED
    BY <1>2, <2>2, MatchedFacts
<1>4. RealmsOf(i, p) = {SharedRealm(i, p)}
  BY <1>3, SharedMeans
<1>5. p \in OfRole(j, "producer") /\ Candidates(j, p) = Candidates(i, p)
  BY DEF OfRole, Candidates, SameKind
<1>6. RealmsOf(j, p) = RealmsOf(i, p)
  <2>1. \A e \in {p} \cup Candidates(i, p) : e \in i.endpoints
    BY CandidateFacts DEF OfRole
  <2>2. \A e \in {p} \cup Candidates(i, p) : RealmOf(i, e) # Null
    BY <1>3, <1>4 DEF RealmsOf
  <2>3. \A e \in {p} \cup Candidates(i, p) : RealmOf(j, e) = RealmOf(i, e)
    BY <2>1, <2>2, RealmKept
  <2>4. QED
    BY <1>5, <2>3 DEF RealmsOf
<1>7. SharedRealm(j, p) = SharedRealm(i, p)
  BY <1>6 DEF SharedRealm
<1>8. Matched(j, p) = x
  <2>1. Cardinality(RealmsOf(j, p) \ {Null}) = 1
    <3>1. RealmsOf(j, p) \ {Null} = {SharedRealm(i, p)}
      BY <1>3, <1>4, <1>6
    <3>2. QED
      BY <3>1, FS_Singleton
  <2>2. Matched(j, p) = Correlation("declared_realm_candidate", Null, p, Candidates(j, p),
                                    SharedRealm(j, p))
    <3>1. ~(OneConsumerOnly(p.contract) /\ Cardinality(Candidates(j, p)) > 1)
      BY <1>3, <1>5
    <3>2. SharedRealm(j, p) # Null /\ ~(Cardinality(RealmsOf(j, p) \ {Null}) > 1)
      BY <1>3, <1>7, <2>1
    <3>3. QED
      BY <3>1, <3>2, MatchedForm
  <2>3. QED
    BY <1>3, <1>5, <1>7, <2>2
<1>9. CorrelationOf(j, p) = x
  BY <1>2, <1>5, <1>8 DEF CorrelationOf
<1>10. QED
  BY <1>5, <1>9 DEF Stitched

-----------------------------------------------------------------------------
(* The inductive invariant.                                                 *)

Past(m) == moment = "done" \/ (m = "before" /\ moment = "after")

(* A moment that was stitched has the correlations of the whole system, in  *)
(* whatever order its producers were taken.                                 *)
Settled(m) ==
  /\ outcome[m] = "stitched" =>
       Past(m) /\ ~InputRefused(given[m]) /\ correlations[m] = Stitched(given[m])
  /\ outcome[m] = "absent" => given[m].services = {} /\ correlations[m] = {}
  /\ outcome[m] # "invalid"
  /\ ~Past(m) => outcome[m] = "none" /\ (m # moment => correlations[m] = {})

(* The moment at hand has those of the producers that were taken.            *)
Stitching ==
  moment # "done" =>
    LET taken == OfRole(Input, "producer") \ todo
    IN  /\ todo \subseteq OfRole(Input, "producer")
        /\ taken # {} => Input.services # {} /\ ~InputRefused(Input)
        /\ correlations[moment] = {CorrelationOf(Input, p) : p \in taken}
        /\ consumed = Consumed(Input, taken)

StitchInv ==
  /\ moment \in Moments \cup {"done"}
  /\ correlations = [m \in Moments |-> correlations[m]]
  /\ outcome = [m \in Moments |-> outcome[m]]
  /\ \A m \in Moments : Settled(m)
  /\ Stitching

(* What is compared is what was observed of the truth.                      *)
Observed ==
  truth \in Truths /\ sight \in Sights /\ given = [m \in Moments |-> GivenAt(m)]

TheReport ==
  [state        |-> IF Uncertainties = {} THEN "completed" ELSE "completed_with_unknowns",
   services     |-> Changes(ServiceSnapshots("before"), ServiceSnapshots("after")),
   endpoints    |-> Changes(EndpointSnapshots("before"), EndpointSnapshots("after")),
   bindings     |-> BindingChanges,
   correlations |-> CorrelationChanges,
   candidates   |-> CandidateChanges,
   unknown      |-> Uncertainties]

(* A comparison needs both systems, and topologies that agree with them.     *)
Reported ==
  \/ report \in {NoReport, Rejected}
  \/ /\ moment = "done" /\ \A m \in Moments : outcome[m] \in {"stitched", "absent"}
     /\ \A m \in Moments : Agrees(m)
     /\ report = TheReport

Inv == Observed /\ StitchInv /\ Reported

-----------------------------------------------------------------------------
LEMMA GivenFacts ==
  ASSUME Observed, NEW m \in Moments
  PROVE  /\ given[m] = GivenAt(m) /\ InputOK(given[m])
         /\ given[m].endpoints = {e \in truth[m].endpoints : e.service \in Available(m)}
         /\ given[m].services = Available(m)
<1>1. given[m] = GivenAt(m)
  BY DEF Observed
<1>2. /\ GivenAt(m).services = Available(m)
      /\ GivenAt(m).endpoints = {e \in truth[m].endpoints : e.service \in Available(m)}
  BY DEF GivenAt, OfServices
<1>3. /\ IsFiniteSet(truth[m].endpoints) /\ Null \notin truth[m].endpoints
      /\ \A e \in truth[m].endpoints : e.role \in {"producer", "consumer"}
  BY TruthsAssumption DEF Observed
<1>4. IsFiniteSet(GivenAt(m).endpoints)
  BY <1>2, <1>3, FinitePart
<1>5. QED
  BY <1>1, <1>2, <1>3, <1>4 DEF InputOK

LEMMA InitInv == ComparisonInit => Inv
<1>1. SUFFICES ASSUME ComparisonInit PROVE Inv
  OBVIOUS
<1>2. Observed /\ Reported
  BY <1>1 DEF ComparisonInit, Observed, Reported
<1>3. StitchInv
  <2>1. /\ moment = "before" /\ todo = ProducersAt("before") /\ consumed = {}
        /\ correlations = [m \in Moments |-> {}] /\ outcome = [m \in Moments |-> "none"]
    BY <1>1 DEF ComparisonInit, StitchInit
  <2>2. \A m \in Moments : Settled(m)
    BY <2>1 DEF Settled, Past, Moments
  <2>3. todo = OfRole(Input, "producer")
    BY <2>1 DEF ProducersAt, OfRole, Input
  <2>4. Stitching
    BY <2>1, <2>3 DEF Stitching, Consumed, Moments
  <2>5. QED
    BY <2>1, <2>2, <2>4 DEF StitchInv, Moments
<1>4. QED
  BY <1>2, <1>3 DEF Inv

(* A moment ends with an outcome and leaves the other one as it was.         *)
LEMMA EndStep ==
  ASSUME Inv, moment \in Moments, NEW result \in {"absent", "refused", "stitched"},
         EndMoment(result),
         correlations' = [m \in Moments |-> correlations'[m]],
         \A m \in Moments \ {moment} : correlations'[m] = correlations[m],
         result = "absent" => Input.services = {} /\ correlations'[moment] = {},
         result = "stitched" => /\ ~InputRefused(Input)
                                /\ correlations'[moment] = Stitched(Input)
  PROVE  StitchInv'
<1>1. /\ given' = given /\ consumed' = {} /\ moment' = NextMoment
      /\ outcome' = [outcome EXCEPT ![moment] = result] /\ todo' = ProducersAt(NextMoment)
  BY DEF EndMoment
<1>2. /\ \/ moment = "before" /\ moment' = "after"
         \/ moment = "after" /\ moment' = "done"
      /\ outcome = [m \in Moments |-> outcome[m]]
  <2>1. moment = "before" \/ moment = "after"
    BY DEF Moments
  <2>2. QED
    BY <1>1, <2>1 DEF Inv, StitchInv, NextMoment
<1>3. /\ outcome' = [m \in Moments |-> outcome'[m]]
      /\ outcome'[moment] = result
      /\ \A m \in Moments \ {moment} : outcome'[m] = outcome[m]
  BY <1>1, <1>2
<1>4. \A m \in Moments : Past(m)' <=> Past(m) \/ m = moment
  BY <1>2 DEF Past, Moments
<1>5. ASSUME NEW m \in Moments PROVE Settled(m)'
  <2>1. CASE m = moment
    BY <1>1, <1>3, <1>4, <2>1 DEF Settled, Input
  <2>2. CASE m # moment
    <3>1. Settled(m)
      BY DEF Inv, StitchInv
    <3>2. outcome'[m] = outcome[m] /\ correlations'[m] = correlations[m] /\ given' = given
      BY <1>1, <1>3, <2>2
    <3>3. Past(m) => Past(m)'
      BY <1>4
    <3>4. ~Past(m)' => ~Past(m)
      BY <1>4
    <3>5. QED
      BY <2>2, <3>1, <3>2, <3>3, <3>4 DEF Settled
  <2>3. QED
    BY <2>1, <2>2
<1>6. Stitching'
  <2>1. SUFFICES ASSUME moment' = "after" PROVE Stitching'
    BY <1>2 DEF Stitching
  <2>2. todo' = OfRole(Input', "producer")
    BY <1>1, <2>1 DEF ProducersAt, OfRole, Input
  <2>3. correlations'["after"] = {}
    <3>1. moment = "before" /\ "after" \in Moments
      BY <1>2, <2>1 DEF Moments
    <3>2. ~Past("after")
      BY <3>1 DEF Past
    <3>3. QED
      BY <3>1, <3>2 DEF Inv, StitchInv, Settled
  <2>4. QED
    BY <1>1, <2>1, <2>2, <2>3 DEF Stitching, Consumed
<1>7. moment' \in Moments \cup {"done"}
  BY <1>2 DEF Moments
<1>8. QED
  BY <1>3, <1>5, <1>6, <1>7 DEF StitchInv

LEMMA RefusalStep ==
  ASSUME Inv, NoServices \/ RefuseInput
  PROVE  StitchInv'
<1>1. correlations' = correlations /\ moment \in Moments
  BY DEF NoServices, RefuseInput
<1>2. /\ correlations = [m \in Moments |-> correlations[m]]
      /\ Stitching
  BY DEF Inv, StitchInv
<1>3. CASE NoServices
  <2>1. Input.services = {} /\ EndMoment("absent")
    BY <1>3 DEF NoServices
  <2>2. correlations[moment] = {}
    BY <1>1, <1>2, <2>1 DEF Stitching, Moments
  <2>3. QED
    BY <1>1, <1>2, <2>1, <2>2, EndStep
<1>4. CASE RefuseInput
  <2>1. EndMoment("refused")
    BY <1>4 DEF RefuseInput
  <2>2. QED
    BY <1>1, <1>2, <2>1, EndStep
<1>5. QED
  BY <1>3, <1>4

LEMMA ProducerStep ==
  ASSUME Inv, NEW p \in todo, StitchProducer(p)
  PROVE  StitchInv'
<1> DEFINE producers == OfRole(Input, "producer")
           taken == producers \ todo
<1>1. /\ moment \in Moments /\ Input.services # {} /\ ~InputRefused(Input)
      /\ correlations' = [correlations EXCEPT ![moment] = @ \cup {CorrelationOf(Input, p)}]
      /\ consumed' = consumed \cup ConsumedBy(Input, p) /\ todo' = todo \ {p}
      /\ given' = given /\ moment' = moment /\ outcome' = outcome /\ Input' = Input
  BY DEF StitchProducer, Input
<1>2. /\ todo \subseteq producers
      /\ correlations = [m \in Moments |-> correlations[m]]
      /\ correlations[moment] = {CorrelationOf(Input, q) : q \in taken}
      /\ consumed = Consumed(Input, taken)
  BY <1>1 DEF Inv, StitchInv, Stitching, Moments
<1>3. producers \ todo' = taken \cup {p}
  BY <1>1, <1>2
<1>4. /\ correlations' = [m \in Moments |-> correlations'[m]]
      /\ correlations'[moment] = correlations[moment] \cup {CorrelationOf(Input, p)}
      /\ \A m \in Moments \ {moment} : correlations'[m] = correlations[m]
  BY <1>1, <1>2
<1>5. Stitching'
  <2>1. correlations'[moment] = {CorrelationOf(Input, q) : q \in taken \cup {p}}
    BY <1>2, <1>4
  <2>2. Consumed(Input, taken \cup {p}) = Consumed(Input, taken) \cup ConsumedBy(Input, p)
    BY DEF Consumed
  <2>3. todo' \subseteq producers
    BY <1>1, <1>2
  <2>4. QED
    <3>1. OfRole(Input', "producer") \ todo' = taken \cup {p}
      BY <1>1, <1>3
    <3>2. correlations'[moment'] = {CorrelationOf(Input', q) : q \in taken \cup {p}}
      BY <1>1, <2>1
    <3>3. consumed' = Consumed(Input', taken \cup {p})
      BY <1>1, <1>2, <2>2
    <3>4. Input'.services # {} /\ ~InputRefused(Input') /\ todo' \subseteq OfRole(Input', "producer")
      BY <1>1, <2>3
    <3>5. QED
      BY <3>1, <3>2, <3>3, <3>4 DEF Stitching
<1>6. ASSUME NEW m \in Moments PROVE Settled(m)'
  <2>1. Settled(m) /\ (Past(m)' <=> Past(m)) /\ (m = moment => ~Past(m))
    BY <1>1 DEF Inv, StitchInv, Past, Moments
  <2>2. CASE m = moment
    BY <1>1, <2>1, <2>2 DEF Settled
  <2>3. CASE m # moment
    BY <1>1, <1>4, <2>1, <2>3 DEF Settled
  <2>4. QED
    BY <2>2, <2>3
<1>7. QED
  BY <1>1, <1>4, <1>5, <1>6 DEF Inv, StitchInv

LEMMA ConsumersStep ==
  ASSUME Inv, ListConsumers
  PROVE  StitchInv'
<1> DEFINE all == correlations[moment]
                    \cup {ConsumerAlone(Input, c) : c \in OfRole(Input, "consumer") \ consumed}
<1>1. /\ moment \in Moments /\ Input.services # {} /\ ~InputRefused(Input) /\ todo = {}
      /\ correlations' = [correlations EXCEPT ![moment] = all]
      /\ EndMoment(IF \A x \in all : CorrelationValid(Input, x) THEN "stitched" ELSE "invalid")
  BY DEF ListConsumers
<1>2. correlations = [m \in Moments |-> correlations[m]]
  BY DEF Inv, StitchInv
<1>3. /\ correlations[moment] = {CorrelationOf(Input, p) : p \in OfRole(Input, "producer")}
      /\ consumed = Consumed(Input, OfRole(Input, "producer"))
  <2>1. OfRole(Input, "producer") \ todo = OfRole(Input, "producer")
    BY <1>1
  <2>2. moment # "done" /\ Stitching
    BY <1>1 DEF Inv, StitchInv, Moments
  <2>3. QED
    BY <2>1, <2>2 DEF Stitching
<1>4. all = Stitched(Input)
  BY <1>3 DEF Stitched
<1>5. InputOK(Input)
  BY <1>1, GivenFacts DEF Inv, Input
<1>6. \A x \in all : CorrelationValid(Input, x)
  BY <1>4, <1>5, StitchedIsValid
<1> HIDE DEF all
<1>7. EndMoment("stitched")
  BY <1>1, <1>6
<1>8. /\ correlations' = [m \in Moments |-> correlations'[m]]
      /\ correlations'[moment] = Stitched(Input)
      /\ \A m \in Moments \ {moment} : correlations'[m] = correlations[m]
  BY <1>1, <1>2, <1>4
<1>9. QED
  BY <1>1, <1>7, <1>8, EndStep

(* What depends on the systems alone stays as long as they do.              *)
LEMMA SameSystems ==
  ASSUME Inv, UNCHANGED <<stitchVars, truth, sight>>
  PROVE  /\ Observed' /\ StitchInv' /\ TheReport' = TheReport
         /\ \A m \in Moments : Agrees(m)' <=> Agrees(m)
<1>1. /\ given' = given /\ moment' = moment /\ todo' = todo /\ consumed' = consumed
      /\ correlations' = correlations /\ outcome' = outcome
      /\ truth' = truth /\ sight' = sight
  BY DEF stitchVars
<1>2. Observed'
  BY <1>1 DEF Inv, Observed, GivenAt, OfServices, Available
<1>3. StitchInv'
  <2>1. Input' = Input /\ Stitching
    BY <1>1 DEF Input, Inv, StitchInv
  <2>2. Stitching'
    BY <1>1, <2>1 DEF Stitching
  <2>3. \A m \in Moments : Settled(m)' <=> Settled(m)
    BY <1>1 DEF Settled, Past
  <2>4. QED
    BY <1>1, <2>2, <2>3 DEF Inv, StitchInv
<1>4. /\ TheReport' = TheReport /\ \A m \in Moments : Agrees(m)' <=> Agrees(m)
  BY <1>1 DEF TheReport, Uncertainties, BindingChanges, CandidateChanges, CorrelationChanges,
       CorrelationsComparable, TopologyComparable, AllServicesKnown, TopologyKnown,
       ServiceSnapshots, EndpointSnapshots, BindingSnapshots, CorrelationSnapshots,
       ManifestBindings, Comparable, KnownService, Agrees
<1>5. QED
  BY <1>2, <1>3, <1>4

LEMMA ComparisonStep ==
  ASSUME Inv, Compare \/ RejectInputs
  PROVE  Inv'
<1>1. /\ UNCHANGED <<stitchVars, truth, sight>>
      /\ report' = Rejected \/ /\ moment = "done"
                               /\ \A m \in Moments : outcome[m] \in {"stitched", "absent"}
                               /\ \A m \in Moments : Agrees(m)
                               /\ report' = TheReport
  BY DEF Compare, RejectInputs, Ready, TheReport
<1>2. moment' = moment /\ outcome' = outcome
  BY <1>1 DEF stitchVars
<1>3. Reported'
  BY <1>1, <1>2, SameSystems DEF Reported
<1>4. QED
  BY <1>1, <1>3, SameSystems DEF Inv

LEMMA StitchingStep ==
  ASSUME Inv, StitchNext, UNCHANGED <<truth, sight, report>>
  PROVE  Inv'
<1>1. moment \in Moments /\ given' = given
  BY DEF StitchNext, NoServices, RefuseInput, ListConsumers, StitchProducer, EndMoment
<1>2. Observed'
  BY <1>1 DEF Inv, Observed, GivenAt, OfServices, Available
<1>3. StitchInv'
  BY RefusalStep, ProducerStep, ConsumersStep DEF StitchNext
<1>4. Reported'
  <2>1. moment # "done"
    BY <1>1 DEF Moments
  <2>2. report \in {NoReport, Rejected}
    BY <2>1 DEF Inv, Reported
  <2>3. QED
    BY <2>2 DEF Reported
<1>5. QED
  BY <1>2, <1>3, <1>4 DEF Inv

LEMMA InvKept ==
  ASSUME Inv, [ComparisonNext]_comparisonVars
  PROVE  Inv'
<1>1. CASE ComparisonNext
  BY <1>1, StitchingStep, ComparisonStep DEF ComparisonNext
<1>2. CASE UNCHANGED comparisonVars
  <2>1. UNCHANGED <<stitchVars, truth, sight>> /\ report' = report
    BY <1>2 DEF comparisonVars
  <2>2. moment' = moment /\ outcome' = outcome
    BY <2>1 DEF stitchVars
  <2>3. QED
    BY <2>1, <2>2, SameSystems DEF Inv, Reported
<1>3. QED
  BY <1>1, <1>2

(* The invariant holds whatever the order in which producers are taken and  *)
(* whatever of the systems is not there to see.                             *)
THEOREM Invariance == ComparisonSpec => []Inv
BY InitInv, InvKept, PTL DEF ComparisonSpec

-----------------------------------------------------------------------------
(* What the stitcher promises.                                              *)

(* A document to stitch is never refused by the validator.                  *)
THEOREM NeverInvalid == ComparisonSpec => []ValidatorAccepts
<1>1. Inv => ValidatorAccepts
  BY DEF Inv, StitchInv, Settled, ValidatorAccepts
<1>2. QED
  BY <1>1, Invariance, PTL

(* Every endpoint of a stitched system is accounted for.                    *)
THEOREM AllAccounted == ComparisonSpec => []EveryEndpointAccounted
<1>1. ASSUME Inv PROVE EveryEndpointAccounted
  <2>1. ASSUME NEW m \in Moments, outcome[m] = "stitched", NEW e \in given[m].endpoints
        PROVE  LET mine == {x \in correlations[m] : e = x.producer \/ e \in x.consumers}
               IN  IF e.role = "producer" THEN Cardinality(mine) = 1
                   ELSE mine # {} /\ \A x \in mine : x.producer = Null => mine = {x}
    <3>1. correlations[m] = Stitched(given[m])
      BY <1>1, <2>1 DEF Inv, StitchInv, Settled
    <3>2. InputOK(given[m])
      BY <1>1, GivenFacts DEF Inv
    <3>3. LET mine == {x \in Stitched(given[m]) : e = x.producer \/ e \in x.consumers}
          IN  IF e.role = "producer" THEN Cardinality(mine) = 1
              ELSE mine # {} /\ \A x \in mine : x.producer = Null => mine = {x}
      BY <2>1, <3>2, StitchedAccounts
    <3>4. QED
      BY <3>1, <3>3
  <2>2. QED
    BY <2>1 DEF EveryEndpointAccounted
<1>2. QED
  BY <1>1, Invariance, PTL

(* More topology takes no declared candidate away.                          *)
THEOREM CandidatesStay == ComparisonSpec => []MoreTopologyKeepsCandidates
<1>1. ASSUME Inv PROVE MoreTopologyKeepsCandidates
  <2>1. SUFFICES ASSUME \A m \in Moments : outcome[m] = "stitched",
                        given["before"].endpoints = given["after"].endpoints,
                        given["before"].bindings \subseteq given["after"].bindings,
                        NEW x \in correlations["before"], x.state = "declared_realm_candidate"
                 PROVE  x \in correlations["after"]
    BY DEF MoreTopologyKeepsCandidates
  <2>2. \A m \in Moments : /\ ~InputRefused(given[m]) /\ correlations[m] = Stitched(given[m])
                           /\ InputOK(given[m])
    BY <1>1, <2>1, GivenFacts DEF Inv, StitchInv, Settled
  <2>3. "before" \in Moments /\ "after" \in Moments
    BY DEF Moments
  <2>4. QED
    BY <2>1, <2>2, <2>3, DeclaredStays
<1>2. QED
  BY <1>1, Invariance, PTL

-----------------------------------------------------------------------------
(* Changes between sets of snapshots, and what has really changed.           *)

LEMMA SnapshotMeans ==
  ASSUME NEW s, NEW k
  PROVE  /\ \A v : v \in SnapshotAt(s, k) <=> \E y \in s : y.key = k /\ y.value = v
         /\ k \in Keys(s) <=> SnapshotAt(s, k) # {}
         /\ k \in Keys(s) <=> \E y \in s : y.key = k
BY DEF SnapshotAt, Keys

LEMMA KeyedMeans == \A k, v : Keyed(k, v).key = k /\ Keyed(k, v).value = v
BY DEF Keyed

(* Two sets that agree on a key.                                            *)
SameAt(s, t, k) == \A y : y \in s /\ y.key = k <=> y \in t /\ y.key = k

LEMMA SameSnapshot ==
  ASSUME NEW s, NEW t, NEW k, SameAt(s, t, k)
  PROVE  SnapshotAt(s, k) = SnapshotAt(t, k)
<1>1. \A v : v \in SnapshotAt(s, k) <=> v \in SnapshotAt(t, k)
  BY SnapshotMeans DEF SameAt
<1>2. QED
  BY <1>1 DEF SnapshotAt

LEMMA PairedSnapshot ==
  ASSUME NEW old, NEW new, NEW s, NEW k, k \notin AmbiguousKeys(old) \cup AmbiguousKeys(new)
  PROVE  SnapshotAt(PairedUnique(old, new, s), k) = SnapshotAt(s, k)
<1>1. SameAt(PairedUnique(old, new, s), s, k)
  BY DEF SameAt, PairedUnique
<1>2. QED
  BY <1>1, SameSnapshot

(* A change of what is known of a key is a difference if it is known whole.  *)
LEMMA ChangesAreDifferences ==
  ASSUME NEW old, NEW new, NEW trueOld, NEW trueNew,
         \A k \in Keys(old) \cup Keys(new) : SameAt(old, trueOld, k) /\ SameAt(new, trueNew, k)
  PROVE  Changes(old, new) \subseteq Differences(trueOld, trueNew)
<1> DEFINE before == PairedUnique(old, new, old)
           after  == PairedUnique(old, new, new)
<1>1. SUFFICES ASSUME NEW c \in Changes(old, new) PROVE c \in Differences(trueOld, trueNew)
  OBVIOUS
<1>2. PICK k \in Keys(before) \cup Keys(after) :
        /\ SnapshotAt(before, k) # SnapshotAt(after, k)
        /\ c = [key |-> k, before |-> SnapshotAt(before, k), after |-> SnapshotAt(after, k)]
  BY DEF Changes
<1>3. k \in Keys(old) \cup Keys(new) /\ k \notin AmbiguousKeys(old) \cup AmbiguousKeys(new)
  BY DEF PairedUnique, Keys
<1>4. SnapshotAt(before, k) = SnapshotAt(old, k) /\ SnapshotAt(after, k) = SnapshotAt(new, k)
  BY <1>3, PairedSnapshot
<1>5. SnapshotAt(old, k) = SnapshotAt(trueOld, k) /\ SnapshotAt(new, k) = SnapshotAt(trueNew, k)
  BY <1>3, SameSnapshot
<1>6. k \in Keys(trueOld) \cup Keys(trueNew)
  BY <1>2, <1>4, <1>5, SnapshotMeans
<1>7. QED
  BY <1>2, <1>4, <1>5, <1>6 DEF Differences

(* A difference of a key that is known whole and once is a change.           *)
LEMMA DifferencesAreChanges ==
  ASSUME NEW old, NEW new, NEW trueOld, NEW trueNew, NEW c \in Differences(trueOld, trueNew),
         c.key \notin AmbiguousKeys(old) \cup AmbiguousKeys(new),
         SameAt(old, trueOld, c.key), SameAt(new, trueNew, c.key)
  PROVE  c \in Changes(old, new)
<1> DEFINE before == PairedUnique(old, new, old)
           after  == PairedUnique(old, new, new)
<1>1. PICK k : /\ SnapshotAt(trueOld, k) # SnapshotAt(trueNew, k)
               /\ c = [key |-> k, before |-> SnapshotAt(trueOld, k),
                       after |-> SnapshotAt(trueNew, k)]
  BY DEF Differences
<1>2. c.key = k
  BY <1>1
<1>3. SnapshotAt(before, k) = SnapshotAt(trueOld, k) /\ SnapshotAt(after, k) = SnapshotAt(trueNew, k)
  BY <1>2, PairedSnapshot, SameSnapshot
<1>4. k \in Keys(before) \cup Keys(after)
  BY <1>1, <1>3, SnapshotMeans
<1>5. QED
  BY <1>1, <1>3, <1>4 DEF Changes

LEMMA DifferenceKey ==
  ASSUME NEW old, NEW new, NEW c \in Differences(old, new)
  PROVE  c.key \in Keys(old) \cup Keys(new)
BY DEF Differences

-----------------------------------------------------------------------------
(* What is known of the services and endpoints at hand.                     *)

LEMMA ServicesMeans ==
  ASSUME NEW m
  PROVE  /\ \A y : y \in ServiceSnapshots(m) <=>
                     \E s : /\ s \in given[m].services /\ Comparable(s)
                            /\ y = Keyed(s, {e \in given[m].endpoints : e.service = s})
         /\ \A y : y \in TrueServices(m) <=>
                     \E s : /\ s \in truth[m].services
                            /\ y = Keyed(s, {e \in truth[m].endpoints : e.service = s})
BY DEF ServiceSnapshots, TrueServices

LEMMA ServicesKnown ==
  ASSUME Inv, NEW m \in Moments, NEW k, Comparable(k)
  PROVE  SameAt(ServiceSnapshots(m), TrueServices(m), k)
<1> DEFINE seen(s) == Keyed(s, {e \in given[m].endpoints : e.service = s})
           real(s) == Keyed(s, {e \in truth[m].endpoints : e.service = s})
<1>1. /\ given[m].endpoints = {e \in truth[m].endpoints : e.service \in Available(m)}
      /\ given[m].services = Available(m)
  BY GivenFacts DEF Inv
<1>2. k \in given[m].services <=> k \in truth[m].services
  BY <1>1 DEF Available, Comparable, KnownService
<1>3. k \in given[m].services => seen(k) = real(k)
  <2>1. ASSUME k \in Available(m)
        PROVE  {e \in given[m].endpoints : e.service = k} = {e \in truth[m].endpoints : e.service = k}
    BY <1>1, <2>1
  <2>2. QED
    BY <1>1, <2>1
<1>4. \A s : seen(s).key = s /\ real(s).key = s
  BY KeyedMeans
<1>5. /\ \A y : y \in ServiceSnapshots(m) <=>
                  \E s : s \in given[m].services /\ Comparable(s) /\ y = seen(s)
      /\ \A y : y \in TrueServices(m) <=> \E s : s \in truth[m].services /\ y = real(s)
  BY ServicesMeans, Zenon
<1> HIDE DEF seen, real
<1>6. \A y : y \in ServiceSnapshots(m) /\ y.key = k => y \in TrueServices(m)
  BY <1>2, <1>3, <1>4, <1>5
<1>7. \A y : y \in TrueServices(m) /\ y.key = k => y \in ServiceSnapshots(m)
  BY <1>2, <1>3, <1>4, <1>5
<1>8. QED
  BY <1>6, <1>7 DEF SameAt

LEMMA ServicesOnce ==
  ASSUME NEW m
  PROVE  AmbiguousKeys(ServiceSnapshots(m)) = {}
<1> DEFINE seen(s) == Keyed(s, {e \in given[m].endpoints : e.service = s})
<1>1. \A s : seen(s).key = s
  BY KeyedMeans
<1>2. \A y : y \in ServiceSnapshots(m) <=>
               \E s : s \in given[m].services /\ Comparable(s) /\ y = seen(s)
  BY ServicesMeans, Zenon
<1> HIDE DEF seen
<1>3. \A y, z : y \in ServiceSnapshots(m) /\ z \in ServiceSnapshots(m) /\ y.key = z.key => y = z
  BY <1>1, <1>2
<1>4. QED
  BY <1>3 DEF AmbiguousKeys

LEMMA ServicesComparable ==
  ASSUME NEW m, NEW k \in Keys(ServiceSnapshots(m))
  PROVE  Comparable(k)
BY KeyedMeans DEF Keys, ServiceSnapshots

(* The endpoints of a key are all of services that are at hand.             *)
Visible(k) ==
  \A m \in Moments : \A e \in truth[m].endpoints : e.id = k => Comparable(e.service)

RealmsKnown(m) ==
  \A e \in given[m].endpoints :
    RealmIn(given[m].bindings, e) = RealmIn(truth[m].bindings, e)

EndpointSnapshot(bindings, e) ==
  Keyed(e.id, [contract |-> e.contract, realm |-> RealmIn(bindings, e)])

LEMMA EndpointsMeans ==
  ASSUME NEW m
  PROVE  /\ \A y : y \in EndpointSnapshots(m) <=>
                     \E e : /\ e \in given[m].endpoints /\ Comparable(e.service)
                            /\ y = EndpointSnapshot(given[m].bindings, e)
         /\ \A y : y \in TrueEndpoints(m) <=>
                     \E e : /\ e \in truth[m].endpoints
                            /\ y = EndpointSnapshot(truth[m].bindings, e)
         /\ \A bindings, e : EndpointSnapshot(bindings, e).key = e.id
<1>1. /\ \A y : y \in EndpointSnapshots(m) <=>
                  \E e : /\ e \in given[m].endpoints /\ Comparable(e.service)
                         /\ y = EndpointSnapshot(given[m].bindings, e)
      /\ \A y : y \in TrueEndpoints(m) <=>
                  \E e : /\ e \in truth[m].endpoints
                         /\ y = EndpointSnapshot(truth[m].bindings, e)
  BY DEF EndpointSnapshots, TrueEndpoints, EndpointSnapshot
<1>2. \A bindings, e : EndpointSnapshot(bindings, e).key = e.id
  BY KeyedMeans DEF EndpointSnapshot
<1>3. QED
  BY <1>1, <1>2

LEMMA EndpointsKnown ==
  ASSUME Inv, NEW m \in Moments, RealmsKnown(m), NEW k, Visible(k)
  PROVE  SameAt(EndpointSnapshots(m), TrueEndpoints(m), k)
<1>1. given[m].endpoints = {e \in truth[m].endpoints : e.service \in Available(m)}
  BY GivenFacts DEF Inv
<1>2. \A e \in truth[m].endpoints : e.service \in truth[m].services
  BY TruthsAssumption DEF Inv, Observed
<1>3. \A e \in truth[m].endpoints : e.id = k =>
        Comparable(e.service) /\ e \in given[m].endpoints
  BY <1>1, <1>2 DEF Visible, Available, Comparable, KnownService
<1>4. \A e \in given[m].endpoints :
        /\ e \in truth[m].endpoints
        /\ EndpointSnapshot(given[m].bindings, e) = EndpointSnapshot(truth[m].bindings, e)
  BY <1>1 DEF RealmsKnown, EndpointSnapshot
<1>5. \A y : y \in EndpointSnapshots(m) /\ y.key = k => y \in TrueEndpoints(m)
  BY <1>4, EndpointsMeans
<1>6. \A y : y \in TrueEndpoints(m) /\ y.key = k => y \in EndpointSnapshots(m)
  <2>1. SUFFICES ASSUME NEW y \in TrueEndpoints(m), y.key = k PROVE y \in EndpointSnapshots(m)
    OBVIOUS
  <2>2. PICK e : e \in truth[m].endpoints /\ y = EndpointSnapshot(truth[m].bindings, e)
    BY EndpointsMeans
  <2>3. e.id = k
    BY <2>1, <2>2, EndpointsMeans
  <2>4. /\ Comparable(e.service) /\ e \in given[m].endpoints
        /\ y = EndpointSnapshot(given[m].bindings, e)
    BY <1>3, <1>4, <2>2, <2>3
  <2>5. QED
    BY <2>4, EndpointsMeans
<1>7. QED
  BY <1>5, <1>6 DEF SameAt

LEMMA EndpointsOnce ==
  ASSUME Inv, NEW m \in Moments
  PROVE  AmbiguousKeys(EndpointSnapshots(m)) = {}
<1>1. \A e, f \in given[m].endpoints : e.id = f.id => e = f
  <2>1. \A e \in given[m].endpoints : e \in truth[m].endpoints
    BY GivenFacts DEF Inv
  <2>2. QED
    BY <2>1, TruthsAssumption DEF Inv, Observed
<1>2. \A y, z : y \in EndpointSnapshots(m) /\ z \in EndpointSnapshots(m) /\ y.key = z.key => y = z
  BY <1>1, EndpointsMeans
<1>3. QED
  BY <1>2 DEF AmbiguousKeys

LEMMA EndpointsVisible ==
  ASSUME Inv, NEW m \in Moments, NEW k \in Keys(EndpointSnapshots(m))
  PROVE  Visible(k)
<1>1. PICK e : e \in given[m].endpoints /\ Comparable(e.service) /\ e.id = k
  <2>1. PICK y : y \in EndpointSnapshots(m) /\ y.key = k
    BY DEF Keys
  <2>2. QED
    BY <2>1, EndpointsMeans
<1>2. e \in truth[m].endpoints
  BY <1>1, GivenFacts DEF Inv
<1>3. \A n \in Moments : \A f \in truth[n].endpoints : e.id = f.id => e.service = f.service
  BY <1>2, TruthsAssumption DEF Inv, Observed
<1>4. QED
  BY <1>1, <1>3 DEF Visible

(* What an endpoint is bound by does not depend on other services.           *)
LEMMA RealmDepends ==
  ASSUME NEW A, NEW B, NEW e, \A b : BindingMatches(b, e) => (b \in A <=> b \in B),
         \A a, b \in A : BindingMatches(a, e) /\ BindingMatches(b, e) => a = b
  PROVE  RealmIn(A, e) = RealmIn(B, e)
<1>1. CASE \E b \in A : BindingMatches(b, e)
  <2>1. PICK b \in A : BindingMatches(b, e)
    BY <1>1
  <2>2. b \in B
    BY <2>1
  <2>3. \A a : a \in B /\ BindingMatches(a, e) => a = b
    BY <2>1
  <2>4. (CHOOSE a \in A : BindingMatches(a, e)) = b
    BY <2>1
  <2>5. (CHOOSE a \in B : BindingMatches(a, e)) = b
    BY <2>1, <2>2, <2>3
  <2>6. QED
    BY <2>1, <2>2, <2>4, <2>5 DEF RealmIn
<1>2. CASE ~ \E b \in A : BindingMatches(b, e)
  BY <1>2 DEF RealmIn
<1>3. QED
  BY <1>1, <1>2

LEMMA RealmsSame ==
  ASSUME Inv, NEW m \in Moments, outcome[m] \in {"stitched", "absent"}, Agrees(m),
         sight[m].manifest \/ sight[m].stitched \/ truth[m].bindings = {}
  PROVE  RealmsKnown(m)
<1>1. /\ given[m].endpoints = {e \in truth[m].endpoints : e.service \in Available(m)}
      /\ given[m].services = Available(m) /\ given[m] = GivenAt(m)
  BY GivenFacts DEF Inv
<1>2. CASE sight[m].manifest
  BY <1>2 DEF Agrees, TopologyKnown, ManifestBindings, RealmsKnown
<1>3. CASE truth[m].bindings = {}
  <2>1. given[m].bindings = {}
    BY <1>1, <1>3 DEF GivenAt, OfServices
  <2>2. QED
    BY <1>3, <2>1 DEF RealmsKnown
<1>4. CASE sight[m].stitched
  <2>1. given[m].bindings = {b \in truth[m].bindings : b.service \in Available(m)}
    BY <1>1, <1>4 DEF GivenAt, OfServices
  <2>2. ASSUME NEW e \in given[m].endpoints
        PROVE  RealmIn(given[m].bindings, e) = RealmIn(truth[m].bindings, e)
    <3>1. e.service \in Available(m) /\ given[m].services # {}
      BY <1>1
    <3>2. ~InputRefused(given[m])
      BY <3>1 DEF Inv, StitchInv, Settled
    <3>3. \A a, b \in given[m].bindings : BindingMatches(a, e) /\ BindingMatches(b, e) => a = b
      BY <3>2 DEF InputRefused
    <3>4. \A b : BindingMatches(b, e) => (b \in given[m].bindings <=> b \in truth[m].bindings)
      BY <2>1, <3>1 DEF BindingMatches
    <3>5. QED
      BY <3>3, <3>4, RealmDepends
  <2>3. QED
    BY <2>2 DEF RealmsKnown
<1>5. QED
  BY <1>2, <1>3, <1>4

(* With both topologies and all services, all correlations are known.        *)
LEMMA CorrelationsKnown ==
  ASSUME Inv, CorrelationsComparable, NEW m \in Moments,
         outcome[m] \in {"stitched", "absent"}, Agrees(m)
  PROVE  correlations[m] = Stitched(OfServices(m, truth[m].services))
<1> DEFINE all == OfServices(m, truth[m].services)
<1>1. /\ given[m].endpoints = {e \in truth[m].endpoints : e.service \in Available(m)}
      /\ given[m].services = Available(m) /\ sight[m].manifest
      /\ Available(m) = truth[m].services
  BY GivenFacts
     DEF Inv, CorrelationsComparable, TopologyComparable, TopologyKnown, AllServicesKnown, Available
<1>2. /\ all.endpoints = given[m].endpoints
      /\ all.bindings = {b \in truth[m].bindings : b.service \in truth[m].services}
  BY <1>1 DEF OfServices
<1>3. \A e \in truth[m].endpoints : e.service \in truth[m].services
  BY TruthsAssumption DEF Inv, Observed
<1>4. CASE outcome[m] = "absent"
  <2>1. given[m].endpoints = {} /\ correlations[m] = {}
    BY <1>1, <1>4 DEF Inv, StitchInv, Settled
  <2>2. OfRole(all, "producer") = {} /\ OfRole(all, "consumer") = {}
    BY <1>2, <2>1 DEF OfRole
  <2>3. QED
    BY <2>1, <2>2 DEF Stitched
<1>5. CASE outcome[m] = "stitched"
  <2>1. ~InputRefused(given[m]) /\ correlations[m] = Stitched(given[m])
    BY <1>5 DEF Inv, StitchInv, Settled
  <2>2. ASSUME NEW e \in given[m].endpoints
        PROVE  RealmOf(given[m], e) = RealmOf(all, e)
    <3>1. CASE sight[m].stitched
      <4>1. given[m] = all
        BY <1>1, <3>1, GivenFacts DEF Inv, GivenAt
      <4>2. QED
        BY <4>1
    <3>2. CASE ~sight[m].stitched
      <4>1. given[m].bindings = {}
        BY <3>2, GivenFacts DEF Inv, GivenAt, OfServices
      <4>2. RealmOf(given[m], e) = Null
        BY <4>1 DEF RealmOf, RealmIn
      <4>3. RealmIn(truth[m].bindings, e) = Null
        BY <1>1, <4>2 DEF Agrees, TopologyKnown, ManifestBindings, RealmOf
      <4>4. \A b \in truth[m].bindings : b.realm # Null
        BY TruthsAssumption DEF Inv, Observed
      <4>5. ~ \E b \in truth[m].bindings : BindingMatches(b, e)
        BY <4>3, <4>4 DEF RealmIn
      <4>6. ~ \E b \in all.bindings : BindingMatches(b, e)
        BY <1>2, <4>5
      <4>7. RealmOf(all, e) = Null
        BY <4>6 DEF RealmOf, RealmIn
      <4>8. QED
        BY <4>2, <4>7
    <3>3. QED
      BY <3>1, <3>2
  <2> HIDE DEF all
  <2>3. Stitched(given[m]) = Stitched(all)
    BY <1>2, <2>2, SameRealms
  <2>4. QED
    BY <2>1, <2>3 DEF all
<1>6. QED
  BY <1>4, <1>5

(* A document to compare has the correlations of all services.               *)
LEMMA CorrelationsMean ==
  ASSUME NEW m
  PROVE  TrueCorrelations(m) =
           {CorrelationSnapshot(x) : x \in Stitched(OfServices(m, truth[m].services))}
<1> DEFINE all == OfServices(m, truth[m].services)
<1>1. OfRole(all, "producer") = {e \in all.endpoints : e.role = "producer"}
  BY DEF OfRole
<1>2. Consumed(all, OfRole(all, "producer"))
        = UNION {ConsumedBy(all, p) : p \in OfRole(all, "producer")}
  BY DEF Consumed
<1> HIDE DEF all
<1>3. QED
  BY <1>1, <1>2 DEF TrueCorrelations, Stitched, all

(* The endpoints of a system have different identifiers, and so have its      *)
(* correlations.                                                            *)
LEMMA CorrelationsOnce ==
  ASSUME Inv, NEW m \in Moments, correlations[m] = Stitched(OfServices(m, truth[m].services))
  PROVE  AmbiguousKeys(CorrelationSnapshots(m)) = {}
<1> DEFINE all == OfServices(m, truth[m].services)
<1>1. /\ InputOK(all)
      /\ \A e, f \in all.endpoints : e.id = f.id => e = f
  <2>1. /\ all.endpoints = {e \in truth[m].endpoints : e.service \in truth[m].services}
        /\ all.endpoints \subseteq truth[m].endpoints
    BY DEF OfServices
  <2>2. /\ IsFiniteSet(truth[m].endpoints) /\ Null \notin truth[m].endpoints
        /\ \A e \in truth[m].endpoints : e.role \in {"producer", "consumer"}
        /\ \A e, f \in truth[m].endpoints : e.id = f.id => e = f
    BY TruthsAssumption DEF Inv, Observed
  <2> HIDE DEF all
  <2>3. IsFiniteSet(all.endpoints)
    BY <2>1, <2>2, FinitePart
  <2>4. QED
    BY <2>1, <2>2, <2>3 DEF InputOK
<1> HIDE DEF all
<1>2. ASSUME NEW x \in Stitched(all)
      PROVE  \/ \E p \in OfRole(all, "producer") :
                  /\ x = CorrelationOf(all, p) /\ p # Null
                  /\ CorrelationSnapshot(x).key = <<"producer", p.id>>
             \/ \E c \in OfRole(all, "consumer") :
                  /\ x = ConsumerAlone(all, c)
                  /\ CorrelationSnapshot(x).key = <<"consumers", {c.id}>>
  <2>1. CASE \E p \in OfRole(all, "producer") : x = CorrelationOf(all, p)
    <3>1. PICK p \in OfRole(all, "producer") : x = CorrelationOf(all, p)
      BY <2>1
    <3>2. x.producer = p
      BY <1>1, <3>1, CorrelationFacts
    <3>3. p # Null
      BY <1>1 DEF InputOK, OfRole
    <3>4. CorrelationSnapshot(x).key = <<"producer", p.id>>
      BY <3>2, <3>3, KeyedMeans DEF CorrelationSnapshot
    <3>5. QED
      BY <3>1, <3>3, <3>4
  <2>2. CASE \E c \in OfRole(all, "consumer") : x = ConsumerAlone(all, c)
    <3>1. PICK c \in OfRole(all, "consumer") : x = ConsumerAlone(all, c)
      BY <2>2
    <3>2. x.producer = Null /\ x.consumers = {c}
      BY <3>1 DEF ConsumerAlone, Correlation
    <3>3. {d.id : d \in x.consumers} = {c.id}
      BY <3>2
    <3>4. CorrelationSnapshot(x).key = <<"consumers", {c.id}>>
      BY <3>2, <3>3, KeyedMeans DEF CorrelationSnapshot
    <3>5. QED
      BY <3>1, <3>4
  <2>3. QED
    BY <2>1, <2>2 DEF Stitched
<1>3. \A e \in OfRole(all, "producer") \cup OfRole(all, "consumer") : e \in all.endpoints
  BY DEF OfRole
<1>4. ASSUME NEW x \in Stitched(all), NEW y \in Stitched(all),
             CorrelationSnapshot(x).key = CorrelationSnapshot(y).key
      PROVE  x = y
  <2>1. CASE \E p \in OfRole(all, "producer") :
               x = CorrelationOf(all, p) /\ CorrelationSnapshot(x).key = <<"producer", p.id>>
    <3>1. PICK p \in OfRole(all, "producer") :
            x = CorrelationOf(all, p) /\ CorrelationSnapshot(x).key = <<"producer", p.id>>
      BY <2>1
    <3>2. PICK q \in OfRole(all, "producer") :
            y = CorrelationOf(all, q) /\ CorrelationSnapshot(y).key = <<"producer", q.id>>
      BY <1>2, <1>4, <3>1
    <3>3. p.id = q.id
      BY <1>4, <3>1, <3>2
    <3>4. QED
      BY <1>1, <1>3, <3>1, <3>2, <3>3
  <2>2. CASE \E c \in OfRole(all, "consumer") :
               x = ConsumerAlone(all, c) /\ CorrelationSnapshot(x).key = <<"consumers", {c.id}>>
    <3>1. PICK c \in OfRole(all, "consumer") :
            x = ConsumerAlone(all, c) /\ CorrelationSnapshot(x).key = <<"consumers", {c.id}>>
      BY <2>2
    <3>2. PICK d \in OfRole(all, "consumer") :
            y = ConsumerAlone(all, d) /\ CorrelationSnapshot(y).key = <<"consumers", {d.id}>>
      BY <1>2, <1>4, <3>1
    <3>3. c.id = d.id
      <4>1. {c.id} = {d.id}
        BY <1>4, <3>1, <3>2
      <4>2. QED
        BY <4>1
    <3>4. QED
      BY <1>1, <1>3, <3>1, <3>2, <3>3
  <2>3. QED
    BY <1>2, <2>1, <2>2
<1>5. \A y : y \in CorrelationSnapshots(m) <=> \E x \in Stitched(all) : y = CorrelationSnapshot(x)
  BY DEF CorrelationSnapshots, all
<1>6. \A y, z : y \in CorrelationSnapshots(m) /\ z \in CorrelationSnapshots(m) /\ y.key = z.key => y = z
  BY <1>4, <1>5
<1>7. QED
  BY <1>6 DEF AmbiguousKeys

-----------------------------------------------------------------------------
(* What a report says.                                                      *)

LEMMA ReportMeans ==
  ASSUME Inv, Compared
  PROVE  /\ \A m \in Moments : outcome[m] \in {"stitched", "absent"} /\ Agrees(m)
         /\ report.services = Changes(ServiceSnapshots("before"), ServiceSnapshots("after"))
         /\ report.endpoints = Changes(EndpointSnapshots("before"), EndpointSnapshots("after"))
         /\ report.bindings = BindingChanges
         /\ report.correlations = CorrelationChanges
         /\ report.unknown = Uncertainties
<1>1. report \notin {NoReport, Rejected}
  BY DEF Compared, NoReport, Rejected
<1>2. /\ \A m \in Moments : outcome[m] \in {"stitched", "absent"} /\ Agrees(m)
      /\ report = TheReport
  BY <1>1 DEF Inv, Reported
<1>3. QED
  BY <1>2 DEF TheReport

LEMMA BindingsKnown ==
  ASSUME TopologyComparable, NEW m \in Moments
  PROVE  BindingSnapshots(m) = TrueBindings(m)
BY DEF TopologyComparable, TopologyKnown, BindingSnapshots, TrueBindings, ManifestBindings

LEMMA CorrelationsAreTrue ==
  ASSUME Inv, Compared, CorrelationsComparable, NEW m \in Moments
  PROVE  /\ CorrelationSnapshots(m) = TrueCorrelations(m)
         /\ AmbiguousKeys(CorrelationSnapshots(m)) = {}
<1>1. correlations[m] = Stitched(OfServices(m, truth[m].services))
  BY ReportMeans, CorrelationsKnown
<1>2. AmbiguousKeys(CorrelationSnapshots(m)) = {}
  BY <1>1, CorrelationsOnce
<1>3. QED
  BY <1>1, <1>2, CorrelationsMean DEF CorrelationSnapshots

LEMMA SameEverywhere == \A s, k : SameAt(s, s, k)
BY DEF SameAt

(* What is unavailable is unknown, not absent: whatever is missing, a change *)
(* in the report is a change of the systems, if their topology was there    *)
(* when they were stitched.                                                 *)
THEOREM OnlyRealChanges == ComparisonSpec => []ChangesAreReal
<1>1. ASSUME Inv, RealmsKept, Compared
      PROVE  /\ report.services     \subseteq DifferencesOf(TrueServices)
             /\ report.endpoints    \subseteq DifferencesOf(TrueEndpoints)
             /\ report.bindings     \subseteq DifferencesOf(TrueBindings)
             /\ report.correlations \subseteq DifferencesOf(TrueCorrelations)
  <2>1. "before" \in Moments /\ "after" \in Moments
    BY DEF Moments
  <2>2. report.services \subseteq Differences(TrueServices("before"), TrueServices("after"))
    <3>1. \A k \in Keys(ServiceSnapshots("before")) \cup Keys(ServiceSnapshots("after")) :
            /\ SameAt(ServiceSnapshots("before"), TrueServices("before"), k)
            /\ SameAt(ServiceSnapshots("after"), TrueServices("after"), k)
      BY <1>1, <2>1, ServicesComparable, ServicesKnown
    <3>2. QED
      BY <1>1, <3>1, ReportMeans, ChangesAreDifferences
  <2>3. report.endpoints \subseteq Differences(TrueEndpoints("before"), TrueEndpoints("after"))
    <3>1. RealmsKnown("before") /\ RealmsKnown("after")
      BY <1>1, <2>1, ReportMeans, RealmsSame DEF RealmsKept
    <3>2. \A k \in Keys(EndpointSnapshots("before")) \cup Keys(EndpointSnapshots("after")) :
            /\ SameAt(EndpointSnapshots("before"), TrueEndpoints("before"), k)
            /\ SameAt(EndpointSnapshots("after"), TrueEndpoints("after"), k)
      BY <1>1, <2>1, <3>1, EndpointsVisible, EndpointsKnown
    <3>3. QED
      BY <1>1, <3>2, ReportMeans, ChangesAreDifferences
  <2>4. report.bindings \subseteq Differences(TrueBindings("before"), TrueBindings("after"))
    <3>1. CASE TopologyComparable
      <4>1. /\ BindingSnapshots("before") = TrueBindings("before")
            /\ BindingSnapshots("after") = TrueBindings("after")
        BY <2>1, <3>1, BindingsKnown
      <4>2. report.bindings = Changes(TrueBindings("before"), TrueBindings("after"))
        BY <1>1, <3>1, <4>1, ReportMeans DEF BindingChanges
      <4>3. QED
        BY <4>2, SameEverywhere, ChangesAreDifferences
    <3>2. CASE ~TopologyComparable
      BY <1>1, <3>2, ReportMeans DEF BindingChanges
    <3>3. QED
      BY <3>1, <3>2
  <2>5. report.correlations \subseteq Differences(TrueCorrelations("before"), TrueCorrelations("after"))
    <3>1. CASE CorrelationsComparable
      <4>1. /\ CorrelationSnapshots("before") = TrueCorrelations("before")
            /\ CorrelationSnapshots("after") = TrueCorrelations("after")
        BY <1>1, <2>1, <3>1, CorrelationsAreTrue
      <4>2. report.correlations = Changes(TrueCorrelations("before"), TrueCorrelations("after"))
        BY <1>1, <3>1, <4>1, ReportMeans DEF CorrelationChanges
      <4>3. QED
        BY <4>2, SameEverywhere, ChangesAreDifferences
    <3>2. CASE ~CorrelationsComparable
      BY <1>1, <3>2, ReportMeans DEF CorrelationChanges
    <3>3. QED
      BY <3>1, <3>2
  <2>6. QED
    BY <2>2, <2>3, <2>4, <2>5 DEF DifferencesOf
<1>2. Inv => ChangesAreReal
  BY <1>1 DEF ChangesAreReal, ReportedIsReal
<1>3. QED
  BY <1>2, Invariance, PTL

(* What an uncertainty is listed for.                                        *)
LEMMA UncertaintiesMean ==
  /\ \A s : ~Comparable(s) => <<"service", s>> \in Uncertainties
  /\ ~TopologyComparable => <<"topology">> \in Uncertainties
  /\ ~CorrelationsComparable => <<"correlations">> \in Uncertainties
  /\ TopologyComparable =>
       \A m \in Moments : \A k \in AmbiguousKeys(BindingSnapshots(m)) :
         <<"ambiguous", k>> \in Uncertainties
<1>1. \A s : ~Comparable(s) => <<"service", s>> \in Uncertainties
  BY DEF Uncertainties, Comparable, KnownService
<1>2. /\ ~TopologyComparable => <<"topology">> \in Uncertainties
      /\ ~CorrelationsComparable => <<"correlations">> \in Uncertainties
  BY DEF Uncertainties
<1>3. TopologyComparable =>
       \A m \in Moments : \A k \in AmbiguousKeys(BindingSnapshots(m)) :
         <<"ambiguous", k>> \in Uncertainties
  BY DEF Uncertainties
<1>4. QED
  BY <1>1, <1>2, <1>3

LEMMA ServicesCovered ==
  ASSUME Inv, Compared,
         NEW c \in Differences(TrueServices("before"), TrueServices("after")),
         c \notin report.services
  PROVE  <<"service", c.key>> \in report.unknown
<1>1. ~Comparable(c.key)
  <2>1. SUFFICES ASSUME Comparable(c.key) PROVE FALSE
    OBVIOUS
  <2>2. "before" \in Moments /\ "after" \in Moments
    BY DEF Moments
  <2>3. /\ SameAt(ServiceSnapshots("before"), TrueServices("before"), c.key)
        /\ SameAt(ServiceSnapshots("after"), TrueServices("after"), c.key)
    BY <2>1, <2>2, ServicesKnown
  <2>4. c.key \notin AmbiguousKeys(ServiceSnapshots("before"))
                       \cup AmbiguousKeys(ServiceSnapshots("after"))
    BY ServicesOnce
  <2>5. c \in Changes(ServiceSnapshots("before"), ServiceSnapshots("after"))
    BY <2>3, <2>4, DifferencesAreChanges
  <2>6. QED
    BY <2>5, ReportMeans
<1>2. QED
  BY <1>1, UncertaintiesMean, ReportMeans

LEMMA EndpointsCovered ==
  ASSUME Inv, Compared, TopologyComparable,
         NEW c \in Differences(TrueEndpoints("before"), TrueEndpoints("after")),
         c \notin report.endpoints,
         NEW f \in truth["before"].endpoints \cup truth["after"].endpoints, f.id = c.key
  PROVE  <<"service", f.service>> \in report.unknown
<1>1. "before" \in Moments /\ "after" \in Moments
  BY DEF Moments
<1>2. ~Comparable(f.service)
  <2>1. SUFFICES ASSUME Comparable(f.service) PROVE FALSE
    OBVIOUS
  <2>2. \A n \in Moments : \A e \in truth[n].endpoints : e.id = c.key => e.service = f.service
    <3>1. PICK m \in Moments : f \in truth[m].endpoints
      BY <1>1
    <3>2. \A n \in Moments : \A e \in truth[n].endpoints : f.id = e.id => f.service = e.service
      BY <3>1, TruthsAssumption DEF Inv, Observed
    <3>3. QED
      BY <3>2
  <2>3. Visible(c.key)
    BY <2>1, <2>2 DEF Visible
  <2>4. RealmsKnown("before") /\ RealmsKnown("after")
    BY <1>1, ReportMeans, RealmsSame DEF TopologyComparable, TopologyKnown
  <2>5. /\ SameAt(EndpointSnapshots("before"), TrueEndpoints("before"), c.key)
        /\ SameAt(EndpointSnapshots("after"), TrueEndpoints("after"), c.key)
    BY <1>1, <2>3, <2>4, EndpointsKnown
  <2>6. c.key \notin AmbiguousKeys(EndpointSnapshots("before"))
                       \cup AmbiguousKeys(EndpointSnapshots("after"))
    BY <1>1, EndpointsOnce
  <2>7. c \in Changes(EndpointSnapshots("before"), EndpointSnapshots("after"))
    BY <2>5, <2>6, DifferencesAreChanges
  <2>8. QED
    BY <2>7, ReportMeans
<1>3. QED
  BY <1>2, UncertaintiesMean, ReportMeans

LEMMA BindingsCovered ==
  ASSUME Inv, Compared, TopologyComparable,
         NEW c \in Differences(TrueBindings("before"), TrueBindings("after")),
         c \notin report.bindings
  PROVE  <<"ambiguous", c.key>> \in report.unknown
<1>1. "before" \in Moments /\ "after" \in Moments
  BY DEF Moments
<1>2. /\ BindingSnapshots("before") = TrueBindings("before")
      /\ BindingSnapshots("after") = TrueBindings("after")
  BY <1>1, BindingsKnown
<1>3. report.bindings = Changes(BindingSnapshots("before"), BindingSnapshots("after"))
  BY ReportMeans DEF BindingChanges
<1>4. c.key \in AmbiguousKeys(BindingSnapshots("before")) \cup AmbiguousKeys(BindingSnapshots("after"))
  BY <1>2, <1>3, SameEverywhere, DifferencesAreChanges
<1>5. QED
  BY <1>1, <1>4, UncertaintiesMean, ReportMeans

LEMMA CorrelationsCovered ==
  ASSUME Inv, Compared,
         NEW c \in Differences(TrueCorrelations("before"), TrueCorrelations("after")),
         c \notin report.correlations
  PROVE  <<"correlations">> \in report.unknown
<1>1. "before" \in Moments /\ "after" \in Moments
  BY DEF Moments
<1>2. ~CorrelationsComparable
  <2>1. SUFFICES ASSUME CorrelationsComparable PROVE FALSE
    OBVIOUS
  <2>2. /\ CorrelationSnapshots("before") = TrueCorrelations("before")
        /\ CorrelationSnapshots("after") = TrueCorrelations("after")
        /\ AmbiguousKeys(TrueCorrelations("before")) = {}
        /\ AmbiguousKeys(TrueCorrelations("after")) = {}
    BY <1>1, <2>1, CorrelationsAreTrue
  <2>3. report.correlations = Changes(TrueCorrelations("before"), TrueCorrelations("after"))
    BY <2>1, <2>2, ReportMeans DEF CorrelationChanges
  <2>4. QED
    BY <2>2, <2>3, SameEverywhere, DifferencesAreChanges
<1>3. QED
  BY <1>2, UncertaintiesMean, ReportMeans

(* Whatever is missing, what has changed and is not reported is covered by   *)
(* an uncertainty that the report lists.                                    *)
THEOREM AllCovered == ComparisonSpec => []NothingWithheldSilently
<1>1. ASSUME Inv, Compared,
             NEW c \in Differences(TrueEndpoints("before"), TrueEndpoints("after")),
             c \notin report.endpoints
      PROVE  \/ <<"service", (CHOOSE e \in truth["before"].endpoints \cup truth["after"].endpoints :
                                e.id = c.key).service>> \in report.unknown
             \/ <<"topology">> \in report.unknown
  <2> DEFINE f == CHOOSE e \in truth["before"].endpoints \cup truth["after"].endpoints : e.id = c.key
  <2>1. \E e \in truth["before"].endpoints \cup truth["after"].endpoints : e.id = c.key
    <3>1. c.key \in Keys(TrueEndpoints("before")) \cup Keys(TrueEndpoints("after"))
      BY <1>1, DifferenceKey
    <3>2. PICK y \in TrueEndpoints("before") \cup TrueEndpoints("after") : y.key = c.key
      BY <3>1 DEF Keys
    <3>3. QED
      BY <3>2, EndpointsMeans
  <2>2. f \in truth["before"].endpoints \cup truth["after"].endpoints /\ f.id = c.key
    BY <2>1
  <2> HIDE DEF f
  <2>3. CASE TopologyComparable
    <3>1. <<"service", f.service>> \in report.unknown
      BY <1>1, <2>2, <2>3, EndpointsCovered
    <3>2. QED
      BY <3>1 DEF f
  <2>4. CASE ~TopologyComparable
    BY <1>1, <2>4, UncertaintiesMean, ReportMeans
  <2>5. QED
    BY <2>3, <2>4
<1>2. ASSUME Inv, Compared,
             NEW c \in Differences(TrueBindings("before"), TrueBindings("after")),
             c \notin report.bindings
      PROVE  <<"ambiguous", c.key>> \in report.unknown \/ <<"topology">> \in report.unknown
  <2>1. CASE TopologyComparable
    BY <1>2, <2>1, BindingsCovered
  <2>2. CASE ~TopologyComparable
    BY <1>2, <2>2, UncertaintiesMean, ReportMeans
  <2>3. QED
    BY <2>1, <2>2
<1>3. Inv => NothingWithheldSilently
  <2>1. SUFFICES ASSUME Inv, Compared PROVE NothingWithheldSilently
    BY DEF NothingWithheldSilently
  <2>2. \A c \in Differences(TrueServices("before"), TrueServices("after")) :
          c \notin report.services => <<"service", c.key>> \in report.unknown
    BY <2>1, ServicesCovered
  <2>3. \A c \in Differences(TrueCorrelations("before"), TrueCorrelations("after")) :
          c \notin report.correlations => <<"correlations">> \in report.unknown
    BY <2>1, CorrelationsCovered
  <2>4. QED
    BY <1>1, <1>2, <2>1, <2>2, <2>3 DEF NothingWithheldSilently, DifferencesOf
<1>4. QED
  BY <1>3, Invariance, PTL

-----------------------------------------------------------------------------
(* Induction over the natural numbers, as a fact about sets, and what it    *)
(* says of values that are computed one after the other.                    *)

LEMMA NatSetInduction ==
  ASSUME NEW T, 0 \in T, \A n \in Nat : n \in T => n + 1 \in T
  PROVE  Nat \subseteq T
<1>1. SUFFICES ASSUME NEW m \in Nat, m \notin T
               PROVE  FALSE
  OBVIOUS
<1> DEFINE Below == {0..k : k \in Nat \ T}
<1>2. Below \subseteq FiniteSubsetsOf(Nat)
  <2>1. \A k \in Nat : 0..k \in SUBSET Nat /\ IsFiniteSet(0..k)
    BY FS_Interval
  <2>2. QED
    BY <2>1 DEF FiniteSubsetsOf
<1>3. Below # {}
  BY <1>1
<1>4. IsWellFoundedOn(StrictSubsetOrdering(Nat), FiniteSubsetsOf(Nat))
  BY FS_StrictSubsetOrderingWellFounded
<1> HIDE DEF Below
<1>5. PICK s \in Below : \A t \in Below : <<t, s>> \notin StrictSubsetOrdering(Nat)
  BY <1>2, <1>3, <1>4, WFMin
<1>6. PICK k \in Nat \ T : s = 0..k
  BY <1>5 DEF Below
<1>7. k # 0 /\ k - 1 \in Nat
  BY <1>6
<1>8. k - 1 \notin T
  BY <1>6, <1>7
<1>9. 0..(k - 1) \in Below
  BY <1>7, <1>8 DEF Below
<1>10. <<0..(k - 1), 0..k>> \in StrictSubsetOrdering(Nat)
  BY <1>7 DEF StrictSubsetOrdering
<1>11. QED
  BY <1>5, <1>6, <1>9, <1>10

LEMMA UpToInduction ==
  ASSUME NEW n \in Nat, NEW T, 0 \in T, \A m \in 0..(n - 1) : m \in T => m + 1 \in T
  PROVE  0..n \subseteq T
<1> DEFINE U == {m \in Nat : m <= n => m \in T}
<1>1. 0 \in U
  OBVIOUS
<1>2. \A m \in Nat : m \in U => m + 1 \in U
  OBVIOUS
<1>3. Nat \subseteq U
  <2> HIDE DEF U
  <2>1. QED
    BY <1>1, <1>2, NatSetInduction
<1>4. QED
  BY <1>3

(* FoldLeft folds over sets of places, the last place first.                *)
StepsOn(n, V) == [1..n -> [V -> V]]
FoldsOn(n, V) == [SUBSET (1..n) -> V]

Folds(it, base, n, step) ==
  \A s \in SUBSET (1..n) :
    it[s] = IF s = {} THEN base ELSE step[Max(s)][it[s \ {Max(s)}]]

LEMMA FoldExists ==
  ASSUME NEW V, NEW base \in V, NEW n \in Nat, NEW step \in StepsOn(n, V)
  PROVE  \E it \in FoldsOn(n, V) : Folds(it, base, n, step)
<1>0. step \in [1..n -> [V -> V]]
  BY DEF StepsOn
<1> DEFINE Right(it, m) ==
             \A s \in SUBSET (1..m) :
               it[s] = IF s = {} THEN base ELSE step[Max(s)][it[s \ {Max(s)}]]
           Exists(m) == \E it \in [SUBSET (1..m) -> V] : Right(it, m)
           T == {m \in 0..n : Exists(m)}
<1>1. 0 \in T
  <2> DEFINE it == [s \in SUBSET (1..0) |-> base]
  <2>1. \A s \in SUBSET (1..0) : s = {}
    OBVIOUS
  <2>2. it \in [SUBSET (1..0) -> V] /\ Right(it, 0)
    BY <2>1
  <2> HIDE DEF it, Right
  <2>3. Exists(0)
    BY <2>2
  <2> HIDE DEF Exists
  <2>4. QED
    BY <2>3
<1>2. ASSUME NEW m \in 0..(n - 1), m \in T
      PROVE  m + 1 \in T
  <2>1. PICK it \in [SUBSET (1..m) -> V] : Right(it, m)
    BY <1>2
  <2> DEFINE k  == m + 1
             it2 == [s \in SUBSET (1..k) |->
                       IF k \in s THEN step[k][it[s \ {k}]] ELSE it[s]]
  <2>2. k \in 1..n /\ m \in Nat
    OBVIOUS
  <2>3. ASSUME NEW s \in SUBSET (1..k), k \in s
        PROVE  s \ {k} \in SUBSET (1..m) /\ Max(s) = k /\ k \notin s \ {k}
    <3>1. \A x \in s : x \in 1..k /\ k >= x
      BY <2>2
    <3>2. \A y \in s : (\A x \in s : y >= x) => y = k
      BY <2>2, <2>3, <3>1
    <3>3. Max(s) = k
      BY <2>3, <3>1, <3>2 DEF Max
    <3>4. QED
      BY <2>2, <3>1, <3>3
  <2>4. ASSUME NEW s \in SUBSET (1..k), k \notin s
        PROVE  s \in SUBSET (1..m)
    BY <2>2, <2>4
  <2>5. it2 \in [SUBSET (1..k) -> V]
    <3>1. ASSUME NEW s \in SUBSET (1..k)
          PROVE  (IF k \in s THEN step[k][it[s \ {k}]] ELSE it[s]) \in V
      BY <1>0, <2>2, <2>3, <2>4
    <3>2. QED
      BY <3>1
  <2>6. ASSUME NEW s \in SUBSET (1..k)
        PROVE  it2[s] = IF s = {} THEN base ELSE step[Max(s)][it2[s \ {Max(s)}]]
    <3>1. CASE k \in s
      <4>1. s \ {k} \in SUBSET (1..k) /\ it2[s \ {k}] = it[s \ {k}]
        BY <2>3, <3>1
      <4>2. it2[s] = step[k][it[s \ {k}]]
        BY <3>1
      <4>3. QED
        BY <2>3, <3>1, <4>1, <4>2
    <3>2. CASE k \notin s
      <4>1. s \in SUBSET (1..m) /\ s \ {Max(s)} \in SUBSET (1..k) /\ k \notin s \ {Max(s)}
        BY <2>4, <3>2
      <4>2. it2[s] = it[s] /\ it2[s \ {Max(s)}] = it[s \ {Max(s)}]
        BY <3>2, <4>1
      <4>3. QED
        BY <2>1, <4>1, <4>2
    <3>3. QED
      BY <3>1, <3>2
  <2> HIDE DEF it2
  <2>7. Right(it2, k)
    BY <2>6
  <2> HIDE DEF Right
  <2>8. \E f \in [SUBSET (1..k) -> V] : Right(f, k)
    BY <2>5, <2>7
  <2>9. QED
    BY <2>2, <2>8
<1>3. 0..n \subseteq T
  <2> HIDE DEF T
  <2>1. QED
    BY <1>1, <1>2, UpToInduction
<1>4. \E it \in [SUBSET (1..n) -> V] : Right(it, n)
  <2> HIDE DEF Right
  <2>1. n \in T
    <3> HIDE DEF T
    <3>1. QED
      BY <1>3
  <2>2. QED
    BY <2>1
<1>5. QED
  BY <1>4 DEF FoldsOn, Folds

LEMMA MaxOf ==
  ASSUME NEW n \in Nat, NEW t \in SUBSET (1..n), t # {}
  PROVE  Max(t) \in t /\ Max(t) \in 1..n /\ \A x \in t : Max(t) >= x
<1> DEFINE Bounded(m) == \A u \in SUBSET (1..m) : u # {} => \E x \in u : \A y \in u : x >= y
           T == {m \in 0..n : Bounded(m)}
<1>1. 0 \in T
  <2>1. Bounded(0)
    <3>1. ASSUME NEW u \in SUBSET (1..0), u # {} PROVE FALSE
      <4>1. \A x \in u : x \in 1..0
        OBVIOUS
      <4>2. \A x : x \notin 1..0
        OBVIOUS
      <4>3. QED
        BY <3>1, <4>1, <4>2
    <3>2. QED
      BY <3>1
  <2> HIDE DEF Bounded
  <2>2. QED
    BY <2>1
<1>2. ASSUME NEW m \in 0..(n - 1), m \in T
      PROVE  m + 1 \in T
  <2>1. ASSUME NEW u \in SUBSET (1..(m + 1)), u # {}
        PROVE  \E x \in u : \A y \in u : x >= y
    <3>1. CASE m + 1 \in u
      BY <3>1
    <3>2. CASE m + 1 \notin u
      <4>1. u \in SUBSET (1..m)
        BY <3>2
      <4>2. QED
        BY <1>2, <2>1, <4>1
    <3>3. QED
      BY <3>1, <3>2
  <2>2. QED
    BY <2>1
<1>3. n \in T
  <2> HIDE DEF T
  <2>1. QED
    BY <1>1, <1>2, UpToInduction
<1>4. \E x \in t : \A y \in t : x >= y
  BY <1>3
<1>5. QED
  BY <1>4 DEF Max

LEMMA MaxOfInterval ==
  ASSUME NEW m \in Nat \ {0}
  PROVE  Max(1..m) = m /\ (1..m) \ {m} = 1..(m - 1)
<1>1. m \in 1..m /\ \A x \in 1..m : m >= x
  OBVIOUS
<1>2. \A y \in 1..m : (\A x \in 1..m : y >= x) => y = m
  BY <1>1
<1>3. Max(1..m) = m
  BY <1>1, <1>2 DEF Max
<1>4. QED
  BY <1>3

-----------------------------------------------------------------------------
(* The folds of the search.                                                 *)

(* What FoldLeft computes with AddPath.                                     *)
AddTo(base, s) == FoldLeft(AddPath, base, s)

LEMMA AddToSteps ==
  ASSUME NEW V, NEW base \in V, NEW D, NEW s \in Seq(D),
         \A v \in V : \A x \in D : AddPath(v, x) \in V
  PROVE  \E f : /\ f[{}] = base /\ AddTo(base, s) = f[1..Len(s)]
                /\ \A m \in 1..Len(s) : f[1..m] = AddPath(f[1..(m - 1)], s[m])
<1> DEFINE n       == Len(s)
           Sets    == SUBSET (1..n)
           Rec(it) == [t \in Sets |->
                         IF t = {} THEN base
                         ELSE AddPath(it[t \ {Max(t)}], s[Max(t)])]
           f       == CHOOSE it : it = Rec(it)
           step    == [i \in 1..n |-> [v \in V |-> AddPath(v, s[i])]]
<1>1. n \in Nat /\ DOMAIN s = 1..n /\ \A i \in 1..n : s[i] \in D
  OBVIOUS
<1>2. AddTo(base, s) = f[1..n]
  BY <1>1 DEF AddTo, FoldLeft, MapThenFoldSet
<1>3. step \in StepsOn(n, V)
  BY <1>1 DEF StepsOn
<1>4. \A i \in 1..n : \A v \in V : step[i][v] = AddPath(v, s[i])
  OBVIOUS
<1> HIDE DEF step, n
<1>5. PICK it \in [Sets -> V] :
        \A t \in Sets : it[t] = IF t = {} THEN base ELSE step[Max(t)][it[t \ {Max(t)}]]
  <2>1. \E it \in FoldsOn(n, V) : Folds(it, base, n, step)
    BY <1>1, <1>3, FoldExists
  <2>2. QED
    BY <2>1 DEF FoldsOn, Folds
<1>6. it = Rec(it)
  <2>1. ASSUME NEW t \in Sets, t # {}
        PROVE  it[t] = AddPath(it[t \ {Max(t)}], s[Max(t)])
    <3>1. Max(t) \in 1..n /\ t \ {Max(t)} \in Sets
      BY <1>1, <2>1, MaxOf
    <3>2. it[t \ {Max(t)}] \in V
      BY <3>1
    <3>3. QED
      BY <1>4, <1>5, <2>1, <3>1, <3>2
  <2>2. \A t \in Sets : it[t] = Rec(it)[t]
    BY <1>5, <2>1
  <2>3. QED
    BY <2>2
<1>7. f = Rec(f)
  <2> HIDE DEF Rec
  <2>1. QED
    BY <1>6
<1> HIDE DEF f
<1>8. f[{}] = base
  <2>1. {} \in Sets
    OBVIOUS
  <2>2. f[{}] = Rec(f)[{}]
    BY <1>7
  <2>3. QED
    BY <2>1, <2>2
<1>9. ASSUME NEW m \in 1..n
      PROVE  f[1..m] = AddPath(f[1..(m - 1)], s[m])
  <2>1. m \in Nat \ {0} /\ m <= n
    BY <1>1
  <2>2. 1..m \in Sets /\ 1..m # {}
    <3>1. m \in 1..m /\ 1..m \subseteq 1..n
      BY <1>1, <2>1
    <3>2. QED
      BY <3>1
  <2>3. Max(1..m) = m /\ (1..m) \ {m} = 1..(m - 1)
    BY <2>1, MaxOfInterval
  <2>4. f[1..m] = Rec(f)[1..m]
    BY <1>7
  <2>5. QED
    BY <2>2, <2>3, <2>4
<1>10. QED
  BY <1>2, <1>8, <1>9 DEF n

LEMMA AppendedElements ==
  ASSUME NEW D, NEW s \in Seq(D), NEW e \in D
  PROVE  /\ Append(s, e) \in Seq(D)
         /\ \A x : x \in ToSet(Append(s, e)) <=> x \in ToSet(s) \/ x = e
<1>1. /\ Len(s) \in Nat /\ DOMAIN s = 1..Len(s)
      /\ Append(s, e) \in Seq(D) /\ DOMAIN Append(s, e) = 1..(Len(s) + 1)
      /\ Append(s, e)[Len(s) + 1] = e /\ \A i \in 1..Len(s) : Append(s, e)[i] = s[i]
  OBVIOUS
<1>2. 1..(Len(s) + 1) = (1..Len(s)) \cup {Len(s) + 1}
  BY <1>1
<1>3. QED
  BY <1>1, <1>2 DEF ToSet

(* Only keeps the elements that are in the set.                             *)
LEMMA OnlySome ==
  ASSUME NEW D, NEW s \in Seq(D), NEW S
  PROVE  /\ Only(s, S) \in Seq(D)
         /\ \A x : x \in ToSet(Only(s, S)) <=> x \in ToSet(s) /\ x \in S
<1> DEFINE n       == Len(s)
           V       == Seq(D)
           Sets    == SUBSET (1..n)
           Add(v, x) == IF x \in S THEN Append(v, x) ELSE v
           Rec(it) == [t \in Sets |->
                         IF t = {} THEN <<>> ELSE Add(it[t \ {Max(t)}], s[Max(t)])]
           f       == CHOOSE it : it = Rec(it)
           step    == [i \in 1..n |-> [v \in V |-> Add(v, s[i])]]
<1>1. n \in Nat /\ DOMAIN s = 1..n /\ \A i \in 1..n : s[i] \in D
  OBVIOUS
<1>2. Only(s, S) = f[1..n]
  BY <1>1 DEF Only, FoldLeft, MapThenFoldSet
<1>3. step \in StepsOn(n, V)
  BY <1>1 DEF StepsOn
<1>4. \A i \in 1..n : \A v \in V : step[i][v] = Add(v, s[i])
  OBVIOUS
<1> HIDE DEF step, n, Add, V
<1>5. PICK it \in [Sets -> V] :
        \A t \in Sets : it[t] = IF t = {} THEN <<>> ELSE step[Max(t)][it[t \ {Max(t)}]]
  <2>1. <<>> \in V
    BY DEF V
  <2>2. \E it \in FoldsOn(n, V) : Folds(it, <<>>, n, step)
    BY <1>1, <1>3, <2>1, FoldExists
  <2>3. QED
    BY <2>2 DEF FoldsOn, Folds
<1>6. it = Rec(it)
  <2>1. ASSUME NEW t \in Sets, t # {}
        PROVE  it[t] = Add(it[t \ {Max(t)}], s[Max(t)])
    <3>1. Max(t) \in 1..n /\ t \ {Max(t)} \in Sets
      BY <1>1, <2>1, MaxOf
    <3>2. it[t \ {Max(t)}] \in V
      BY <3>1
    <3>3. QED
      BY <1>4, <1>5, <2>1, <3>1, <3>2
  <2>2. \A t \in Sets : it[t] = Rec(it)[t]
    BY <1>5, <2>1
  <2>3. QED
    BY <2>2
<1>7. f = Rec(f)
  <2> HIDE DEF Rec
  <2>1. QED
    BY <1>6
<1> HIDE DEF f
<1>8. f[{}] = <<>>
  <2>1. {} \in Sets
    OBVIOUS
  <2>2. f[{}] = Rec(f)[{}]
    BY <1>7
  <2>3. QED
    BY <2>1, <2>2
<1>9. ASSUME NEW m \in 1..n
      PROVE  f[1..m] = Add(f[1..(m - 1)], s[m])
  <2>1. m \in Nat \ {0} /\ m <= n
    BY <1>1
  <2>2. 1..m \in Sets /\ 1..m # {}
    <3>1. m \in 1..m /\ 1..m \subseteq 1..n
      BY <1>1, <2>1
    <3>2. QED
      BY <3>1
  <2>3. Max(1..m) = m /\ (1..m) \ {m} = 1..(m - 1)
    BY <2>1, MaxOfInterval
  <2>4. f[1..m] = Rec(f)[1..m]
    BY <1>7
  <2>5. QED
    BY <2>2, <2>3, <2>4
<1> DEFINE Kept(m) == /\ f[1..m] \in Seq(D)
                      /\ \A x : x \in ToSet(f[1..m]) <=> x \in S /\ \E i \in 1..m : s[i] = x
           T == {m \in 0..n : Kept(m)}
<1>10. 0 \in T
  <2>1. 1..0 = {} /\ f[1..0] = <<>>
    BY <1>8
  <2>2. Kept(0)
    BY <2>1 DEF ToSet
  <2> HIDE DEF Kept
  <2>3. QED
    BY <1>1, <2>2
<1>11. ASSUME NEW m \in 0..(n - 1), m \in T
       PROVE  m + 1 \in T
  <2> DEFINE g == f[1..m]
             h == f[1..(m + 1)]
  <2>1. m + 1 \in 1..n /\ m \in Nat /\ (m + 1) - 1 = m
    BY <1>1
  <2>2. g \in Seq(D) /\ \A x : x \in ToSet(g) <=> x \in S /\ \E i \in 1..m : s[i] = x
    BY <1>11
  <2>3. h = Add(g, s[m + 1])
    BY <1>9, <2>1
  <2>4. s[m + 1] \in D
    BY <1>1, <2>1
  <2> HIDE DEF g, h
  <2>5. \A x : (\E i \in 1..(m + 1) : s[i] = x) <=> s[m + 1] = x \/ \E i \in 1..m : s[i] = x
    BY <2>1
  <2>6. CASE s[m + 1] \in S
    <3>1. h = Append(g, s[m + 1])
      BY <2>3, <2>6 DEF Add
    <3>2. h \in Seq(D) /\ \A x : x \in ToSet(h) <=> x \in ToSet(g) \/ x = s[m + 1]
      BY <2>2, <2>4, <3>1, AppendedElements
    <3>3. Kept(m + 1)
      BY <2>2, <2>5, <2>6, <3>2 DEF h
    <3> HIDE DEF Kept
    <3>4. QED
      BY <1>1, <2>1, <3>3
  <2>7. CASE s[m + 1] \notin S
    <3>1. h = g
      BY <2>3, <2>7 DEF Add
    <3>2. Kept(m + 1)
      BY <2>2, <2>5, <2>7, <3>1 DEF h
    <3> HIDE DEF Kept
    <3>3. QED
      BY <1>1, <2>1, <3>2
  <2>8. QED
    BY <2>6, <2>7
<1>12. n \in T
  <2> HIDE DEF T
  <2>1. 0..n \subseteq T
    BY <1>1, <1>10, <1>11, UpToInduction
  <2>2. QED
    BY <1>1, <2>1
<1>13. Kept(n)
  <2> HIDE DEF Kept
  <2>1. QED
    BY <1>12
<1>14. f[1..n] \in Seq(D) /\ \A x : x \in ToSet(f[1..n]) <=> x \in S /\ \E i \in 1..n : s[i] = x
  BY <1>13
<1>15. \A x : x \in ToSet(s) <=> \E i \in 1..n : s[i] = x
  BY <1>1 DEF ToSet
<1> HIDE DEF T, Kept
<1>16. QED
  BY <1>2, <1>14, <1>15

(* Two sequences, one after the other.                                      *)
LEMMA JoinedPlaces ==
  ASSUME NEW D, NEW s \in Seq(D), NEW t \in Seq(D)
  PROVE  /\ s \o t \in Seq(D) /\ Len(s \o t) = Len(s) + Len(t)
         /\ Len(s) \in Nat /\ Len(t) \in Nat /\ DOMAIN s = 1..Len(s) /\ DOMAIN t = 1..Len(t)
         /\ DOMAIN (s \o t) = 1..(Len(s) + Len(t))
         /\ \A i \in 1..Len(s) : (s \o t)[i] = s[i]
         /\ \A i \in 1..Len(t) : (s \o t)[Len(s) + i] = t[i]
OBVIOUS

LEMMA JoinedElements ==
  ASSUME NEW D, NEW s \in Seq(D), NEW t \in Seq(D)
  PROVE  \A x : x \in ToSet(s \o t) <=> x \in ToSet(s) \/ x \in ToSet(t)
<1>1. /\ Len(s) \in Nat /\ Len(t) \in Nat /\ DOMAIN s = 1..Len(s) /\ DOMAIN t = 1..Len(t)
      /\ DOMAIN (s \o t) = 1..(Len(s) + Len(t))
      /\ \A i \in 1..Len(s) : (s \o t)[i] = s[i]
      /\ \A i \in 1..Len(t) : (s \o t)[Len(s) + i] = t[i]
  BY JoinedPlaces
<1>2. ASSUME NEW x \in ToSet(s)
      PROVE  x \in ToSet(s \o t)
  <2>1. PICK i \in 1..Len(s) : s[i] = x
    BY <1>1 DEF ToSet
  <2>2. i \in 1..(Len(s) + Len(t))
    BY <1>1
  <2>3. QED
    BY <1>1, <2>1, <2>2 DEF ToSet
<1>3. ASSUME NEW x \in ToSet(t)
      PROVE  x \in ToSet(s \o t)
  <2>1. PICK i \in 1..Len(t) : t[i] = x
    BY <1>1 DEF ToSet
  <2>2. Len(s) + i \in 1..(Len(s) + Len(t))
    BY <1>1
  <2>3. QED
    BY <1>1, <2>1, <2>2 DEF ToSet
<1>4. ASSUME NEW x \in ToSet(s \o t)
      PROVE  x \in ToSet(s) \/ x \in ToSet(t)
  <2>1. PICK i \in 1..(Len(s) + Len(t)) : (s \o t)[i] = x
    BY <1>1 DEF ToSet
  <2>2. CASE i <= Len(s)
    <3>1. i \in 1..Len(s)
      BY <1>1, <2>2
    <3>2. QED
      BY <1>1, <2>1, <3>1 DEF ToSet
  <2>3. CASE Len(s) < i
    <3>1. i - Len(s) \in 1..Len(t) /\ i = Len(s) + (i - Len(s))
      BY <1>1, <2>3
    <3>2. QED
      BY <1>1, <2>1, <3>1 DEF ToSet
  <2>4. QED
    BY <1>1, <2>2, <2>3
<1>5. QED
  BY <1>2, <1>3, <1>4

(* Seen from the end of a sequence of sequences.                            *)
LEMMA Flattened ==
  ASSUME NEW D, NEW s \in Seq(Seq(D))
  PROVE  /\ FlattenSeq(s) \in Seq(D)
         /\ \A x : x \in ToSet(FlattenSeq(s)) <=> \E i \in DOMAIN s : x \in ToSet(s[i])
<1> DEFINE n       == Len(s)
           Rec(it) == [i \in 1..n |-> IF i = 1 THEN s[i] ELSE it[i - 1] \o s[i]]
           f       == CHOOSE it : it = Rec(it)
<1>1. n \in Nat /\ DOMAIN s = 1..n /\ \A i \in 1..n : s[i] \in Seq(D)
  OBVIOUS
<1>2. CASE n = 0
  <2>1. FlattenSeq(s) = <<>> /\ DOMAIN s = {}
    BY <1>1, <1>2 DEF FlattenSeq
  <2>2. QED
    BY <2>1 DEF ToSet
<1>3. CASE n # 0
  <2>1. FlattenSeq(s) = f[n]
    BY <1>3 DEF FlattenSeq
  <2> HIDE DEF n
  <2> DEFINE Part(it, m) == \A i \in 1..m : it[i] = IF i = 1 THEN s[i] ELSE it[i - 1] \o s[i]
             Exists(m)   == \E it \in [1..m -> Seq(D)] : Part(it, m)
             T           == {m \in 0..n : Exists(m)}
  <2>2. 0 \in T
    <3>1. [i \in 1..0 |-> <<>>] \in [1..0 -> Seq(D)]
      OBVIOUS
    <3>2. Part([i \in 1..0 |-> <<>>], 0)
      <4>1. \A i : i \notin 1..0
        OBVIOUS
      <4>2. QED
        BY <4>1
    <3> HIDE DEF Part
    <3>3. Exists(0)
      BY <3>1, <3>2
    <3> HIDE DEF Exists
    <3>4. QED
      BY <1>1, <3>3
  <2>3. ASSUME NEW m \in 0..(n - 1), m \in T
        PROVE  m + 1 \in T
    <3>1. PICK it \in [1..m -> Seq(D)] : Part(it, m)
      BY <2>3
    <3> DEFINE it2 == [i \in 1..(m + 1) |->
                         IF i <= m THEN it[i] ELSE IF i = 1 THEN s[i] ELSE it[m] \o s[i]]
    <3>2. m \in Nat /\ m + 1 \in 1..n /\ s[m + 1] \in Seq(D)
      BY <1>1
    <3>3. ASSUME NEW i \in 1..(m + 1)
          PROVE  it2[i] \in Seq(D) /\ it2[i] = IF i = 1 THEN s[i] ELSE it2[i - 1] \o s[i]
      <4>1. CASE i <= m
        <5>1. i \in 1..m /\ it2[i] = it[i] /\ (i # 1 => it2[i - 1] = it[i - 1])
          BY <3>2, <4>1
        <5>2. QED
          BY <3>1, <5>1
      <4>2. CASE i = m + 1 /\ i # 1
        <5>1. ~(i <= m) /\ m \in 1..m /\ i - 1 = m /\ m \in 1..(m + 1)
          BY <3>2, <4>2
        <5>2. it2[i] = it[m] \o s[i]
          BY <4>2, <5>1
        <5>3. it2[i - 1] = it[m] /\ it[m] \in Seq(D)
          BY <3>1, <5>1
        <5>4. s[i] \in Seq(D)
          BY <3>2, <4>2
        <5>5. it[m] \o s[i] \in Seq(D)
          BY <5>3, <5>4
        <5> HIDE DEF it2
        <5>6. it2[i] = it2[i - 1] \o s[i]
          BY <5>2, <5>3
        <5>7. QED
          BY <4>2, <5>2, <5>5, <5>6
      <4>3. CASE i = m + 1 /\ i = 1
        BY <3>2, <4>3
      <4>4. QED
        BY <3>2, <4>1, <4>2, <4>3
    <3>4. it2 \in [1..(m + 1) -> Seq(D)]
      BY <3>3
    <3>5. Part(it2, m + 1)
      BY <3>3
    <3> HIDE DEF it2, Part
    <3>6. Exists(m + 1)
      BY <3>4, <3>5
    <3> HIDE DEF Exists
    <3>7. QED
      BY <3>2, <3>6
  <2>4. n \in T
    <3> HIDE DEF T
    <3>1. 0..n \subseteq T
      BY <1>1, <2>2, <2>3, UpToInduction
    <3>2. QED
      BY <1>1, <3>1
  <2>5. PICK it \in [1..n -> Seq(D)] : Part(it, n)
    BY <2>4
  <2>6. it = Rec(it)
    BY <2>5
  <2>7. f = Rec(f)
    <3> HIDE DEF Rec
    <3>1. QED
      BY <2>6
  <2> HIDE DEF f
  <2> DEFINE Joined(m) == /\ f[m] \in Seq(D)
                          /\ \A x : x \in ToSet(f[m]) <=> \E i \in 1..m : x \in ToSet(s[i])
             U == {m \in 0..n : m # 0 => Joined(m)}
  <2>8. 0 \in U
    BY <1>1
  <2>9. ASSUME NEW m \in 0..(n - 1), m \in U
        PROVE  m + 1 \in U
    <3> DEFINE g == f[m]
               h == f[m + 1]
    <3>1. m \in Nat /\ m + 1 \in 1..n /\ s[m + 1] \in Seq(D) /\ (m + 1) - 1 = m
      BY <1>1
    <3>2. h = IF m + 1 = 1 THEN s[m + 1] ELSE g \o s[m + 1]
      <4>1. f[m + 1] = Rec(f)[m + 1]
        BY <2>7
      <4>2. QED
        BY <3>1, <4>1
    <3>3. \A x : (\E i \in 1..(m + 1) : x \in ToSet(s[i])) <=>
                   x \in ToSet(s[m + 1]) \/ \E i \in 1..m : x \in ToSet(s[i])
      BY <3>1
    <3>4. CASE m = 0
      <4>1. h = s[m + 1]
        BY <3>2, <3>4
      <4>2. \A x : ~ \E i \in 1..m : x \in ToSet(s[i])
        BY <3>4
      <4>3. Joined(m + 1)
        BY <3>1, <3>3, <4>1, <4>2
      <4> HIDE DEF Joined
      <4>4. QED
        BY <3>1, <4>3
    <3>5. CASE m # 0
      <4>1. g \in Seq(D) /\ \A x : x \in ToSet(g) <=> \E i \in 1..m : x \in ToSet(s[i])
        BY <2>9, <3>5
      <4>2. h = g \o s[m + 1]
        <5>1. m + 1 # 1
          BY <3>1, <3>5
        <5>2. QED
          BY <3>2, <5>1
      <4> HIDE DEF g, h
      <4>3. h \in Seq(D)
        BY <3>1, <4>1, <4>2
      <4>4. \A x : x \in ToSet(h) <=> x \in ToSet(g) \/ x \in ToSet(s[m + 1])
        BY <3>1, <4>1, <4>2, JoinedElements
      <4>5. Joined(m + 1)
        BY <3>3, <4>1, <4>3, <4>4 DEF h
      <4> HIDE DEF Joined
      <4>6. QED
        BY <3>1, <4>5
    <3>6. QED
      BY <3>4, <3>5
  <2>10. n \in U
    <3> HIDE DEF U
    <3>1. 0..n \subseteq U
      BY <1>1, <2>8, <2>9, UpToInduction
    <3>2. QED
      BY <1>1, <3>1
  <2>11. Joined(n)
    <3> HIDE DEF Joined
    <3>1. QED
      BY <1>3, <2>10
  <2>12. QED
    BY <1>1, <2>1, <2>11
<1>4. QED
  BY <1>2, <1>3

-----------------------------------------------------------------------------
(* The inductive invariant.                                                 *)

Ends == {"none", "cycle", "hop_limit"}

Visits == [route : Nat, consumer : Consumers]
States == [seed : SeedKinds, producer : Producers, hops : Seq(Hops), visited : SUBSET Producers]
Paths  == [seed : SeedKinds, hops : Seq(Hops), end : Ends, at : SUBSET Producers, effects : Nat]
Counts == [paths : SUBSET Paths, omitted : Nat, effectsOmitted : Nat, states : Nat,
           stopped : BOOLEAN]

SearchType ==
  /\ limits \in Limits
  /\ side \in Sides \cup {"done"}
  /\ side \in Sides => SideOK(Here)
  /\ queue \in Seq(States)
  /\ visits \in Seq(Visits)
  /\ visits # <<>> => side \in Sides /\ current \in States
  /\ found \in [Sides -> Counts]

Full(f) == Cardinality(f.paths) >= PathsLeft

(* What a path through the hops says by itself is reported.                 *)
Shown(paths, seed, hops) ==
  \E y \in paths : y.seed = seed /\ y.hops = hops /\ y.end = "none"

(* All that leads along the hops is reported.                               *)
Led(paths, seed, hops) == \A n \in 1..Len(hops) : Shown(paths, seed, SubSeq(hops, 1, n))

(* A state is led to by what is reported, unless nothing can be added.      *)
Reached(z) == Full(found[side]) \/ Led(found[side].paths, z.seed, z.hops)

(* The same of the next state, of what may be its own.                      *)
ReachedNext(z) == Full(found[side])' \/ Led(found'[side'].paths, z.seed, z.hops)

SearchInv ==
  /\ SearchType
  /\ PrefixesKept
  /\ side \in Sides => \A k \in DOMAIN queue : Reached(queue[k])
  /\ visits # <<>> => Reached(current)

-----------------------------------------------------------------------------
(* Adding paths.                                                            *)

LEMMA AddPathType ==
  ASSUME NEW f \in Counts, NEW path \in Paths
  PROVE  AddPath(f, path) \in Counts
BY DEF AddPath, Counts

LEMMA AddPathAdds ==
  ASSUME NEW f \in Counts, NEW path \in Paths
  PROVE  /\ f.paths \subseteq AddPath(f, path).paths
         /\ AddPath(f, path).paths \subseteq f.paths \cup {path}
         /\ Full(f) => AddPath(f, path).paths = f.paths
         /\ ~Full(f) => path \in AddPath(f, path).paths
         /\ AddPath(f, path).omitted >= f.omitted
         /\ AddPath(f, path).omitted = f.omitted => path \in AddPath(f, path).paths
         /\ AddPath(f, path).effectsOmitted = f.effectsOmitted
BY DEF AddPath, Counts, Full

(* What is left of the fold of several paths: none is lost, none is made up,*)
(* and the first goes in if there is room.                                  *)
LEMMA AddToAdds ==
  ASSUME NEW f \in Counts, NEW s \in Seq(Paths)
  PROVE  /\ AddTo(f, s) \in Counts
         /\ f.paths \subseteq AddTo(f, s).paths
         /\ AddTo(f, s).paths \subseteq f.paths \cup ToSet(s)
         /\ Full(f) => AddTo(f, s).paths = f.paths
         /\ ~Full(f) /\ s # <<>> => s[1] \in AddTo(f, s).paths
         /\ AddTo(f, s).omitted >= f.omitted
         /\ AddTo(f, s).omitted = f.omitted => ToSet(s) \subseteq AddTo(f, s).paths
         /\ AddTo(f, s).effectsOmitted = f.effectsOmitted
<1>1. Len(s) \in Nat /\ DOMAIN s = 1..Len(s) /\ \A i \in 1..Len(s) : s[i] \in Paths
  OBVIOUS
<1>2. PICK g : /\ g[{}] = f /\ AddTo(f, s) = g[1..Len(s)]
               /\ \A m \in 1..Len(s) : g[1..m] = AddPath(g[1..(m - 1)], s[m])
  BY AddPathType, AddToSteps
<1> DEFINE n == Len(s)
           OK(h, m) == /\ h \in Counts /\ f.paths \subseteq h.paths
                       /\ h.paths \subseteq f.paths \cup {s[i] : i \in 1..m}
                       /\ Full(f) => h.paths = f.paths
                       /\ ~Full(f) /\ m # 0 => s[1] \in h.paths
                       /\ h.omitted >= f.omitted
                       /\ h.omitted = f.omitted => \A i \in 1..m : s[i] \in h.paths
                       /\ h.effectsOmitted = f.effectsOmitted
           T == {m \in 0..n : OK(g[1..m], m)}
<1>3. 0 \in T
  <2>1. 1..0 = {} /\ g[1..0] = f
    BY <1>2
  <2>2. f.omitted \in Nat
    BY DEF Counts
  <2>3. OK(f, 0)
    BY <2>2
  <2> HIDE DEF OK
  <2>4. QED
    BY <1>1, <2>1, <2>3
<1>4. ASSUME NEW m \in 0..(n - 1), m \in T
      PROVE  m + 1 \in T
  <2> DEFINE h == g[1..m]
             k == m + 1
             j == AddPath(h, s[k])
  <2>1. k \in 1..n /\ m \in Nat /\ k - 1 = m /\ s[k] \in Paths
    BY <1>1
  <2>2. OK(h, m)
    BY <1>4
  <2>3. g[1..k] = j
    BY <1>2, <2>1
  <2> HIDE DEF h, j
  <2>4. /\ j \in Counts /\ h.paths \subseteq j.paths /\ j.paths \subseteq h.paths \cup {s[k]}
        /\ Full(h) => j.paths = h.paths
        /\ ~Full(h) => s[k] \in j.paths
        /\ j.omitted >= h.omitted
        /\ j.omitted = h.omitted => s[k] \in j.paths
        /\ j.effectsOmitted = h.effectsOmitted
    BY <2>1, <2>2, AddPathType, AddPathAdds DEF j
  <2>5. h.omitted \in Nat /\ j.omitted \in Nat /\ f.omitted \in Nat
    BY <2>2, <2>4 DEF Counts
  <2>6. \A i \in 1..k : i = k \/ i \in 1..m
    BY <2>1
  <2>7. {s[i] : i \in 1..m} \cup {s[k]} = {s[i] : i \in 1..k}
    BY <2>1, <2>6
  <2>8. Full(f) => j.paths = f.paths
    <3>1. Full(f) => h.paths = f.paths
      BY <2>2
    <3>2. Full(f) => Full(h)
      BY <3>1 DEF Full
    <3>3. QED
      BY <2>4, <3>1, <3>2
  <2>9. ~Full(f) => s[1] \in j.paths
    <3>1. CASE m # 0
      BY <2>2, <2>4, <3>1
    <3>2. CASE m = 0
      <4>1. h = f /\ k = 1
        BY <1>2, <3>2 DEF h
      <4>2. QED
        BY <2>4, <4>1
    <3>3. QED
      BY <3>1, <3>2
  <2>10. j.omitted >= f.omitted /\ (j.omitted = f.omitted => \A i \in 1..k : s[i] \in j.paths)
    BY <2>2, <2>4, <2>5, <2>6
  <2>11. OK(j, k)
    BY <2>2, <2>4, <2>7, <2>8, <2>9, <2>10
  <2> HIDE DEF OK
  <2>12. QED
    BY <1>1, <2>1, <2>3, <2>11
<1>5. OK(AddTo(f, s), n)
  <2> HIDE DEF OK
  <2>1. n \in T
    <3> HIDE DEF T
    <3>1. 0..n \subseteq T
      BY <1>1, <1>3, <1>4, UpToInduction
    <3>2. QED
      BY <1>1, <3>1
  <2>2. QED
    BY <1>2, <2>1
<1>6. ToSet(s) = {s[i] : i \in 1..n}
  BY <1>1 DEF ToSet
<1>7. s # <<>> => n # 0
  OBVIOUS
<1> HIDE DEF n
<1>8. QED
  BY <1>5, <1>6, <1>7

-----------------------------------------------------------------------------
(* What every step of the search keeps.                                     *)

Prefixed(paths, x) ==
  \A n \in 1..Len(x.hops) :
    n < Len(x.hops) \/ x.end # "none" => Shown(paths, x.seed, SubSeq(x.hops, 1, n))

LEMMA PrefixesAre == PrefixesKept <=> \A s \in Sides : \A x \in found[s].paths : Prefixed(found[s].paths, x)
BY DEF PrefixesKept, Prefixed, Shown

LEMMA MorePaths ==
  ASSUME NEW paths, NEW more, paths \subseteq more
  PROVE  /\ \A seed, hops : Led(paths, seed, hops) => Led(more, seed, hops)
         /\ \A x : Prefixed(paths, x) => Prefixed(more, x)
<1>1. \A seed, hops : Shown(paths, seed, hops) => Shown(more, seed, hops)
  BY DEF Shown
<1>2. QED
  BY <1>1 DEF Led, Prefixed

(* What is reported of this side grows, unless it is full.                  *)
Grown(f) ==
  /\ f \in Counts
  /\ found[side].paths \subseteq f.paths
  /\ Full(found[side]) => f.paths = found[side].paths
  /\ \A x \in f.paths : x \in found[side].paths \/ Prefixed(f.paths, x)

LEMMA Grows ==
  ASSUME SearchInv, side \in Sides, UNCHANGED <<system, limits, side>>,
         NEW f, Grown(f), found' = [found EXCEPT ![side] = f]
  PROVE  /\ found' \in [Sides -> Counts] /\ found'[side] = f
         /\ PrefixesKept'
         /\ \A z : Reached(z) => ReachedNext(z)
         /\ \A z : Full(f) \/ Led(f.paths, z.seed, z.hops) => ReachedNext(z)
<1>1. found \in [Sides -> Counts]
  BY DEF SearchInv, SearchType
<1>2. found' \in [Sides -> Counts] /\ found'[side] = f /\ \A s \in Sides \ {side} : found'[s] = found[s]
  BY <1>1 DEF Grown
<1>3. PathsLeft' = PathsLeft
  <2>1. side = "before" \/ "before" \in Sides \ {side}
    BY DEF Sides
  <2>2. QED
    BY <1>2, <2>1 DEF PathsLeft, Left
<1>4. PrefixesKept'
  <2>1. \A s \in Sides : \A x \in found[s].paths : Prefixed(found[s].paths, x)
    BY PrefixesAre DEF SearchInv
  <2>2. \A x \in f.paths : Prefixed(f.paths, x)
    BY <2>1, MorePaths DEF Grown
  <2>3. \A s \in Sides : \A x \in found'[s].paths : Prefixed(found'[s].paths, x)
    BY <1>2, <2>1, <2>2
  <2>4. PrefixesKept' <=> \A s \in Sides : \A x \in found'[s].paths : Prefixed(found'[s].paths, x)
    BY DEF PrefixesKept, Prefixed, Shown
  <2>5. QED
    BY <2>3, <2>4
<1>5. \A z : Full(f) \/ Led(f.paths, z.seed, z.hops) => ReachedNext(z)
  BY <1>2, <1>3 DEF ReachedNext, Full
<1>6. ASSUME NEW z, Reached(z)
      PROVE  Full(f) \/ Led(f.paths, z.seed, z.hops)
  <2>1. CASE Full(found[side])
    BY <2>1 DEF Grown, Full
  <2>2. CASE Led(found[side].paths, z.seed, z.hops)
    BY <2>2, MorePaths DEF Grown
  <2>3. QED
    BY <1>6, <2>1, <2>2 DEF Reached
<1>7. QED
  BY <1>2, <1>4, <1>5, <1>6

LEMMA CountedIs ==
  ASSUME found \in [Sides -> Counts], side \in Sides
  PROVE  Counted \in Counts /\ Counted.paths = found[side].paths
         /\ (Full(Counted) <=> Full(found[side])) /\ Counted.omitted = found[side].omitted
         /\ Counted.effectsOmitted = found[side].effectsOmitted
<1>1. found[side] \in Counts
  OBVIOUS
<1>2. QED
  BY <1>1 DEF Counted, Counts, Full

-----------------------------------------------------------------------------
(* One consumer is visited.                                                 *)

LEMMA HeadAndTail ==
  ASSUME NEW D, NEW s \in Seq(D), s # <<>>
  PROVE  /\ Head(s) \in D /\ Head(s) \in ToSet(s) /\ Tail(s) \in Seq(D)
         /\ \A x : x \in ToSet(s) <=> x = Head(s) \/ x \in ToSet(Tail(s))
<1>1. /\ Len(s) \in Nat \ {0} /\ DOMAIN s = 1..Len(s) /\ Head(s) = s[1] /\ 1 \in 1..Len(s)
      /\ Tail(s) \in Seq(D) /\ DOMAIN Tail(s) = 1..(Len(s) - 1)
      /\ \A i \in 1..(Len(s) - 1) : Tail(s)[i] = s[i + 1]
  OBVIOUS
<1>2. Head(s) \in D
  BY <1>1
<1>3. ASSUME NEW x \in ToSet(s)
      PROVE  x = Head(s) \/ x \in ToSet(Tail(s))
  <2>1. PICK i \in 1..Len(s) : x = s[i]
    BY <1>1 DEF ToSet
  <2>2. CASE i # 1
    <3>1. i - 1 \in 1..(Len(s) - 1) /\ (i - 1) + 1 = i
      BY <1>1, <2>2
    <3>2. QED
      BY <1>1, <2>1, <3>1 DEF ToSet
  <2>3. QED
    BY <1>1, <2>1, <2>2
<1>4. ASSUME NEW x \in ToSet(Tail(s))
      PROVE  x \in ToSet(s)
  <2>1. PICK i \in 1..(Len(s) - 1) : x = s[i + 1]
    BY <1>1 DEF ToSet
  <2>2. i + 1 \in 1..Len(s)
    BY <1>1
  <2>3. QED
    BY <1>1, <2>1, <2>2 DEF ToSet
<1>5. Head(s) \in ToSet(s)
  BY <1>1 DEF ToSet
<1>6. QED
  BY <1>1, <1>2, <1>3, <1>4, <1>5

LEMMA VisitType ==
  ASSUME SearchType, visits # <<>>
  PROVE  /\ Head(visits).consumer \in Consumers /\ Head(visits).route \in Nat
         /\ current \in States /\ current.producer \in Producers /\ side \in Sides
         /\ EffectsHere \in Nat /\ KeptEffects \in Nat /\ EffectsHere - KeptEffects \in Nat
         /\ OnwardHere \in Seq(Producers)
         /\ Tail(visits) \in Seq(Visits)
<1>0. visits \in Seq(Visits)
  BY DEF SearchType
<1>1. Head(visits) \in Visits
  BY <1>0, HeadAndTail
<1>2. current \in States /\ current.producer \in Producers /\ side \in Sides
  BY DEF SearchType, States
<1>3. SideOK(Here)
  BY <1>2 DEF SearchType
<1>4. EffectsHere \in Nat /\ OnwardHere \in Seq(Producers)
  BY <1>1, <1>2, <1>3 DEF SideOK, EffectsHere, OnwardHere, Visits
<1>5. limits.effects \in Nat
  BY LimitsAssumption DEF SearchType
<1>6. KeptEffects \in Nat /\ EffectsHere - KeptEffects \in Nat
  BY <1>4, <1>5 DEF KeptEffects
<1>7. Tail(visits) \in Seq(Visits)
  BY <1>0, HeadAndTail
<1>8. QED
  BY <1>1, <1>2, <1>4, <1>6, <1>7 DEF Visits

LEMMA ArrivedIs ==
  ASSUME SearchType, visits # <<>>
  PROVE  /\ current.hops \in Seq(Hops) /\ Arrived \in Seq(Hops)
         /\ Len(Arrived) = Len(current.hops) + 1
         /\ SubSeq(Arrived, 1, Len(Arrived)) = Arrived
         /\ \A n \in 1..Len(current.hops) : SubSeq(Arrived, 1, n) = SubSeq(current.hops, 1, n)
<1> DEFINE hop == [producer |-> current.producer, route |-> Head(visits).route,
                   consumer |-> Head(visits).consumer]
           s   == current.hops
<1>1. hop \in Hops
  BY VisitType DEF Hops
<1>2. s \in Seq(Hops)
  BY VisitType DEF States
<1>3. Arrived = Append(s, hop)
  BY DEF Arrived
<1> HIDE DEF hop, s
<1>4. Arrived \in Seq(Hops) /\ Len(Arrived) = Len(s) + 1
  BY <1>1, <1>2, <1>3
<1>5. SubSeq(Arrived, 1, Len(Arrived)) = Arrived
  BY <1>4
<1>6. ASSUME NEW n \in 1..Len(s)
      PROVE  SubSeq(Arrived, 1, n) = SubSeq(s, 1, n)
  BY <1>1, <1>2, <1>3
<1>7. QED
  BY <1>2, <1>4, <1>5, <1>6 DEF s

LEMMA NewPathsAre ==
  ASSUME SearchType, visits # <<>>
  PROVE  /\ NewPaths \in Seq(Paths) /\ NewPaths # <<>>
         /\ NewPaths[1] = Path(Arrived, "none", {}, KeptEffects)
         /\ \A x : x \in ToSet(NewPaths) <=>
              \/ x = NewPaths[1]
              \/ \E p \in ToSet(OnwardHere) \cap current.visited : x = Path(Arrived, "cycle", {p}, 0)
<1> DEFINE cyclic == Only(OnwardHere, current.visited)
           first  == <<Path(Arrived, "none", {}, KeptEffects)>>
           rest   == [k \in DOMAIN cyclic |-> Path(Arrived, "cycle", {cyclic[k]}, 0)]
<1>1. /\ cyclic \in Seq(Producers)
      /\ \A p : p \in ToSet(cyclic) <=> p \in ToSet(OnwardHere) /\ p \in current.visited
  BY VisitType, OnlySome
<1>2. current.seed \in SeedKinds /\ Arrived \in Seq(Hops)
  BY VisitType, ArrivedIs DEF States
<1>3. Path(Arrived, "none", {}, KeptEffects) \in Paths
  BY <1>2, VisitType DEF Path, Paths, Ends
<1>4. \A p \in Producers : Path(Arrived, "cycle", {p}, 0) \in Paths
  BY <1>2 DEF Path, Paths, Ends
<1>5. NewPaths = first \o rest
  BY DEF NewPaths
<1> HIDE DEF cyclic
<1>6. rest \in Seq(Paths) /\ DOMAIN rest = DOMAIN cyclic
  <2>1. DOMAIN cyclic = 1..Len(cyclic) /\ Len(cyclic) \in Nat
    BY <1>1
  <2>2. \A k \in 1..Len(cyclic) : cyclic[k] \in Producers
    BY <1>1
  <2>3. rest \in [1..Len(cyclic) -> Paths]
    BY <1>4, <2>1, <2>2
  <2>4. QED
    BY <2>1, <2>3
<1>7. first \in Seq(Paths) /\ ToSet(first) = {Path(Arrived, "none", {}, KeptEffects)}
      /\ Len(first) = 1 /\ first[1] = Path(Arrived, "none", {}, KeptEffects)
  BY <1>3 DEF ToSet
<1>8. \A x : x \in ToSet(rest) <=> \E p \in ToSet(cyclic) : x = Path(Arrived, "cycle", {p}, 0)
  BY <1>6 DEF ToSet
<1> HIDE DEF first, rest
<1>9. /\ NewPaths \in Seq(Paths) /\ NewPaths # <<>> /\ NewPaths[1] = first[1]
      /\ \A x : x \in ToSet(NewPaths) <=> x \in ToSet(first) \/ x \in ToSet(rest)
  <2>1. \A x : x \in ToSet(NewPaths) <=> x \in ToSet(first) \/ x \in ToSet(rest)
    BY <1>5, <1>6, <1>7, JoinedElements
  <2>0. /\ Len(first \o rest) = Len(first) + Len(rest) /\ Len(rest) \in Nat
        /\ \A i \in 1..Len(first) : (first \o rest)[i] = first[i]
    BY <1>6, <1>7, JoinedPlaces
  <2>2. NewPaths \in Seq(Paths)
    BY <1>5, <1>6, <1>7
  <2>3. Len(rest) \in Nat /\ Len(NewPaths) = 1 + Len(rest)
    BY <1>5, <1>7, <2>0
  <2>4. NewPaths[1] = first[1]
    <3>1. 1 \in 1..Len(first)
      BY <1>7
    <3>2. QED
      BY <1>5, <2>0, <3>1
  <2>5. NewPaths # <<>>
    BY <2>3
  <2>6. QED
    BY <2>1, <2>2, <2>4, <2>5
<1>10. QED
  BY <1>1, <1>7, <1>8, <1>9

LEMMA NewStatesAre ==
  ASSUME SearchType, visits # <<>>
  PROVE  /\ NewStates \in Seq(States)
         /\ \A z : z \in ToSet(NewStates) <=>
              \E p \in ToSet(OnwardHere) \ current.visited :
                z = [seed |-> current.seed, producer |-> p, hops |-> Arrived,
                     visited |-> current.visited \cup {p}]
<1> DEFINE onward == Only(OnwardHere, Producers \ current.visited)
           Z(p)   == [seed |-> current.seed, producer |-> p, hops |-> Arrived,
                      visited |-> current.visited \cup {p}]
<1>1. /\ onward \in Seq(Producers)
      /\ \A p : p \in ToSet(onward) <=> p \in ToSet(OnwardHere) /\ p \in Producers \ current.visited
  BY VisitType, OnlySome
<1>2. current.seed \in SeedKinds /\ current.visited \subseteq Producers /\ Arrived \in Seq(Hops)
  BY VisitType, ArrivedIs DEF States
<1>3. \A p \in Producers : Z(p) \in States
  BY <1>2 DEF States
<1>4. NewStates = [k \in DOMAIN onward |-> Z(onward[k])]
  BY DEF NewStates
<1>5. ToSet(OnwardHere) \subseteq Producers
  BY VisitType DEF ToSet
<1> HIDE DEF onward, Z
<1>6. DOMAIN onward = 1..Len(onward) /\ Len(onward) \in Nat
      /\ \A k \in 1..Len(onward) : onward[k] \in Producers
  BY <1>1
<1>7. NewStates \in [1..Len(onward) -> States]
  BY <1>3, <1>4, <1>6
<1>8. NewStates \in Seq(States)
  BY <1>6, <1>7
<1>9. \A z : z \in ToSet(NewStates) <=> \E p \in ToSet(onward) : z = Z(p)
  BY <1>4 DEF ToSet
<1>10. QED
  BY <1>1, <1>5, <1>8, <1>9 DEF Z

-----------------------------------------------------------------------------
(* Every step keeps the invariant.                                          *)

LEMMA VisitsOfAre ==
  ASSUME SideOK(Here), NEW p \in Producers
  PROVE  /\ VisitsOf(p) \in Seq(Visits)
         /\ \A v : v \in ToSet(VisitsOf(p)) <=>
              \E r \in DOMAIN Here.routes[p] : \E c \in ToSet(Here.routes[p][r]) :
                v = [route |-> r, consumer |-> c]
<1> DEFINE routes == Here.routes[p]
           Of(r)  == [k \in DOMAIN routes[r] |-> [route |-> r, consumer |-> routes[r][k]]]
           all    == [r \in DOMAIN routes |-> Of(r)]
<1>1. routes \in Seq(Seq(Consumers))
  BY DEF SideOK
<1>2. VisitsOf(p) = FlattenSeq(all)
  BY DEF VisitsOf
<1> HIDE DEF routes
<1>3. DOMAIN routes = 1..Len(routes) /\ Len(routes) \in Nat
      /\ \A r \in 1..Len(routes) : routes[r] \in Seq(Consumers) /\ r \in Nat
  BY <1>1
<1>4. ASSUME NEW r \in DOMAIN routes
      PROVE  /\ Of(r) \in Seq(Visits)
             /\ \A v : v \in ToSet(Of(r)) <=>
                  \E c \in ToSet(routes[r]) : v = [route |-> r, consumer |-> c]
  <2> DEFINE s == routes[r]
  <2>1. s \in Seq(Consumers) /\ r \in Nat
    BY <1>3
  <2> HIDE DEF s
  <2>2. DOMAIN s = 1..Len(s) /\ Len(s) \in Nat /\ \A k \in 1..Len(s) : s[k] \in Consumers
    BY <2>1
  <2>3. Of(r) = [k \in 1..Len(s) |-> [route |-> r, consumer |-> s[k]]]
    BY <2>2 DEF s
  <2> HIDE DEF Of
  <2>4. Of(r) \in [1..Len(s) -> Visits]
    BY <2>1, <2>2, <2>3 DEF Visits
  <2>5. \A v : v \in ToSet(Of(r)) <=> \E c \in ToSet(s) : v = [route |-> r, consumer |-> c]
    BY <2>2, <2>3 DEF ToSet
  <2>6. QED
    BY <2>2, <2>4, <2>5 DEF s
<1>5. DOMAIN all = DOMAIN routes /\ \A r \in DOMAIN routes : all[r] = Of(r)
  OBVIOUS
<1> HIDE DEF Of, all
<1>6. all \in Seq(Seq(Visits))
  <2>1. all \in [1..Len(routes) -> Seq(Visits)]
    BY <1>3, <1>4, <1>5 DEF all
  <2>2. QED
    BY <1>3, <2>1
<1>7. /\ FlattenSeq(all) \in Seq(Visits)
      /\ \A v : v \in ToSet(FlattenSeq(all)) <=> \E r \in DOMAIN all : v \in ToSet(all[r])
  BY <1>6, Flattened
<1>8. QED
  BY <1>2, <1>4, <1>5, <1>7 DEF routes

LEMMA SeedStates ==
  ASSUME NEW s, SideOK(s)
  PROVE  /\ StatesOf(s) \in Seq(States)
         /\ \A k \in DOMAIN StatesOf(s) : StatesOf(s)[k].hops = <<>>
<1> DEFINE seeds == s.seeds
           Seed  == [seed : SeedKinds, producer : Producers]
           n     == Len(seeds)
<1>1. seeds \in Seq(Seed)
  BY DEF SideOK
<1> HIDE DEF seeds, Seed
<1>2. n \in Nat /\ DOMAIN seeds = 1..n /\ \A k \in 1..n : seeds[k] \in Seed
  BY <1>1
<1>3. StatesOf(s) = [k \in 1..n |->
         [seed |-> seeds[k].seed, producer |-> seeds[k].producer,
          hops |-> <<>>, visited |-> {seeds[k].producer}]]
  BY <1>2 DEF StatesOf, seeds
<1> HIDE DEF n
<1>4. \A k \in 1..n : [seed |-> seeds[k].seed, producer |-> seeds[k].producer,
          hops |-> <<>>, visited |-> {seeds[k].producer}] \in States
  BY <1>2 DEF States, Seed
<1>5. StatesOf(s) \in [1..n -> States]
  BY <1>3, <1>4
<1>6. QED
  BY <1>2, <1>3, <1>5

(* What a search starts from.                                               *)
Started ==
  /\ limits \in Limits /\ \A s \in Sides : SideOK(system[s])
  /\ side = "before" /\ queue = StatesOf(system["before"]) /\ visits = <<>>
  /\ found = [s \in Sides |-> Nothing]

LEMMA InitStarts == Init => Started
BY SystemsAssumption DEF Init, Started

LEMMA StartSearch ==
  ASSUME Started
  PROVE  SearchInv
<1>1. Nothing \in Counts /\ found \in [Sides -> Counts]
  BY DEF Started, Nothing, Counts
<1>2. /\ queue \in Seq(States) /\ \A k \in DOMAIN queue : queue[k].hops = <<>>
  BY SeedStates DEF Started, Sides
<1>3. SearchType
  BY <1>1, <1>2 DEF Started, SearchType, Sides, Here
<1>4. \A s \in Sides : found[s].paths = {}
  BY DEF Started, Nothing
<1>5. PrefixesKept
  BY <1>4 DEF PrefixesKept
<1>6. \A k \in DOMAIN queue : Reached(queue[k])
  BY <1>2 DEF Reached, Led
<1>7. QED
  BY <1>3, <1>5, <1>6 DEF SearchInv, Started

LEMMA TakeKeeps ==
  ASSUME SearchInv, Take
  PROVE  SearchInv'
<1> DEFINE z == Head(queue)
<1>1. /\ side \in Sides /\ UNCHANGED <<system, limits, side>> /\ queue # <<>> /\ visits = <<>>
      /\ queue' = Tail(queue) /\ current' = z
  BY DEF Take
<1>2. queue \in Seq(States) /\ found \in [Sides -> Counts] /\ SideOK(Here)
  BY <1>1 DEF SearchInv, SearchType
<1>3. z \in States /\ queue' \in Seq(States) /\ Reached(z)
      /\ \A k \in DOMAIN queue' : k + 1 \in DOMAIN queue /\ queue'[k] = queue[k + 1]
  <2>1. z \in States /\ Tail(queue) \in Seq(States)
    BY <1>1, <1>2, HeadAndTail
  <2>2. 1 \in DOMAIN queue /\ z = queue[1]
    BY <1>1, <1>2
  <2>3. \A k \in DOMAIN Tail(queue) : k + 1 \in DOMAIN queue /\ Tail(queue)[k] = queue[k + 1]
    BY <1>1, <1>2
  <2>4. QED
    BY <1>1, <2>1, <2>2, <2>3 DEF SearchInv
<1> HIDE DEF z
<1>4. PICK f : found' = [found EXCEPT ![side] = f] /\ Grown(f)
  <2>1. /\ Counted \in Counts /\ Counted.paths = found[side].paths
        /\ Full(Counted) <=> Full(found[side])
    BY <1>1, <1>2, CountedIs
  <2>2. CASE AtHopLimit(z)
    <3> DEFINE x == [seed |-> z.seed, hops |-> z.hops, end |-> "hop_limit",
                     at |-> {z.producer}, effects |-> 0]
    <3>1. found' = [found EXCEPT ![side] = AddPath(Counted, x)]
      BY <2>2 DEF Take, z
    <3>2. x \in Paths /\ x.seed = z.seed /\ x.hops = z.hops
      BY <1>3 DEF States, Paths, Ends
    <3> HIDE DEF x
    <3>3. /\ AddPath(Counted, x) \in Counts
          /\ Counted.paths \subseteq AddPath(Counted, x).paths
          /\ AddPath(Counted, x).paths \subseteq Counted.paths \cup {x}
          /\ Full(Counted) => AddPath(Counted, x).paths = Counted.paths
      BY <2>1, <3>2, AddPathType, AddPathAdds
    <3>4. ~Full(found[side]) => Prefixed(AddPath(Counted, x).paths, x)
      <4>1. ~Full(found[side]) => Led(found[side].paths, z.seed, z.hops)
        BY <1>3 DEF Reached
      <4>2. Led(found[side].paths, z.seed, z.hops) =>
              Led(AddPath(Counted, x).paths, z.seed, z.hops)
        BY <2>1, <3>3, MorePaths
      <4>3. Led(AddPath(Counted, x).paths, z.seed, z.hops) =>
              Prefixed(AddPath(Counted, x).paths, x)
        BY <3>2 DEF Led, Prefixed
      <4>4. QED
        BY <4>1, <4>2, <4>3
    <3>5. Grown(AddPath(Counted, x))
      BY <2>1, <3>3, <3>4 DEF Grown
    <3>6. QED
      BY <3>1, <3>5
  <2>3. CASE ~AtHopLimit(z)
    <3>1. found' = [found EXCEPT ![side] = Counted]
      BY <2>3 DEF Take, z
    <3>2. Grown(Counted)
      BY <2>1 DEF Grown
    <3>3. QED
      BY <3>1, <3>2
  <2>4. QED
    BY <2>2, <2>3
<1>5. /\ found' \in [Sides -> Counts] /\ PrefixesKept' /\ \A y : Reached(y) => ReachedNext(y)
  BY <1>1, <1>4, Grows
<1>6. visits' \in Seq(Visits)
  <2>1. z.producer \in Producers
    BY <1>3 DEF States
  <2>2. visits' = VisitsOf(z.producer) \/ visits' = <<>>
    BY <1>1 DEF Take, z
  <2>3. QED
    BY <1>2, <2>1, <2>2, VisitsOfAre, EmptySeq
<1>7. SearchType'
  BY <1>1, <1>2, <1>3, <1>5, <1>6 DEF SearchInv, SearchType, Here
<1>8. \A k \in DOMAIN queue' : Reached(queue[k])'
  <2>1. \A k \in DOMAIN queue' : ReachedNext(queue'[k])
    BY <1>1, <1>3, <1>5 DEF SearchInv
  <2>2. QED
    BY <2>1 DEF Reached, ReachedNext
<1>9. Reached(current)'
  <2>1. ReachedNext(current')
    BY <1>1, <1>3, <1>5
  <2>2. QED
    BY <2>1 DEF Reached, ReachedNext
<1>10. QED
  BY <1>1, <1>5, <1>7, <1>8, <1>9 DEF SearchInv

LEMMA VisitKeeps ==
  ASSUME SearchInv, Visit
  PROVE  SearchInv'
<1> DEFINE base == [Counted EXCEPT !.effectsOmitted = @ + (EffectsHere - KeptEffects)]
           f    == AddTo(base, NewPaths)
<1>1. /\ visits # <<>> /\ UNCHANGED <<system, limits, side, current>>
      /\ found' = [found EXCEPT ![side] = f]
      /\ queue' = queue \o NewStates /\ visits' = Tail(visits)
  BY DEF Visit, AddTo
<1>2. /\ side \in Sides /\ found \in [Sides -> Counts] /\ SideOK(Here) /\ queue \in Seq(States)
      /\ current \in States /\ SearchType
  BY <1>1, VisitType DEF SearchInv, SearchType
<1>3. base \in Counts /\ base.paths = found[side].paths
      /\ (Full(base) <=> Full(found[side]))
  <2>1. Counted \in Counts /\ Counted.paths = found[side].paths
    BY <1>2, CountedIs
  <2>2. EffectsHere - KeptEffects \in Nat
    BY <1>1, <1>2, VisitType
  <2>3. base \in Counts /\ base.paths = found[side].paths
    BY <2>1, <2>2 DEF Counts
  <2>4. QED
    BY <2>3 DEF Full
<1>4. /\ NewPaths \in Seq(Paths) /\ NewPaths # <<>>
      /\ NewPaths[1] = Path(Arrived, "none", {}, KeptEffects)
      /\ \A x \in ToSet(NewPaths) : x.seed = current.seed /\ x.hops = Arrived
                                    /\ (x = NewPaths[1] \/ x.end = "cycle")
  BY <1>1, <1>2, NewPathsAre DEF Path
<1> HIDE DEF base
<1>5. /\ f \in Counts /\ base.paths \subseteq f.paths
      /\ f.paths \subseteq base.paths \cup ToSet(NewPaths)
      /\ Full(base) => f.paths = base.paths
      /\ ~Full(base) => NewPaths[1] \in f.paths
  BY <1>3, <1>4, AddToAdds
<1> HIDE DEF f
<1>6. ASSUME ~Full(base)
      PROVE  Led(f.paths, current.seed, Arrived)
  <2>1. Led(found[side].paths, current.seed, current.hops)
    BY <1>1, <1>3, <1>6 DEF SearchInv, Reached
  <2>2. Led(f.paths, current.seed, current.hops)
    BY <1>3, <1>5, <2>1, MorePaths
  <2>3. NewPaths[1] \in f.paths /\ NewPaths[1].seed = current.seed /\ NewPaths[1].hops = Arrived
        /\ NewPaths[1].end = "none"
    BY <1>4, <1>5, <1>6 DEF Path
  <2>4. ASSUME NEW n \in 1..Len(Arrived)
        PROVE  Shown(f.paths, current.seed, SubSeq(Arrived, 1, n))
    <3>1. /\ Len(Arrived) = Len(current.hops) + 1 /\ Len(current.hops) \in Nat
          /\ SubSeq(Arrived, 1, Len(Arrived)) = Arrived
          /\ \A m \in 1..Len(current.hops) :
               SubSeq(Arrived, 1, m) = SubSeq(current.hops, 1, m)
      <4>1. current.hops \in Seq(Hops)
        BY <1>1, <1>2, ArrivedIs
      <4>2. Len(current.hops) \in Nat
        BY <4>1
      <4>3. QED
        BY <1>1, <1>2, <4>2, ArrivedIs
    <3>2. CASE n = Len(Arrived)
      BY <2>3, <3>1, <3>2 DEF Shown
    <3>3. CASE n # Len(Arrived)
      <4>1. n \in 1..Len(current.hops)
        BY <3>1, <3>3
      <4>2. QED
        BY <2>2, <3>1, <4>1 DEF Led
    <3>4. QED
      BY <3>2, <3>3
  <2>5. QED
    BY <2>4 DEF Led
<1>7. Grown(f)
  <2>1. ASSUME NEW x \in f.paths
        PROVE  x \in found[side].paths \/ Prefixed(f.paths, x)
    <3>1. CASE Full(base)
      BY <1>3, <1>5, <3>1
    <3>2. CASE ~Full(base) /\ x \in ToSet(NewPaths)
      <4>1. x.seed = current.seed /\ x.hops = Arrived
        BY <1>4, <3>2
      <4>2. Led(f.paths, current.seed, Arrived)
        BY <1>6, <3>2
      <4>3. QED
        BY <4>1, <4>2 DEF Led, Prefixed
    <3>3. QED
      BY <1>3, <1>5, <3>1, <3>2
  <2>2. QED
    BY <1>3, <1>5, <2>1 DEF Grown
<1>8. /\ found' \in [Sides -> Counts] /\ PrefixesKept' /\ \A y : Reached(y) => ReachedNext(y)
      /\ \A y : Full(f) \/ Led(f.paths, y.seed, y.hops) => ReachedNext(y)
  BY <1>1, <1>2, <1>7, Grows
<1>9. /\ NewStates \in Seq(States)
      /\ \A z \in ToSet(NewStates) : z.seed = current.seed /\ z.hops = Arrived
  BY <1>1, <1>2, NewStatesAre
<1>10. \A z \in ToSet(NewStates) : Full(f) \/ Led(f.paths, z.seed, z.hops)
  <2>1. CASE Full(base)
    BY <1>5, <2>1 DEF Full
  <2>2. CASE ~Full(base)
    BY <1>6, <1>9, <2>2
  <2>3. QED
    BY <2>1, <2>2
<1>11. queue' \in Seq(States) /\ \A z \in ToSet(queue') : ReachedNext(z)
  <2>1. queue' \in Seq(States) /\ \A z : z \in ToSet(queue') <=> z \in ToSet(queue) \/ z \in ToSet(NewStates)
    BY <1>1, <1>2, <1>9, JoinedElements, JoinedPlaces
  <2>2. \A z \in ToSet(queue) : Reached(z)
    BY <1>2 DEF SearchInv, ToSet
  <2>3. QED
    BY <1>8, <1>10, <2>1, <2>2
<1>12. \A k \in DOMAIN queue' : Reached(queue[k])'
  BY <1>11 DEF ToSet, Reached, ReachedNext
<1>13. Reached(current)'
  <2>1. ReachedNext(current)
    BY <1>1, <1>8 DEF SearchInv
  <2>2. QED
    BY <1>1, <2>1 DEF Reached, ReachedNext
<1>14. SearchType'
  <2>1. visits' \in Seq(Visits)
    BY <1>1, <1>2, VisitType
  <2>2. QED
    BY <1>1, <1>2, <1>8, <1>11, <2>1 DEF SearchType, Here
<1>15. QED
  BY <1>8, <1>12, <1>13, <1>14 DEF SearchInv

LEMMA PassOverKeeps ==
  ASSUME SearchInv, PassOver
  PROVE  SearchInv'
<1>1. /\ visits # <<>> /\ UNCHANGED <<system, limits, side, queue, current>>
      /\ found' = [found EXCEPT ![side] = Counted] /\ visits' = Tail(visits)
  BY DEF PassOver
<1>2. side \in Sides /\ found \in [Sides -> Counts] /\ visits' \in Seq(Visits)
  BY <1>1, VisitType DEF SearchInv, SearchType
<1>3. Grown(Counted)
  BY <1>2, CountedIs DEF Grown
<1>4. /\ found' \in [Sides -> Counts] /\ PrefixesKept' /\ \A y : Reached(y) => ReachedNext(y)
  BY <1>1, <1>2, <1>3, Grows
<1>5. Reached(current)' /\ \A k \in DOMAIN queue' : Reached(queue[k])'
  <2>1. ReachedNext(current) /\ \A k \in DOMAIN queue : ReachedNext(queue[k])
    BY <1>1, <1>2, <1>4 DEF SearchInv
  <2>2. QED
    BY <1>1, <2>1 DEF Reached, ReachedNext
<1>6. SearchType'
  BY <1>1, <1>2, <1>4 DEF SearchInv, SearchType, Here
<1>7. QED
  BY <1>4, <1>5, <1>6 DEF SearchInv

(* The end of a loop at the limit on states changes only counters.          *)
LEMMA LimitGrows ==
  ASSUME SearchInv, side \in Sides, NEW more \in Nat,
         found' = [found EXCEPT ![side].stopped = TRUE, ![side].omitted = @ + more]
  PROVE  \E f : Grown(f) /\ found' = [found EXCEPT ![side] = f]
<1>1. found \in [Sides -> Counts] /\ found[side] \in Counts
  BY DEF SearchInv, SearchType
<1> DEFINE f == [found[side] EXCEPT !.stopped = TRUE, !.omitted = @ + more]
<1>2. found' = [found EXCEPT ![side] = f]
  BY <1>1
<1>3. f \in Counts /\ f.paths = found[side].paths
  <2> DEFINE g == found[side]
  <2>1. g \in Counts
    BY <1>1
  <2> HIDE DEF g
  <2>2. [g EXCEPT !.stopped = TRUE, !.omitted = @ + more] \in Counts
    <3>1. g.omitted + more \in Nat
      BY <2>1 DEF Counts
    <3>2. \A n \in Nat : [g EXCEPT !.stopped = TRUE, !.omitted = n] \in Counts
      BY <2>1 DEF Counts
    <3>3. QED
      BY <3>1, <3>2
  <2>3. [g EXCEPT !.stopped = TRUE, !.omitted = @ + more].paths = g.paths
    BY <2>1 DEF Counts
  <2>4. QED
    BY <2>2, <2>3 DEF g
<1> HIDE DEF f
<1>4. Grown(f)
  BY <1>3 DEF Grown
<1>5. QED
  BY <1>2, <1>4

LEMMA SkipRouteKeeps ==
  ASSUME SearchInv, SkipRoute
  PROVE  SearchInv'
<1>1. /\ visits # <<>> /\ UNCHANGED <<system, limits, side, queue, current>>
      /\ found' = [found EXCEPT ![side].stopped = TRUE, ![side].omitted = @ + 1]
      /\ visits' = Only(visits, {v \in ToSet(visits) : v.route # Head(visits).route})
  BY DEF SkipRoute
<1>2. side \in Sides /\ found \in [Sides -> Counts] /\ visits' \in Seq(Visits)
  BY <1>1, VisitType, OnlySome DEF SearchInv, SearchType
<1>3. PICK f : Grown(f) /\ found' = [found EXCEPT ![side] = f]
  BY <1>1, <1>2, LimitGrows
<1>4. /\ found' \in [Sides -> Counts] /\ PrefixesKept' /\ \A y : Reached(y) => ReachedNext(y)
  BY <1>1, <1>2, <1>3, Grows
<1>5. Reached(current)' /\ \A k \in DOMAIN queue' : Reached(queue[k])'
  <2>1. ReachedNext(current) /\ \A k \in DOMAIN queue : ReachedNext(queue[k])
    BY <1>1, <1>2, <1>4 DEF SearchInv
  <2>2. QED
    BY <1>1, <2>1 DEF Reached, ReachedNext
<1>6. SearchType'
  BY <1>1, <1>2, <1>4 DEF SearchInv, SearchType, Here
<1>7. QED
  BY <1>4, <1>5, <1>6 DEF SearchInv

LEMMA StopKeeps ==
  ASSUME SearchInv, StopAtStateLimit
  PROVE  SearchInv'
<1>1. /\ side \in Sides /\ visits = <<>> /\ queue' = <<>>
      /\ UNCHANGED <<system, limits, side, current, visits>>
      /\ found' = [found EXCEPT ![side].stopped = TRUE, ![side].omitted = @ + Len(queue)]
  BY DEF StopAtStateLimit
<1>2. Len(queue) \in Nat
  BY DEF SearchInv, SearchType
<1>3. PICK f : Grown(f) /\ found' = [found EXCEPT ![side] = f]
  BY <1>1, <1>2, LimitGrows
<1>4. found' \in [Sides -> Counts] /\ PrefixesKept'
  BY <1>1, <1>3, Grows
<1>5. SearchType'
  BY <1>1, <1>4 DEF SearchInv, SearchType, Here
<1>6. QED
  BY <1>1, <1>4, <1>5 DEF SearchInv

LEMMA EndSideKeeps ==
  ASSUME SearchInv, EndSide, \A s \in Sides : SideOK(system[s])
  PROVE  SearchInv'
<1>1. /\ visits = <<>> /\ UNCHANGED <<system, limits, current, visits, found>>
      /\ side' \in {"after", "done"}
      /\ queue' = <<>> \/ queue' = StatesOf(system["after"])
  BY DEF EndSide
<1>2. /\ queue' \in Seq(States) /\ \A k \in DOMAIN queue' : queue'[k].hops = <<>>
  <2>1. SideOK(system["after"])
    BY DEF Sides
  <2>2. StatesOf(system["after"]) \in Seq(States)
        /\ \A k \in DOMAIN StatesOf(system["after"]) : StatesOf(system["after"])[k].hops = <<>>
    BY <2>1, SeedStates
  <2>3. <<>> \in Seq(States) /\ DOMAIN <<>> = {}
    OBVIOUS
  <2>4. CASE queue' = <<>>
    BY <2>3, <2>4
  <2>5. CASE queue' = StatesOf(system["after"])
    BY <2>2, <2>5
  <2>6. QED
    BY <1>1, <2>4, <2>5
<1>3. SearchType'
  BY <1>1, <1>2 DEF SearchInv, SearchType, Here, Sides
<1>4. PrefixesKept'
  BY <1>1 DEF SearchInv, PrefixesKept
<1>5. \A k \in DOMAIN queue' : Reached(queue[k])'
  BY <1>2 DEF Reached, Led
<1>6. QED
  BY <1>1, <1>3, <1>4, <1>5 DEF SearchInv

SystemOK == \A s \in Sides : SideOK(system[s])

LEMMA StepKeeps ==
  ASSUME SystemOK, SearchInv, [Next]_vars
  PROVE  SearchInv' /\ SystemOK'
<1>1. system' = system
  BY DEF Next, vars, Take, StopAtStateLimit, Visit, PassOver, SkipRoute, EndSide
<1>2. SystemOK'
  BY <1>1 DEF SystemOK
<1>3. CASE Take
  BY <1>2, <1>3, TakeKeeps
<1>4. CASE StopAtStateLimit
  BY <1>2, <1>4, StopKeeps
<1>5. CASE Visit
  BY <1>2, <1>5, VisitKeeps
<1>6. CASE PassOver
  BY <1>2, <1>6, PassOverKeeps
<1>7. CASE SkipRoute
  BY <1>2, <1>7, SkipRouteKeeps
<1>8. CASE EndSide
  BY <1>2, <1>8, EndSideKeeps DEF SystemOK
<1>9. CASE UNCHANGED vars
  BY <1>2, <1>9 DEF vars, SearchInv, SearchType, PrefixesKept, Reached, Full, PathsLeft, Left, Here
<1>10. QED
  BY <1>2, <1>3, <1>4, <1>5, <1>6, <1>7, <1>8, <1>9 DEF Next

(* Whatever the search still has to look at was led to by what it reports.  *)
THEOREM SearchInvariance == Spec => [](SystemOK /\ SearchInv)
<1>1. Init => SystemOK /\ SearchInv
  BY InitStarts, StartSearch DEF Started, SystemOK
<1>2. SystemOK /\ SearchInv /\ [Next]_vars => (SystemOK /\ SearchInv)'
  BY StepKeeps
<1>3. QED
  BY <1>1, <1>2, PTL DEF Spec

(* propagateConditionalSystemImpact cuts the far end: however its limits end*)
(* it, what is reported at some distance is led to by what is reported.     *)
THEOREM FarEndIsCut == Spec => []PrefixesKept
<1>1. SystemOK /\ SearchInv => PrefixesKept
  BY DEF SearchInv
<1>2. QED
  BY <1>1, SearchInvariance, PTL

-----------------------------------------------------------------------------
(* What a search without omissions reports.                                 *)

Onward(s, h) == ToSet(s.onward[h.producer][h.consumer])

(* The hops of a chain, of whatever length.                                 *)
Chain(s, first, c) ==
  /\ c # <<>> => c[1].producer = first
  /\ \A k \in 2..Len(c) : c[k].producer \in Onward(s, c[k - 1])
  /\ \A j, k \in DOMAIN c : c[j].producer = c[k].producer => j = k

(* Where the hops from a producer lead.                                     *)
LeadsTo(s, first, c, p) ==
  IF c = <<>> THEN p = first ELSE p \in Onward(s, c[Len(c)])

ProducersOf(c) == {c[k].producer : k \in DOMAIN c}

(* A state says how its producer is reached from a seed.                    *)
Trail(s, z) ==
  /\ z.hops \in Seq(HopsOn(s)) /\ Len(z.hops) <= limits.hops
  /\ \E x \in ToSet(s.seeds) :
       /\ x.seed = z.seed
       /\ Chain(s, x.producer, z.hops) /\ LeadsTo(s, x.producer, z.hops, z.producer)
  /\ z.producer \notin ProducersOf(z.hops)
  /\ z.visited = ProducersOf(z.hops) \cup {z.producer}

(* A path that a queued state will lead to.                                 *)
Continues(hops, producer, y) ==
  /\ Len(hops) < Len(y.hops) /\ y.hops[Len(hops) + 1].producer = producer
  /\ hops = SubSeq(y.hops, 1, Len(hops))

WillLead(z, y) ==
  /\ z.seed = y.seed
  /\ \/ Continues(z.hops, z.producer, y)
     \/ z.hops = y.hops /\ y.end = "hop_limit" /\ y.at = {z.producer}

(* A path that the state being expanded will lead to.                       *)
WillVisit(y) ==
  /\ current.seed = y.seed /\ Continues(current.hops, current.producer, y)
  /\ \E v \in ToSet(visits) :
       /\ y.hops[Len(current.hops) + 1].route = v.route
       /\ y.hops[Len(current.hops) + 1].consumer = v.consumer

Pending(y) == (\E z \in ToSet(queue) : WillLead(z, y)) \/ (visits # <<>> /\ WillVisit(y))

Unlimited(f) == f.omitted = 0 /\ f.effectsOmitted = 0

(* What is reported can happen, and is told in full if nothing is omitted.  *)
Sound(s, f) ==
  \A x \in f.paths :
    /\ x.hops \in Seq(HopsOn(system[s]))
    /\ f.effectsOmitted = 0 => x \in AllPaths(system[s])

(* Nothing is lost of what can happen.                                      *)
Complete(s, f) ==
  Unlimited(f) =>
    \A y \in AllPaths(system[s]) : y \in f.paths \/ (s = side /\ Pending(y))

Trails ==
  /\ side \in Sides => \A z \in ToSet(queue) : Trail(Here, z)
  /\ visits # <<>> =>
       /\ Trail(Here, current) /\ Len(current.hops) < limits.hops
       /\ ToSet(visits) \subseteq ToSet(VisitsOf(current.producer))

SearchedInv ==
  /\ Trails
  /\ \A s \in Sides : Sound(s, found[s])
  /\ \A s \in Sides : s = "before" \/ side # "before" => Complete(s, found[s])

Cut(seed, c, end, p) == [seed |-> seed, hops |-> c, end |-> end, at |-> {p}, effects |-> 0]

(* What a chain of hops says, as PathsOf lists it.                          *)
Told(s, seed, c, y) ==
  \/ y = [seed |-> seed, hops |-> c, end |-> "none", at |-> {},
          effects |-> s.effects[c[Len(c)].producer][c[Len(c)].consumer]]
  \/ \E p \in Onward(s, c[Len(c)]) \cap ProducersOf(c) : y = Cut(seed, c, "cycle", p)
  \/ /\ Len(c) = limits.hops
     /\ \E p \in Onward(s, c[Len(c)]) \ ProducersOf(c) : y = Cut(seed, c, "hop_limit", p)

LEMMA HopsMean ==
  ASSUME NEW s, SideOK(s)
  PROVE  \A h : h \in HopsOn(s) <=>
           \E p \in Producers : \E r \in DOMAIN s.routes[p] :
             \E c \in ToSet(s.routes[p][r]) \cap s.handled :
               h = [producer |-> p, route |-> r, consumer |-> c]
BY DEF HopsOn

LEMMA PathsMean ==
  ASSUME NEW s, NEW seed, NEW c
  PROVE  \A y : y \in PathsOf(s, seed, c) <=> Told(s, seed, c, y)
<1> DEFINE last     == c[Len(c)]
           onward   == ToSet(s.onward[last.producer][last.consumer])
           repeated == {p \in onward : \E k \in DOMAIN c : c[k].producer = p}
           whole    == [seed |-> seed, hops |-> c, end |-> "none", at |-> {},
                        effects |-> s.effects[last.producer][last.consumer]]
<1>1. PathsOf(s, seed, c) =
        {whole} \cup {Cut(seed, c, "cycle", p) : p \in repeated}
          \cup (IF Len(c) = limits.hops
                THEN {Cut(seed, c, "hop_limit", p) : p \in onward \ repeated} ELSE {})
  BY DEF PathsOf, Cut
<1>2. repeated = Onward(s, last) \cap ProducersOf(c) /\ onward = Onward(s, last)
  BY DEF Onward, ProducersOf
<1>3. \A y : Told(s, seed, c, y) <=>
        \/ y = whole
        \/ \E p \in repeated : y = Cut(seed, c, "cycle", p)
        \/ Len(c) = limits.hops /\ \E p \in onward \ repeated : y = Cut(seed, c, "hop_limit", p)
  BY <1>2 DEF Told
<1> HIDE DEF whole, repeated, onward
<1>4. QED
  BY <1>1, <1>3

LEMMA ToldMeans ==
  ASSUME NEW s, NEW seed, NEW c, NEW y, Told(s, seed, c, y)
  PROVE  /\ y.seed = seed /\ y.hops = c
         /\ y.end = "none" =>
              y = [seed |-> seed, hops |-> c, end |-> "none", at |-> {},
                   effects |-> s.effects[c[Len(c)].producer][c[Len(c)].consumer]]
         /\ y.end = "cycle" =>
              \E p \in Onward(s, c[Len(c)]) \cap ProducersOf(c) : y = Cut(seed, c, "cycle", p)
         /\ y.end = "hop_limit" =>
              /\ Len(c) = limits.hops
              /\ \E p \in Onward(s, c[Len(c)]) \ ProducersOf(c) : y = Cut(seed, c, "hop_limit", p)
         /\ y.end \in {"none", "cycle", "hop_limit"}
<1>1. \A end, p : /\ Cut(seed, c, end, p).seed = seed /\ Cut(seed, c, end, p).hops = c
                  /\ Cut(seed, c, end, p).end = end
  BY DEF Cut
<1>2. QED
  BY <1>1 DEF Told

LEMMA ChainsMean ==
  ASSUME NEW s, NEW first, limits.hops \in Nat
  PROVE  \A c : c \in Chains(s, first) <=>
           c \in Seq(HopsOn(s)) /\ c # <<>> /\ Len(c) <= limits.hops /\ Chain(s, first, c)
<1> DEFINE H == HopsOn(s)
           n == limits.hops
<1>1. \A c : c \in SeqOf(H, n) <=> c \in Seq(H) /\ Len(c) <= n
  <2> HIDE DEF H, n
  <2>1. ASSUME NEW c \in SeqOf(H, n) PROVE c \in Seq(H) /\ Len(c) <= n
    <3>1. PICK m \in 0..n : c \in [1..m -> H]
      BY <2>1 DEF SeqOf
    <3>2. c \in Seq(H) /\ Len(c) = m
      BY <3>1
    <3>3. QED
      BY <3>1, <3>2 DEF n
  <2>2. ASSUME NEW c \in Seq(H), Len(c) <= n PROVE c \in SeqOf(H, n)
    <3>1. c \in [1..Len(c) -> H] /\ Len(c) \in 0..n
      BY <2>2 DEF n
    <3>2. QED
      BY <3>1 DEF SeqOf
  <2>3. QED
    BY <2>1, <2>2
<1>2. Chains(s, first) =
        {c \in SeqOf(H, n) \ {<<>>} :
           /\ c[1].producer = first
           /\ \A k \in 2..Len(c) : c[k].producer \in Onward(s, c[k - 1])
           /\ \A j, k \in DOMAIN c : c[j].producer = c[k].producer => j = k}
  BY DEF Chains, Onward
<1> HIDE DEF H, n
<1>3. \A c : c \in Chains(s, first) <=> c \in SeqOf(H, n) /\ c # <<>> /\ Chain(s, first, c)
  BY <1>2 DEF Chain
<1>4. QED
  BY <1>1, <1>3 DEF H, n

(* What can happen: what is said by the chains of hops from the seeds.      *)
LEMMA AllPathsMean ==
  ASSUME NEW s, limits.hops \in Nat
  PROVE  /\ \A x \in ToSet(s.seeds) : \A c \in Seq(HopsOn(s)) : \A y :
              /\ c # <<>> /\ Len(c) <= limits.hops /\ Chain(s, x.producer, c)
              /\ Told(s, x.seed, c, y)
              => y \in AllPaths(s)
         /\ \A y \in AllPaths(s) :
              /\ y.hops \in Seq(HopsOn(s)) /\ y.hops # <<>> /\ Len(y.hops) <= limits.hops
              /\ \E x \in ToSet(s.seeds) : x.seed = y.seed /\ Chain(s, x.producer, y.hops)
              /\ Told(s, y.seed, y.hops, y)
<1>1. \A y : y \in AllPaths(s) <=>
        \E x \in ToSet(s.seeds) : \E c \in Chains(s, x.producer) : Told(s, x.seed, c, y)
  BY PathsMean DEF AllPaths
<1>2. \A first, c : c \in Chains(s, first) <=>
        c \in Seq(HopsOn(s)) /\ c # <<>> /\ Len(c) <= limits.hops /\ Chain(s, first, c)
  BY ChainsMean
<1>3. \A seed, c, y : Told(s, seed, c, y) => y.seed = seed /\ y.hops = c
  BY DEF Told, Cut
<1>4. ASSUME NEW y \in AllPaths(s)
      PROVE  /\ y.hops \in Seq(HopsOn(s)) /\ y.hops # <<>> /\ Len(y.hops) <= limits.hops
             /\ \E x \in ToSet(s.seeds) : x.seed = y.seed /\ Chain(s, x.producer, y.hops)
             /\ Told(s, y.seed, y.hops, y)
  <2>1. PICK x \in ToSet(s.seeds) : \E c \in Chains(s, x.producer) : Told(s, x.seed, c, y)
    BY <1>1
  <2>2. PICK c \in Chains(s, x.producer) : Told(s, x.seed, c, y)
    BY <2>1
  <2>3. y.seed = x.seed /\ y.hops = c
    BY <1>3, <2>2
  <2>4. QED
    BY <1>2, <2>2, <2>3
<1>5. QED
  BY <1>1, <1>2, <1>4

LEMMA SamePaths ==
  ASSUME UNCHANGED <<system, limits>>
  PROVE  \A s \in Sides : AllPaths(system[s])' = AllPaths(system[s])
BY DEF AllPaths, Chains, PathsOf

(* A hop of the producer of a state makes its trail longer.                 *)
LongerTrail(s, z, h, c) ==
  /\ c \in Seq(HopsOn(s)) /\ c # <<>> /\ Len(c) = Len(z.hops) + 1 /\ Len(z.hops) \in Nat
  /\ c[Len(c)] = h /\ ProducersOf(c) = z.visited
  /\ \E x \in ToSet(s.seeds) : x.seed = z.seed /\ Chain(s, x.producer, c)

LEMMA TrailGoesOn ==
  ASSUME NEW s, NEW z, Trail(s, z), NEW h \in HopsOn(s), h.producer = z.producer
  PROVE  LongerTrail(s, z, h, Append(z.hops, h))
<1> DEFINE c == Append(z.hops, h)
<1>1. z.hops \in Seq(HopsOn(s)) /\ z.producer \notin ProducersOf(z.hops)
      /\ z.visited = ProducersOf(z.hops) \cup {z.producer}
  BY DEF Trail
<1> DEFINE t == z.hops
<1> HIDE DEF t
<1>2. /\ t \in Seq(HopsOn(s)) /\ Len(t) \in Nat /\ DOMAIN t = 1..Len(t) /\ t = z.hops
      /\ c \in Seq(HopsOn(s)) /\ Len(c) = Len(t) + 1 /\ DOMAIN c = 1..(Len(t) + 1)
      /\ c[Len(t) + 1] = h /\ \A k \in 1..Len(t) : c[k] = t[k]
  BY <1>1 DEF t
<1> HIDE DEF c
<1>3. ProducersOf(c) = z.visited
  <2>1. \A k : k \in DOMAIN c <=> k \in DOMAIN t \/ k = Len(t) + 1
    BY <1>2
  <2>2. QED
    BY <1>1, <1>2, <2>1 DEF ProducersOf, t
<1>4. PICK x \in ToSet(s.seeds) :
        x.seed = z.seed /\ Chain(s, x.producer, t) /\ LeadsTo(s, x.producer, t, z.producer)
  BY <1>2 DEF Trail
<1>5. Chain(s, x.producer, c)
  <2>1. c[1].producer = x.producer
    <3>1. CASE t = <<>>
      BY <1>2, <1>4, <3>1 DEF LeadsTo
    <3>2. CASE t # <<>>
      <4>1. 1 \in 1..Len(t)
        BY <1>2, <3>2
      <4>2. QED
        BY <1>2, <1>4, <3>2, <4>1 DEF Chain
    <3>3. QED
      BY <3>1, <3>2
  <2>2. ASSUME NEW k \in 2..Len(c)
        PROVE  c[k].producer \in Onward(s, c[k - 1])
    <3>1. k - 1 \in 1..Len(t)
      BY <1>2
    <3>2. CASE k = Len(c)
      <4>1. t # <<>> /\ k - 1 = Len(t)
        BY <1>2, <3>1, <3>2
      <4>2. z.producer \in Onward(s, t[Len(t)])
        BY <1>4, <4>1 DEF LeadsTo
      <4>3. QED
        BY <1>2, <3>1, <3>2, <4>1, <4>2
    <3>3. CASE k # Len(c)
      <4>1. k \in 2..Len(t)
        BY <1>2, <3>3
      <4>2. QED
        BY <1>2, <1>4, <3>1, <4>1 DEF Chain
    <3>4. QED
      BY <3>2, <3>3
  <2>3. ASSUME NEW j \in DOMAIN c, NEW k \in DOMAIN c, c[j].producer = c[k].producer
        PROVE  j = k
    <3>1. \A i \in 1..Len(t) : c[i].producer \in ProducersOf(t)
      BY <1>2 DEF ProducersOf
    <3>2. \A i \in DOMAIN c : i \in 1..Len(t) \/ i = Len(t) + 1
      BY <1>2
    <3>3. c[Len(t) + 1].producer \notin ProducersOf(t)
      BY <1>1, <1>2
    <3>4. CASE j \in 1..Len(t) /\ k \in 1..Len(t)
      BY <1>2, <1>4, <2>3, <3>4 DEF Chain
    <3>5. QED
      BY <2>3, <3>1, <3>2, <3>3, <3>4
  <2>4. QED
    BY <2>1, <2>2, <2>3 DEF Chain
<1>6. c # <<>>
  BY <1>2
<1>7. QED
  BY <1>2, <1>3, <1>4, <1>5, <1>6 DEF LongerTrail, c

LEMMA HopLimitType ==
  ASSUME SearchType
  PROVE  limits.hops \in Nat \ {0}
BY LimitsAssumption DEF SearchType

(* What it takes for a step of this side to keep what is known of both.     *)
LEMMA SideSearched ==
  ASSUME SearchedInv, found \in [Sides -> Counts], side \in Sides,
         UNCHANGED <<system, limits, side>>,
         NEW f, found' = [found EXCEPT ![side] = f],
         Trails', Sound(side, f),
         Unlimited(f) => \A y \in AllPaths(Here) : y \in f.paths \/ Pending(y)'
  PROVE  SearchedInv'
<1>1. found'[side] = f /\ \A s \in Sides \ {side} : found'[s] = found[s]
  OBVIOUS
<1>2. \A s \in Sides : AllPaths(system[s])' = AllPaths(system[s])
  BY SamePaths
<1>3. ASSUME NEW s \in Sides
      PROVE  Sound(s, found[s])'
  <2>1. Sound(s, found'[s])
    BY <1>1 DEF SearchedInv
  <2>2. QED
    BY <1>2, <2>1 DEF Sound
<1>4. ASSUME NEW s \in Sides, (s = "before" \/ side # "before")'
      PROVE  Complete(s, found[s])'
  <2>1. CASE s = side
    BY <1>1, <1>2, <2>1 DEF Complete, Here
  <2>2. CASE s # side
    <3>1. found'[s] = found[s] /\ Complete(s, found[s])
      BY <1>1, <1>4, <2>2 DEF SearchedInv
    <3>2. QED
      BY <1>2, <2>2, <3>1 DEF Complete
  <2>3. QED
    BY <2>1, <2>2
<1>5. QED
  BY <1>3, <1>4 DEF SearchedInv

LEMMA ThisSide ==
  ASSUME SearchedInv, side \in Sides
  PROVE  /\ Sound(side, found[side])
         /\ Unlimited(found[side]) => \A y \in AllPaths(Here) : y \in found[side].paths \/ Pending(y)
<1>1. Complete(side, found[side]) /\ Sound(side, found[side])
  BY DEF SearchedInv, Sides
<1>2. QED
  BY <1>1 DEF Complete, Here

LEMMA TakeSearches ==
  ASSUME SearchInv, SearchedInv, Take
  PROVE  SearchedInv'
<1> DEFINE z == Head(queue)
<1>1. /\ side \in Sides /\ UNCHANGED <<system, limits, side>> /\ queue # <<>> /\ visits = <<>>
      /\ queue' = Tail(queue) /\ current' = z
  BY DEF Take
<1>2. /\ queue \in Seq(States) /\ found \in [Sides -> Counts] /\ SideOK(Here)
      /\ limits.hops \in Nat \ {0}
  BY <1>1, HopLimitType DEF SearchInv, SearchType
<1>3. z \in States /\ \A w : w \in ToSet(queue) <=> w = z \/ w \in ToSet(queue')
  BY <1>1, <1>2, HeadAndTail
<1>4. Trail(Here, z) /\ \A w \in ToSet(queue') : Trail(Here, w)
  BY <1>1, <1>3 DEF SearchedInv, Trails
<1>5. /\ Counted \in Counts /\ Counted.paths = found[side].paths
      /\ Counted.omitted = found[side].omitted /\ Counted.effectsOmitted = found[side].effectsOmitted
  BY <1>1, <1>2, CountedIs
<1>6. /\ Sound(side, found[side])
      /\ Unlimited(found[side]) => \A y \in AllPaths(Here) : y \in found[side].paths \/ Pending(y)
  BY <1>1, ThisSide
<1> HIDE DEF z
<1>7. /\ z.hops \in Seq(HopsOn(Here)) /\ Len(z.hops) \in Nat /\ Len(z.hops) <= limits.hops
  BY <1>4 DEF Trail
<1>8. \A w : Trail(Here, w)' <=> Trail(Here, w)
  BY <1>1 DEF Trail, Here, Chain, LeadsTo
<1>9. ASSUME NEW y \in AllPaths(Here), Pending(y)
      PROVE  Pending(y)' \/ WillLead(z, y)
  <2>1. \E w \in ToSet(queue) : WillLead(w, y)
    BY <1>1, <1>9 DEF Pending
  <2>2. QED
    BY <1>3, <2>1 DEF Pending, WillLead, Continues
<1>10. \A y \in AllPaths(Here) :
         /\ y.hops \in Seq(HopsOn(Here)) /\ y.hops # <<>> /\ Len(y.hops) <= limits.hops
         /\ Len(y.hops) \in Nat /\ Told(Here, y.seed, y.hops, y)
  <2>1. \A y \in AllPaths(Here) :
          /\ y.hops \in Seq(HopsOn(Here)) /\ y.hops # <<>> /\ Len(y.hops) <= limits.hops
          /\ Told(Here, y.seed, y.hops, y)
    BY <1>2, AllPathsMean
  <2>2. QED
    BY <2>1
<1>11. CASE AtHopLimit(z)
  <2> DEFINE x == Cut(z.seed, z.hops, "hop_limit", z.producer)
             f == AddPath(Counted, x)
  <2>1. found' = [found EXCEPT ![side] = f] /\ visits' = <<>>
    BY <1>1, <1>11 DEF Take, z, Cut
  <2>2. Len(z.hops) = limits.hops
    BY <1>2, <1>7, <1>11 DEF AtHopLimit
  <2>3. x \in AllPaths(Here) /\ x.hops = z.hops
    <3>1. PICK e \in ToSet(Here.seeds) :
            /\ e.seed = z.seed
            /\ Chain(Here, e.producer, z.hops) /\ LeadsTo(Here, e.producer, z.hops, z.producer)
      BY <1>4 DEF Trail
    <3>2. z.hops # <<>>
      BY <1>2, <2>2
    <3>3. z.producer \in Onward(Here, z.hops[Len(z.hops)]) \ ProducersOf(z.hops)
      BY <1>4, <3>1, <3>2 DEF Trail, LeadsTo
    <3>4. Told(Here, e.seed, z.hops, x)
      BY <2>2, <3>1, <3>3 DEF Told
    <3>5. QED
      BY <1>2, <1>7, <3>1, <3>2, <3>4, AllPathsMean DEF Cut
  <2>4. x \in Paths
    BY <1>3 DEF Cut, States, Paths, Ends
  <2> HIDE DEF x
  <2>5. /\ f \in Counts /\ Counted.paths \subseteq f.paths
        /\ f.paths \subseteq Counted.paths \cup {x} /\ f.omitted >= Counted.omitted
        /\ f.omitted = Counted.omitted => x \in f.paths
        /\ f.effectsOmitted = Counted.effectsOmitted
    BY <1>5, <2>4, AddPathType, AddPathAdds
  <2> HIDE DEF f
  <2>6. Sound(side, f)
    BY <1>5, <1>6, <1>7, <2>3, <2>5 DEF Sound, Here
  <2>7. Trails'
    <3>1. ASSUME side' \in Sides, NEW w \in ToSet(queue')
          PROVE  Trail(Here, w)'
      BY <1>4, <1>8, <3>1
    <3>2. QED
      BY <2>1, <3>1 DEF Trails
  <2>8. ASSUME Unlimited(f), NEW y \in AllPaths(Here)
        PROVE  y \in f.paths \/ Pending(y)'
    <3>1. Unlimited(found[side]) /\ x \in f.paths
      BY <1>5, <2>5, <2>8 DEF Unlimited, Counts
    <3>2. CASE y \in found[side].paths
      BY <1>5, <2>5, <3>2
    <3>3. CASE WillLead(z, y)
      <4>1. ~(Len(z.hops) < Len(y.hops))
        BY <1>7, <1>10, <2>2
      <4>2. z.seed = y.seed /\ z.hops = y.hops /\ y.end = "hop_limit" /\ y.at = {z.producer}
        BY <3>3, <4>1 DEF WillLead, Continues
      <4>3. \E p : y = Cut(y.seed, y.hops, "hop_limit", p)
        BY <1>10, <4>2, ToldMeans
      <4>4. PICK p : y = Cut(y.seed, y.hops, "hop_limit", p)
        BY <4>3
      <4>5. {p} = {z.producer}
        BY <4>2, <4>4 DEF Cut
      <4>6. y = x
        BY <4>2, <4>4, <4>5 DEF x
      <4>7. QED
        BY <3>1, <4>6
    <3>4. QED
      BY <1>6, <1>9, <3>1, <3>2, <3>3
  <2>9. QED
    BY <1>1, <1>2, <2>1, <2>6, <2>7, <2>8, SideSearched
<1>12. CASE ~AtHopLimit(z)
  <2>1. found' = [found EXCEPT ![side] = Counted] /\ visits' = VisitsOf(z.producer)
    BY <1>1, <1>12 DEF Take, z
  <2>2. Len(z.hops) < limits.hops
    BY <1>2, <1>7, <1>12 DEF AtHopLimit
  <2>3. Sound(side, Counted)
    BY <1>5, <1>6 DEF Sound
  <2>4. VisitsOf(current.producer)' = VisitsOf(z.producer)
    BY <1>1 DEF VisitsOf, Here
  <2>5. Trails'
    <3>1. ASSUME side' \in Sides, NEW w \in ToSet(queue')
          PROVE  Trail(Here, w)'
      BY <1>4, <1>8, <3>1
    <3>2. Trail(Here, current)'
      BY <1>1, <1>4 DEF Trail, Here, Chain, LeadsTo
    <3>3. QED
      BY <1>1, <2>1, <2>2, <2>4, <3>1, <3>2 DEF Trails
  <2>6. ASSUME NEW y \in AllPaths(Here), WillLead(z, y)
        PROVE  Pending(y)'
    <3>1. y.end # "hop_limit" \/ Len(y.hops) = limits.hops
      BY <1>10, ToldMeans
    <3>2. z.seed = y.seed /\ Continues(z.hops, z.producer, y)
      BY <2>2, <2>6, <3>1 DEF WillLead
    <3> DEFINE h == y.hops[Len(z.hops) + 1]
    <3>3. h \in HopsOn(Here) /\ h.producer = z.producer
      BY <1>7, <1>10, <3>2 DEF Continues
    <3>4. PICK r \in DOMAIN Here.routes[z.producer] :
            \E c \in ToSet(Here.routes[z.producer][r]) :
              h.route = r /\ h.consumer = c
      <4> HIDE DEF h
      <4>1. PICK p \in Producers : \E r \in DOMAIN Here.routes[p] :
              \E c \in ToSet(Here.routes[p][r]) \cap Here.handled :
                h = [producer |-> p, route |-> r, consumer |-> c]
        BY <1>2, <3>3, HopsMean
      <4>2. p = z.producer
        BY <3>3, <4>1
      <4>3. QED
        BY <4>1, <4>2
    <3>5. PICK c \in ToSet(Here.routes[z.producer][r]) : h.route = r /\ h.consumer = c
      BY <3>4
    <3>6. [route |-> r, consumer |-> c] \in ToSet(VisitsOf(z.producer))
      <4>1. z.producer \in Producers
        BY <1>3 DEF States
      <4>2. QED
        BY <1>2, <3>5, <4>1, VisitsOfAre
    <3>7. \E v \in ToSet(visits') : h.route = v.route /\ h.consumer = v.consumer
      BY <2>1, <3>5, <3>6
    <3>8. visits' # <<>>
      BY <3>7 DEF ToSet
    <3>9. WillVisit(y)'
      BY <1>1, <3>2, <3>7 DEF WillVisit, Continues
    <3>10. QED
      BY <3>8, <3>9 DEF Pending
  <2>7. ASSUME Unlimited(Counted), NEW y \in AllPaths(Here)
        PROVE  y \in Counted.paths \/ Pending(y)'
    BY <1>5, <1>6, <1>9, <2>6, <2>7 DEF Unlimited
  <2>8. QED
    BY <1>1, <1>2, <2>1, <2>3, <2>5, <2>7, SideSearched
<1>13. QED
  BY <1>11, <1>12

(* The hop that the next visit is about.                                    *)
ThisHop ==
  [producer |-> current.producer, route |-> Head(visits).route, consumer |-> Head(visits).consumer]

LEMMA ThisHopIs ==
  ASSUME SearchType, Trails, visits # <<>>, Head(visits).consumer \in Here.handled
  PROVE  /\ ThisHop \in HopsOn(Here) /\ Arrived = Append(current.hops, ThisHop)
         /\ ToSet(OnwardHere) = Onward(Here, ThisHop)
         /\ EffectsHere = Here.effects[ThisHop.producer][ThisHop.consumer]
<1>1. /\ side \in Sides /\ SideOK(Here) /\ current.producer \in Producers /\ visits \in Seq(Visits)
  BY VisitType DEF SearchType
<1>2. Head(visits) \in ToSet(VisitsOf(current.producer))
  BY <1>1, HeadAndTail DEF Trails
<1>3. PICK r \in DOMAIN Here.routes[current.producer] :
        \E c \in ToSet(Here.routes[current.producer][r]) :
          Head(visits) = [route |-> r, consumer |-> c]
  BY <1>1, <1>2, VisitsOfAre
<1>4. ThisHop \in HopsOn(Here)
  BY <1>1, <1>3, HopsMean DEF ThisHop
<1>5. QED
  BY <1>4 DEF ThisHop, Arrived, OnwardHere, Onward, EffectsHere

(* Of a path that the state being expanded will lead to, the rest comes     *)
(* with the other visits, or this visit reports it or queues what leads on. *)
LEMMA VisitLeads ==
  ASSUME SearchType, Trails, visits # <<>>, Head(visits).consumer \in Here.handled,
         EffectsHere - KeptEffects = 0,
         NEW y \in AllPaths(Here), WillVisit(y)
  PROVE  \/ y \in ToSet(NewPaths)
         \/ \E z \in ToSet(NewStates) : WillLead(z, y)
         \/ /\ current.seed = y.seed /\ Continues(current.hops, current.producer, y)
            /\ \E v \in ToSet(Tail(visits)) :
                 /\ y.hops[Len(current.hops) + 1].route = v.route
                 /\ y.hops[Len(current.hops) + 1].consumer = v.consumer
<1> DEFINE n    == Len(current.hops)
           hops == y.hops
<1>1. /\ side \in Sides /\ SideOK(Here) /\ visits \in Seq(Visits) /\ Trail(Here, current)
      /\ limits.hops \in Nat \ {0} /\ EffectsHere \in Nat /\ KeptEffects \in Nat
  BY VisitType, HopLimitType DEF SearchType, Trails
<1>2. /\ ThisHop \in HopsOn(Here) /\ Arrived = Append(current.hops, ThisHop)
      /\ ToSet(OnwardHere) = Onward(Here, ThisHop)
      /\ EffectsHere = Here.effects[ThisHop.producer][ThisHop.consumer]
      /\ ThisHop.producer = current.producer
  BY ThisHopIs DEF ThisHop
<1>3. /\ Arrived \in Seq(HopsOn(Here)) /\ Len(Arrived) = n + 1 /\ n \in Nat
      /\ Arrived[n + 1] = ThisHop /\ ProducersOf(Arrived) = current.visited
  <2>1. /\ Arrived \in Seq(HopsOn(Here)) /\ Len(Arrived) = Len(current.hops) + 1
        /\ Len(current.hops) \in Nat /\ Arrived[Len(Arrived)] = ThisHop
        /\ ProducersOf(Arrived) = current.visited
    BY <1>1, <1>2, TrailGoesOn DEF LongerTrail
  <2>2. QED
    BY <2>1
<1>4. /\ hops \in Seq(HopsOn(Here)) /\ Len(hops) <= limits.hops
      /\ \E x \in ToSet(Here.seeds) : x.seed = y.seed /\ Chain(Here, x.producer, hops)
      /\ Told(Here, y.seed, hops, y)
  BY <1>1, AllPathsMean
<1>5. /\ current.seed = y.seed /\ n < Len(hops) /\ hops[n + 1].producer = current.producer
      /\ current.hops = SubSeq(hops, 1, n)
  BY DEF WillVisit, Continues
<1>6. PICK v \in ToSet(visits) : hops[n + 1].route = v.route /\ hops[n + 1].consumer = v.consumer
  BY DEF WillVisit
<1>7. v = Head(visits) \/ v \in ToSet(Tail(visits))
  BY <1>1, HeadAndTail
<1>8. CASE v \in ToSet(Tail(visits))
  BY <1>5, <1>6, <1>8 DEF Continues
<1>9. CASE v = Head(visits)
  <2> HIDE DEF hops, n
  <2>1. hops[n + 1] = ThisHop
    <3>1. n + 1 \in DOMAIN hops /\ hops[n + 1] \in HopsOn(Here)
      BY <1>3, <1>4, <1>5
    <3>2. hops[n + 1] = [producer |-> hops[n + 1].producer, route |-> hops[n + 1].route,
                         consumer |-> hops[n + 1].consumer]
      BY <1>1, <3>1, HopsMean
    <3>3. QED
      BY <1>5, <1>6, <1>9, <3>2 DEF ThisHop
  <2>2. Arrived = SubSeq(hops, 1, n + 1)
    <3>1. /\ Len(SubSeq(hops, 1, n)) = n /\ Len(SubSeq(hops, 1, n + 1)) = n + 1
          /\ SubSeq(hops, 1, n) \in Seq(HopsOn(Here)) /\ SubSeq(hops, 1, n + 1) \in Seq(HopsOn(Here))
          /\ \A k \in 1..n : SubSeq(hops, 1, n)[k] = hops[k]
          /\ \A k \in 1..(n + 1) : SubSeq(hops, 1, n + 1)[k] = hops[k]
      BY <1>3, <1>4, <1>5
    <3>2. \A k \in 1..n : Arrived[k] = hops[k]
      BY <1>2, <1>3, <1>5, <3>1
    <3>3. \A k \in 1..(n + 1) : k \in 1..n \/ k = n + 1
      BY <1>3
    <3>4. \A k \in 1..(n + 1) : Arrived[k] = SubSeq(hops, 1, n + 1)[k]
      BY <1>3, <2>1, <3>1, <3>2, <3>3
    <3>5. QED
      BY <1>3, <3>1, <3>4
  <2>3. CASE Len(hops) = n + 1
    <3>1. hops = Arrived /\ hops[Len(hops)] = ThisHop
      BY <1>4, <2>1, <2>2, <2>3
    <3>2. Told(Here, current.seed, Arrived, y)
      BY <1>4, <1>5, <3>1
    <3>3. CASE y.end = "none"
      <4>1. KeptEffects = EffectsHere
        BY <1>1
      <4>2. y = Path(Arrived, "none", {}, KeptEffects)
        <5>1. y = [seed |-> current.seed, hops |-> Arrived, end |-> "none", at |-> {},
                   effects |-> Here.effects[Arrived[Len(Arrived)].producer]
                                           [Arrived[Len(Arrived)].consumer]]
          BY <3>2, <3>3, ToldMeans
        <5>2. QED
          BY <1>2, <1>3, <4>1, <5>1 DEF Path
      <4>3. QED
        BY <4>2, NewPathsAre
    <3>4. CASE y.end = "cycle"
      <4>1. PICK p \in Onward(Here, ThisHop) \cap ProducersOf(Arrived) :
              y = Cut(current.seed, Arrived, "cycle", p)
        BY <1>3, <3>2, <3>4, ToldMeans
      <4>2. p \in ToSet(OnwardHere) \cap current.visited /\ y = Path(Arrived, "cycle", {p}, 0)
        BY <1>2, <1>3, <4>1 DEF Cut, Path
      <4>3. QED
        BY <4>2, NewPathsAre
    <3>5. CASE y.end = "hop_limit"
      <4>1. PICK p \in Onward(Here, ThisHop) \ ProducersOf(Arrived) :
              y = Cut(current.seed, Arrived, "hop_limit", p)
        BY <1>3, <3>2, <3>5, ToldMeans
      <4> DEFINE z == [seed |-> current.seed, producer |-> p, hops |-> Arrived,
                       visited |-> current.visited \cup {p}]
      <4>2. z \in ToSet(NewStates)
        BY <1>2, <1>3, <4>1, NewStatesAre
      <4>3. WillLead(z, y)
        BY <4>1 DEF WillLead, Cut
      <4>4. QED
        BY <4>2, <4>3
    <3>6. QED
      BY <3>2, <3>3, <3>4, <3>5, ToldMeans
  <2>4. CASE Len(hops) # n + 1
    <3>1. n + 2 \in 2..Len(hops) /\ (n + 2) - 1 = n + 1 /\ n + 2 \in DOMAIN hops
          /\ Len(hops) \in Nat /\ n + 1 < Len(hops)
      BY <1>3, <1>4, <1>5, <2>4
    <3> DEFINE p == hops[n + 2].producer
    <3>2. p \in Onward(Here, ThisHop)
      BY <1>4, <2>1, <3>1 DEF Chain
    <3>3. p \notin ProducersOf(Arrived)
      <4>1. ASSUME NEW k \in DOMAIN Arrived
            PROVE  Arrived[k].producer # p
        <5>1. k \in 1..(n + 1) /\ k \in DOMAIN hops /\ k # n + 2
          BY <1>3, <1>4, <3>1
        <5>2. Arrived[k] = hops[k]
          BY <1>3, <1>4, <2>2, <3>1, <5>1
        <5>3. QED
          BY <1>4, <3>1, <5>1, <5>2 DEF Chain
      <4>2. QED
        BY <4>1 DEF ProducersOf
    <3> DEFINE z == [seed |-> current.seed, producer |-> p, hops |-> Arrived,
                     visited |-> current.visited \cup {p}]
    <3>4. z \in ToSet(NewStates)
      BY <1>2, <1>3, <3>2, <3>3, NewStatesAre
    <3>5. Continues(Arrived, p, y)
      BY <1>3, <2>2, <3>1 DEF Continues, hops
    <3>6. WillLead(z, y)
      BY <1>5, <3>5 DEF WillLead
    <3>7. QED
      BY <3>4, <3>6
  <2>5. QED
    BY <2>3, <2>4
<1>10. QED
  BY <1>7, <1>8, <1>9

LEMMA VisitSearches ==
  ASSUME SearchInv, SearchedInv, Visit
  PROVE  SearchedInv'
<1> DEFINE base == [Counted EXCEPT !.effectsOmitted = @ + (EffectsHere - KeptEffects)]
           f    == AddTo(base, NewPaths)
<1>1. /\ visits # <<>> /\ UNCHANGED <<system, limits, side, current>>
      /\ found' = [found EXCEPT ![side] = f]
      /\ queue' = queue \o NewStates /\ visits' = Tail(visits)
      /\ Head(visits).consumer \in Here.handled
  BY DEF Visit, AddTo
<1>2. /\ side \in Sides /\ found \in [Sides -> Counts] /\ SideOK(Here) /\ queue \in Seq(States)
      /\ SearchType /\ Trails /\ limits.hops \in Nat \ {0} /\ visits \in Seq(Visits)
      /\ EffectsHere \in Nat /\ KeptEffects \in Nat /\ EffectsHere - KeptEffects \in Nat
  BY <1>1, VisitType, HopLimitType DEF SearchInv, SearchType, SearchedInv
<1>3. /\ Sound(side, found[side])
      /\ Unlimited(found[side]) => \A y \in AllPaths(Here) : y \in found[side].paths \/ Pending(y)
  BY <1>2, ThisSide
<1>4. /\ base \in Counts /\ base.paths = found[side].paths /\ base.omitted = found[side].omitted
      /\ base.effectsOmitted = found[side].effectsOmitted + (EffectsHere - KeptEffects)
      /\ base.effectsOmitted = 0 => found[side].effectsOmitted = 0 /\ EffectsHere - KeptEffects = 0
  <2>1. Counted \in Counts /\ Counted.paths = found[side].paths
        /\ Counted.omitted = found[side].omitted
        /\ Counted.effectsOmitted = found[side].effectsOmitted
    BY <1>2, CountedIs
  <2>2. Counted.effectsOmitted \in Nat
    BY <2>1 DEF Counts
  <2>3. base \in Counts /\ base.paths = found[side].paths /\ base.omitted = found[side].omitted
        /\ base.effectsOmitted = Counted.effectsOmitted + (EffectsHere - KeptEffects)
    <3> DEFINE g == Counted
               n == g.effectsOmitted + (EffectsHere - KeptEffects)
    <3>1. g \in Counts /\ n \in Nat
      BY <1>2, <2>1, <2>2
    <3>2. base = [g EXCEPT !.effectsOmitted = n]
      BY <2>1
    <3> HIDE DEF g, n
    <3>3. LET k == [g EXCEPT !.effectsOmitted = n]
          IN  k \in Counts /\ k.paths = g.paths /\ k.omitted = g.omitted /\ k.effectsOmitted = n
      BY <3>1 DEF Counts
    <3> HIDE DEF base
    <3>4. base \in Counts /\ base.paths = g.paths /\ base.omitted = g.omitted
          /\ base.effectsOmitted = n
      BY <3>2, <3>3
    <3>5. QED
      BY <2>1, <3>4 DEF g, n
  <2> HIDE DEF base
  <2>4. QED
    BY <1>2, <2>1, <2>2, <2>3
<1>5. NewPaths \in Seq(Paths)
  BY <1>1, <1>2, NewPathsAre
<1> HIDE DEF base
<1>6. /\ f \in Counts /\ base.paths \subseteq f.paths
      /\ f.paths \subseteq base.paths \cup ToSet(NewPaths)
      /\ f.omitted >= base.omitted
      /\ f.omitted = base.omitted => ToSet(NewPaths) \subseteq f.paths
      /\ f.effectsOmitted = base.effectsOmitted
  BY <1>4, <1>5, AddToAdds
<1> HIDE DEF f
<1>7. /\ Trail(Here, current) /\ Len(current.hops) < limits.hops
      /\ ThisHop \in HopsOn(Here) /\ Arrived = Append(current.hops, ThisHop)
      /\ ToSet(OnwardHere) = Onward(Here, ThisHop)
      /\ EffectsHere = Here.effects[ThisHop.producer][ThisHop.consumer]
      /\ ThisHop.producer = current.producer
  BY <1>1, <1>2, ThisHopIs DEF ThisHop, Trails
<1>8. LongerTrail(Here, current, ThisHop, Arrived)
  BY <1>7, TrailGoesOn
<1>9. /\ Arrived \in Seq(HopsOn(Here)) /\ Arrived # <<>> /\ Arrived[Len(Arrived)] = ThisHop
      /\ Len(Arrived) <= limits.hops /\ ProducersOf(Arrived) = current.visited
  <2>1. Len(Arrived) = Len(current.hops) + 1 /\ Len(current.hops) \in Nat
    BY <1>8 DEF LongerTrail
  <2>2. Len(Arrived) <= limits.hops
    BY <1>2, <1>7, <2>1
  <2>3. QED
    BY <1>8, <2>2 DEF LongerTrail
<1>10. PICK e \in ToSet(Here.seeds) : e.seed = current.seed /\ Chain(Here, e.producer, Arrived)
  BY <1>8 DEF LongerTrail
<1>11. ASSUME NEW x \in ToSet(NewPaths)
       PROVE  /\ x.hops = Arrived
              /\ EffectsHere - KeptEffects = 0 => x \in AllPaths(Here)
  <2>1. \/ x = Path(Arrived, "none", {}, KeptEffects)
        \/ \E p \in ToSet(OnwardHere) \cap current.visited : x = Path(Arrived, "cycle", {p}, 0)
    BY <1>1, <1>2, <1>11, NewPathsAre
  <2>2. x.hops = Arrived
    BY <2>1 DEF Path
  <2>3. ASSUME EffectsHere - KeptEffects = 0
        PROVE  Told(Here, current.seed, Arrived, x)
    <3>1. KeptEffects = EffectsHere
      BY <1>2, <2>3
    <3>2. CASE x = Path(Arrived, "none", {}, KeptEffects)
      BY <1>7, <1>9, <3>1, <3>2 DEF Told, Path
    <3>3. CASE \E p \in ToSet(OnwardHere) \cap current.visited : x = Path(Arrived, "cycle", {p}, 0)
      BY <1>7, <1>9, <3>3 DEF Told, Path, Cut
    <3>4. QED
      BY <2>1, <3>2, <3>3
  <2>4. ASSUME EffectsHere - KeptEffects = 0
        PROVE  x \in AllPaths(Here)
    <3>1. Told(Here, e.seed, Arrived, x)
      BY <1>10, <2>3, <2>4
    <3>2. QED
      BY <1>2, <1>9, <1>10, <3>1, AllPathsMean
  <2>5. QED
    BY <2>2, <2>4
<1>12. Sound(side, f)
  <2>1. ASSUME NEW x \in f.paths
        PROVE  /\ x.hops \in Seq(HopsOn(system[side]))
               /\ f.effectsOmitted = 0 => x \in AllPaths(system[side])
    <3>1. CASE x \in found[side].paths
      BY <1>3, <1>4, <1>6, <3>1 DEF Sound
    <3>2. CASE x \in ToSet(NewPaths)
      BY <1>4, <1>6, <1>9, <1>11, <3>2 DEF Here
    <3>3. QED
      BY <1>4, <1>6, <3>1, <3>2
  <2>2. QED
    BY <2>1 DEF Sound
<1>13. /\ NewStates \in Seq(States)
       /\ \A z : z \in ToSet(queue') <=> z \in ToSet(queue) \/ z \in ToSet(NewStates)
  BY <1>1, <1>2, NewStatesAre, JoinedElements
<1>14. ASSUME NEW z \in ToSet(NewStates)
       PROVE  Trail(Here, z)
  <2>1. PICK p \in ToSet(OnwardHere) \ current.visited :
          z = [seed |-> current.seed, producer |-> p, hops |-> Arrived,
               visited |-> current.visited \cup {p}]
    BY <1>1, <1>2, NewStatesAre
  <2>2. /\ z.hops = Arrived /\ z.producer = p /\ z.seed = current.seed
        /\ z.visited = current.visited \cup {p}
    BY <2>1
  <2>3. LeadsTo(Here, e.producer, Arrived, p)
    BY <1>7, <1>9, <2>1 DEF LeadsTo
  <2>4. QED
    BY <1>9, <1>10, <2>1, <2>2, <2>3 DEF Trail
<1>15. \A w : Trail(Here, w)' <=> Trail(Here, w)
  BY <1>1 DEF Trail, Here, Chain, LeadsTo
<1>16. Trails'
  <2>1. ASSUME NEW z \in ToSet(queue')
        PROVE  Trail(Here, z)'
    <3>1. Trail(Here, z)
      BY <1>2, <1>13, <1>14, <2>1 DEF Trails
    <3>2. QED
      BY <1>15, <3>1
  <2>2. Trail(Here, current)'
    BY <1>1, <1>7 DEF Trail, Here, Chain, LeadsTo
  <2>3. ToSet(visits') \subseteq ToSet(VisitsOf(current.producer))'
    <3>1. ToSet(visits') \subseteq ToSet(visits)
      BY <1>1, <1>2, HeadAndTail
    <3>2. VisitsOf(current.producer)' = VisitsOf(current.producer)
      BY <1>1 DEF VisitsOf, Here
    <3>3. QED
      BY <1>1, <1>2, <3>1, <3>2 DEF Trails
  <2>4. QED
    BY <1>1, <1>7, <2>1, <2>2, <2>3 DEF Trails
<1>17. ASSUME Unlimited(f), NEW y \in AllPaths(Here)
       PROVE  y \in f.paths \/ Pending(y)'
  <2>1. /\ Unlimited(found[side]) /\ EffectsHere - KeptEffects = 0 /\ ToSet(NewPaths) \subseteq f.paths
    BY <1>4, <1>6, <1>17 DEF Unlimited, Counts
  <2>2. CASE y \in found[side].paths
    BY <1>4, <1>6, <2>2
  <2>3. CASE \E z \in ToSet(queue') : WillLead(z, y)
    BY <2>3 DEF Pending, WillLead, Continues
  <2>4. CASE WillVisit(y)
    <3>1. CASE /\ current.seed = y.seed /\ Continues(current.hops, current.producer, y)
               /\ \E v \in ToSet(Tail(visits)) :
                    /\ y.hops[Len(current.hops) + 1].route = v.route
                    /\ y.hops[Len(current.hops) + 1].consumer = v.consumer
      <4>1. WillVisit(y)'
        BY <1>1, <3>1 DEF WillVisit, Continues
      <4>2. visits' # <<>>
        BY <1>1, <3>1 DEF ToSet
      <4>3. QED
        BY <4>1, <4>2 DEF Pending
    <3>2. CASE y \in ToSet(NewPaths)
      BY <2>1, <3>2
    <3>3. CASE \E z \in ToSet(NewStates) : WillLead(z, y)
      BY <1>13, <2>3, <3>3
    <3>4. QED
      BY <1>1, <1>2, <2>1, <2>4, <3>1, <3>2, <3>3, VisitLeads
  <2>5. QED
    BY <1>3, <1>13, <2>1, <2>2, <2>3, <2>4 DEF Pending
<1>18. QED
  BY <1>1, <1>2, <1>12, <1>16, <1>17, SideSearched

(* Without a handler trace there is no hop.                                 *)
LEMMA PassOverSearches ==
  ASSUME SearchInv, SearchedInv, PassOver
  PROVE  SearchedInv'
<1>1. /\ visits # <<>> /\ UNCHANGED <<system, limits, side, queue, current>>
      /\ found' = [found EXCEPT ![side] = Counted] /\ visits' = Tail(visits)
      /\ Head(visits).consumer \notin Here.handled
  BY DEF PassOver
<1>2. /\ side \in Sides /\ found \in [Sides -> Counts] /\ SideOK(Here) /\ visits \in Seq(Visits)
      /\ limits.hops \in Nat \ {0} /\ SearchType /\ Trails
  BY <1>1, VisitType, HopLimitType DEF SearchInv, SearchType, SearchedInv
<1>3. /\ Sound(side, found[side])
      /\ Unlimited(found[side]) => \A y \in AllPaths(Here) : y \in found[side].paths \/ Pending(y)
  BY <1>2, ThisSide
<1>4. /\ Counted.paths = found[side].paths /\ Counted.omitted = found[side].omitted
      /\ Counted.effectsOmitted = found[side].effectsOmitted
  BY <1>2, CountedIs
<1>5. Sound(side, Counted)
  BY <1>3, <1>4 DEF Sound
<1>6. /\ \A w \in ToSet(queue') : Trail(Here, w)'
      /\ Trail(Here, current)'
  BY <1>1, <1>2 DEF Trails, Trail, Here, Chain, LeadsTo
<1>7. \A v : v \in ToSet(visits) <=> v = Head(visits) \/ v \in ToSet(visits')
  BY <1>1, <1>2, HeadAndTail
<1>8. Trails'
  <2>1. VisitsOf(current.producer)' = VisitsOf(current.producer)
    BY <1>1 DEF VisitsOf, Here
  <2>2. ToSet(visits') \subseteq ToSet(VisitsOf(current.producer))
    BY <1>1, <1>2, <1>7 DEF Trails
  <2>3. Len(current.hops) < limits.hops
    BY <1>1, <1>2 DEF Trails
  <2>4. QED
    BY <1>1, <1>6, <2>1, <2>2, <2>3 DEF Trails
<1>9. ASSUME NEW y \in AllPaths(Here), Pending(y)
      PROVE  Pending(y)'
  <2>1. CASE \E z \in ToSet(queue) : WillLead(z, y)
    BY <1>1, <2>1 DEF Pending, WillLead, Continues
  <2>2. CASE WillVisit(y)
    <3> DEFINE h == y.hops[Len(current.hops) + 1]
    <3>1. PICK v \in ToSet(visits) : h.route = v.route /\ h.consumer = v.consumer
      BY <2>2 DEF WillVisit
    <3>2. h \in HopsOn(Here)
      <4>1. y.hops \in Seq(HopsOn(Here))
        BY <1>2, AllPathsMean
      <4>2. Len(current.hops) < Len(y.hops) /\ Len(current.hops) \in Nat
        BY <1>2, <1>1, <2>2 DEF WillVisit, Continues, Trails, Trail
      <4>3. QED
        BY <4>1, <4>2
    <3>3. h.consumer \in Here.handled
      <4> HIDE DEF h
      <4>1. QED
        BY <1>2, <3>2, HopsMean
    <3>4. v \in ToSet(visits')
      BY <1>1, <1>7, <3>1, <3>3
    <3>5. WillVisit(y)'
      BY <1>1, <2>2, <3>1, <3>4 DEF WillVisit, Continues
    <3>6. visits' # <<>>
      BY <3>4 DEF ToSet
    <3>7. QED
      BY <3>5, <3>6 DEF Pending
  <2>3. QED
    BY <1>9, <2>1, <2>2 DEF Pending
<1>10. Unlimited(Counted) => \A y \in AllPaths(Here) : y \in Counted.paths \/ Pending(y)'
  BY <1>3, <1>4, <1>9 DEF Unlimited
<1>11. QED
  BY <1>1, <1>2, <1>5, <1>8, <1>10, SideSearched

(* The limit on states counts what it cuts off, so that nothing is claimed. *)
LEMMA LimitCounts ==
  ASSUME found \in [Sides -> Counts], side \in Sides, NEW more \in Nat \ {0},
         found' = [found EXCEPT ![side].stopped = TRUE, ![side].omitted = @ + more]
  PROVE  \E f : /\ found' = [found EXCEPT ![side] = f]
                /\ f.paths = found[side].paths /\ f.effectsOmitted = found[side].effectsOmitted
                /\ ~Unlimited(f)
<1> DEFINE g == found[side]
           f == [g EXCEPT !.stopped = TRUE, !.omitted = @ + more]
<1>1. g \in Counts
  OBVIOUS
<1>2. found' = [found EXCEPT ![side] = f]
  OBVIOUS
<1> HIDE DEF g
<1>3. f.paths = g.paths /\ f.effectsOmitted = g.effectsOmitted /\ f.omitted = g.omitted + more
  BY <1>1 DEF Counts
<1>4. g.omitted \in Nat
  BY <1>1 DEF Counts
<1> HIDE DEF f
<1>5. ~Unlimited(f)
  BY <1>3, <1>4 DEF Unlimited
<1>6. QED
  BY <1>2, <1>3, <1>5 DEF g

LEMMA SkipRouteSearches ==
  ASSUME SearchInv, SearchedInv, SkipRoute
  PROVE  SearchedInv'
<1>1. /\ visits # <<>> /\ UNCHANGED <<system, limits, side, queue, current>>
      /\ found' = [found EXCEPT ![side].stopped = TRUE, ![side].omitted = @ + 1]
      /\ visits' = Only(visits, {v \in ToSet(visits) : v.route # Head(visits).route})
  BY DEF SkipRoute
<1>2. /\ side \in Sides /\ found \in [Sides -> Counts] /\ visits \in Seq(Visits) /\ Trails
      /\ 1 \in Nat \ {0}
  BY <1>1, VisitType DEF SearchInv, SearchType, SearchedInv
<1>3. PICK f : /\ found' = [found EXCEPT ![side] = f]
               /\ f.paths = found[side].paths /\ f.effectsOmitted = found[side].effectsOmitted
               /\ ~Unlimited(f)
  BY <1>1, <1>2, LimitCounts
<1>4. Sound(side, f)
  BY <1>2, <1>3, ThisSide DEF Sound
<1>5. Trails'
  <2>1. /\ \A w \in ToSet(queue') : Trail(Here, w)'
        /\ Trail(Here, current)'
    BY <1>1, <1>2 DEF Trails, Trail, Here, Chain, LeadsTo
  <2>2. VisitsOf(current.producer)' = VisitsOf(current.producer)
    BY <1>1 DEF VisitsOf, Here
  <2>3. ToSet(visits') \subseteq ToSet(visits)
    BY <1>1, <1>2, OnlySome
  <2>4. ToSet(visits') \subseteq ToSet(VisitsOf(current.producer)) /\ Len(current.hops) < limits.hops
    BY <1>1, <1>2, <2>3 DEF Trails
  <2>5. QED
    BY <1>1, <2>1, <2>2, <2>4 DEF Trails
<1>6. QED
  BY <1>1, <1>2, <1>3, <1>4, <1>5, SideSearched

LEMMA StopSearches ==
  ASSUME SearchInv, SearchedInv, StopAtStateLimit
  PROVE  SearchedInv'
<1>1. /\ side \in Sides /\ visits = <<>> /\ queue # <<>> /\ queue' = <<>>
      /\ UNCHANGED <<system, limits, side, current, visits>>
      /\ found' = [found EXCEPT ![side].stopped = TRUE, ![side].omitted = @ + Len(queue)]
  BY DEF StopAtStateLimit
<1>2. found \in [Sides -> Counts] /\ Len(queue) \in Nat \ {0}
  BY <1>1 DEF SearchInv, SearchType
<1>3. PICK f : /\ found' = [found EXCEPT ![side] = f]
               /\ f.paths = found[side].paths /\ f.effectsOmitted = found[side].effectsOmitted
               /\ ~Unlimited(f)
  BY <1>1, <1>2, LimitCounts
<1>4. Sound(side, f)
  BY <1>1, <1>3, ThisSide DEF Sound
<1>5. Trails'
  BY <1>1 DEF Trails, ToSet
<1>6. QED
  BY <1>1, <1>2, <1>3, <1>4, <1>5, SideSearched

(* The seeds lead to all that can happen.                                   *)
LEMMA SeedsLead ==
  ASSUME NEW s, SideOK(s), limits.hops \in Nat
  PROVE  /\ \A z \in ToSet(StatesOf(s)) : Trail(s, z)
         /\ \A y \in AllPaths(s) : \E z \in ToSet(StatesOf(s)) : WillLead(z, y)
<1> DEFINE Z(x) == [seed |-> x.seed, producer |-> x.producer, hops |-> <<>>,
                    visited |-> {x.producer}]
<1>1. \A z : z \in ToSet(StatesOf(s)) <=> \E x \in ToSet(s.seeds) : z = Z(x)
  BY DEF StatesOf, ToSet
<1>2. ASSUME NEW x \in ToSet(s.seeds)
      PROVE  Trail(s, Z(x))
  <2>1. Chain(s, x.producer, <<>>) /\ LeadsTo(s, x.producer, <<>>, x.producer)
        /\ ProducersOf(<<>>) = {}
    BY DEF Chain, LeadsTo, ProducersOf
  <2>2. <<>> \in Seq(HopsOn(s)) /\ Len(<<>>) <= limits.hops
    OBVIOUS
  <2>3. QED
    BY <2>1, <2>2 DEF Trail
<1>3. ASSUME NEW y \in AllPaths(s)
      PROVE  \E z \in ToSet(StatesOf(s)) : WillLead(z, y)
  <2>1. y.hops \in Seq(HopsOn(s)) /\ y.hops # <<>>
        /\ \E x \in ToSet(s.seeds) : x.seed = y.seed /\ Chain(s, x.producer, y.hops)
    BY AllPathsMean
  <2>2. PICK x \in ToSet(s.seeds) : x.seed = y.seed /\ Chain(s, x.producer, y.hops)
    BY <2>1
  <2>3. y.hops[1].producer = x.producer
    BY <2>1, <2>2 DEF Chain
  <2>4. Len(y.hops) \in Nat \ {0} /\ SubSeq(y.hops, 1, 0) = <<>>
    BY <2>1
  <2>5. Continues(<<>>, x.producer, y)
    BY <2>3, <2>4 DEF Continues
  <2>6. WillLead(Z(x), y)
    BY <2>2, <2>5 DEF WillLead
  <2> HIDE DEF Z
  <2>7. QED
    BY <1>1, <2>2, <2>6
<1> HIDE DEF Z
<1>4. QED
  BY <1>1, <1>2, <1>3

LEMMA EndSideSearches ==
  ASSUME SearchInv, SearchedInv, SystemOK, EndSide
  PROVE  SearchedInv'
<1>1. /\ side \in Sides /\ visits = <<>> /\ queue = <<>>
      /\ UNCHANGED <<system, limits, current, visits, found>>
      /\ side'  = IF side = "before" THEN "after" ELSE "done"
      /\ queue' = IF side = "before" THEN StatesOf(system["after"]) ELSE <<>>
  BY DEF EndSide
<1>2. limits.hops \in Nat /\ SideOK(system["after"])
  BY HopLimitType DEF SearchInv, SystemOK, Sides
<1>3. \A s \in Sides : AllPaths(system[s])' = AllPaths(system[s])
  BY <1>1, SamePaths
<1>4. Trails'
  <2>1. ASSUME side' \in Sides, NEW z \in ToSet(queue')
        PROVE  Trail(Here, z)'
    <3>1. side' = "after" /\ queue' = StatesOf(system["after"]) /\ Here' = system["after"]
      BY <1>1, <2>1 DEF Sides, Here
    <3>2. Trail(system["after"], z)
      BY <1>2, <2>1, <3>1, SeedsLead
    <3>3. QED
      BY <1>1, <3>1, <3>2 DEF Trail, Chain, LeadsTo
  <2>2. QED
    BY <1>1, <2>1 DEF Trails
<1>5. ASSUME NEW s \in Sides
      PROVE  Sound(s, found[s])'
  <2>1. Sound(s, found[s])
    BY DEF SearchedInv
  <2>2. QED
    BY <1>1, <1>3, <2>1 DEF Sound
<1>6. \A y : ~Pending(y)
  BY <1>1 DEF Pending, ToSet
<1>7. ASSUME NEW s \in Sides, (s = "before" \/ side # "before")'
      PROVE  Complete(s, found[s])'
  <2>1. CASE s = "after" /\ side = "before"
    <3>1. side' = "after" /\ queue' = StatesOf(system["after"])
      BY <1>1, <2>1
    <3>2. \A y \in AllPaths(system[s]) : \E z \in ToSet(queue') : WillLead(z, y)
      BY <1>2, <2>1, <3>1, SeedsLead
    <3>3. \A y \in AllPaths(system[s]) : Pending(y)'
      BY <3>2 DEF Pending, WillLead, Continues
    <3>4. QED
      BY <1>3, <2>1, <3>1, <3>3 DEF Complete
  <2>2. CASE s # "after" \/ side # "before"
    <3>1. s = "before" \/ side # "before"
      BY <2>2 DEF Sides
    <3>2. Unlimited(found[s]) => \A y \in AllPaths(system[s]) : y \in found[s].paths
      BY <1>6, <3>1 DEF SearchedInv, Complete
    <3>3. QED
      BY <1>1, <1>3, <3>2 DEF Complete
  <2>3. QED
    BY <2>1, <2>2
<1>8. QED
  BY <1>4, <1>5, <1>7 DEF SearchedInv

LEMMA StartSearched ==
  ASSUME Started
  PROVE  SearchedInv
<1>1. /\ side = "before" /\ queue = StatesOf(Here) /\ visits = <<>> /\ SideOK(Here)
      /\ limits.hops \in Nat /\ \A s \in Sides : found[s] = Nothing
  BY StartSearch, HopLimitType DEF Started, Here, Sides, SearchInv
<1>2. /\ \A z \in ToSet(queue) : Trail(Here, z)
      /\ \A y \in AllPaths(Here) : \E z \in ToSet(queue) : WillLead(z, y)
  BY <1>1, SeedsLead
<1>3. Trails
  BY <1>1, <1>2 DEF Trails
<1>4. \A s \in Sides : Sound(s, found[s])
  BY <1>1 DEF Sound, Nothing
<1>5. Complete("before", found["before"])
  BY <1>1, <1>2 DEF Complete, Pending, Here
<1>6. QED
  BY <1>1, <1>3, <1>4, <1>5 DEF SearchedInv

LEMMA StepSearches ==
  ASSUME SystemOK, SearchInv, SearchedInv, [Next]_vars
  PROVE  SearchedInv'
<1>1. CASE Take
  BY <1>1, TakeSearches
<1>2. CASE StopAtStateLimit
  BY <1>2, StopSearches
<1>3. CASE Visit
  BY <1>3, VisitSearches
<1>4. CASE PassOver
  BY <1>4, PassOverSearches
<1>5. CASE SkipRoute
  BY <1>5, SkipRouteSearches
<1>6. CASE EndSide
  BY <1>6, EndSideSearches
<1>7. CASE UNCHANGED vars
  <2>1. Trails'
    BY <1>7 DEF vars, SearchedInv, Trails, Trail, Here, Chain, LeadsTo, VisitsOf
  <2>2. \A s \in Sides : AllPaths(system[s])' = AllPaths(system[s])
    BY <1>7, SamePaths DEF vars
  <2>3. \A s \in Sides : Sound(s, found[s])'
    BY <1>7, <2>2 DEF vars, SearchedInv, Sound
  <2>4. \A s \in Sides : (s = "before" \/ side # "before")' => Complete(s, found[s])'
    BY <1>7, <2>2 DEF vars, SearchedInv, Complete, Pending, WillLead, WillVisit, Continues
  <2>5. QED
    BY <2>1, <2>3, <2>4 DEF SearchedInv
<1>8. QED
  BY <1>1, <1>2, <1>3, <1>4, <1>5, <1>6, <1>7 DEF Next

(* What the search holds on to: every trail comes from a seed, what is      *)
(* reported can happen, and what can happen is reported or on its way.      *)
THEOREM TrailInvariance == Spec => [](SystemOK /\ SearchInv /\ SearchedInv)
<1>1. Init => SystemOK /\ SearchInv /\ SearchedInv
  BY InitStarts, StartSearch, StartSearched DEF Started, SystemOK
<1>2. SystemOK /\ SearchInv /\ SearchedInv /\ [Next]_vars => (SystemOK /\ SearchInv /\ SearchedInv)'
  BY StepKeeps, StepSearches
<1>3. QED
  BY <1>1, <1>2, PTL DEF Spec

LEMMA SearchedTellsAll ==
  ASSUME SearchType, SearchedInv
  PROVE  NothingSilent
<1>1. ASSUME side = "done", NEW s \in Sides, Unlimited(found[s])
      PROVE  found[s].paths = AllPaths(system[s])
  <2>1. \A y \in AllPaths(system[s]) : y \in found[s].paths
    BY <1>1 DEF SearchedInv, Complete, Sides
  <2>2. \A x \in found[s].paths : x \in AllPaths(system[s])
    BY <1>1 DEF SearchedInv, Sound, Unlimited
  <2>3. QED
    BY <2>1, <2>2
<1>2. QED
  BY <1>1 DEF NothingSilent, Unlimited

(* propagateConditionalSystemImpact hides nothing without counting it: when *)
(* nothing is counted as omitted, exactly what can happen is reported.      *)
THEOREM NothingIsSilent == Spec => []NothingSilent
<1>1. SearchInv /\ SearchedInv => NothingSilent
  BY SearchedTellsAll DEF SearchInv
<1>2. QED
  BY <1>1, TrailInvariance, PTL

-----------------------------------------------------------------------------
(* The side that is made of a stitched system can be searched.              *)

LEMMA SetAsSeq ==
  ASSUME NEW S, IsFiniteSet(S)
  PROVE  SetToSeq(S) \in Seq(S)
<1>1. Cardinality(S) \in Nat /\ ExistsBijection(1..Cardinality(S), S)
  BY FS_CardinalityType
<1>2. PICK f : f \in Bijection(1..Cardinality(S), S)
  BY <1>1 DEF ExistsBijection
<1>3. f \in [1..Cardinality(S) -> S] /\ IsInjective(f)
  BY <1>2 DEF Bijection, Injection
<1>4. SetToSeq(S) \in [1..Cardinality(S) -> S]
  BY <1>3 DEF SetToSeq
<1>5. QED
  BY <1>1, <1>4

(* The places of such a sequence hold elements of the set.                  *)
LEMMA SetElements ==
  ASSUME NEW S, IsFiniteSet(S), NEW D, S \subseteq D
  PROVE  /\ SetToSeq(S) \in Seq(D)
         /\ ToSet(SetToSeq(S)) \subseteq S
         /\ \A k \in DOMAIN SetToSeq(S) : SetToSeq(S)[k] \in S
<1>1. SetToSeq(S) \in Seq(S)
  BY SetAsSeq
<1> DEFINE s == SetToSeq(S)
<1> HIDE DEF s
<1>2. s \in Seq(S)
  BY <1>1 DEF s
<1>3. s \in Seq(D) /\ ToSet(s) \subseteq S /\ \A k \in DOMAIN s : s[k] \in S
  BY <1>2 DEF ToSet
<1>4. QED
  BY <1>3 DEF s

LEMMA StitchedFinite ==
  ASSUME NEW i, InputOK(i)
  PROVE  IsFiniteSet(Stitched(i))
<1> DEFINE P == OfRole(i, "producer")
           C == OfRole(i, "consumer") \ Consumed(i, P)
           f == [p \in P |-> CorrelationOf(i, p)]
           g == [c \in C |-> ConsumerAlone(i, c)]
<1>1. IsFiniteSet(P) /\ IsFiniteSet(C)
  BY FinitePart DEF InputOK, OfRole
<1>2. f \in [P -> {f[x] : x \in P}] /\ g \in [C -> {g[x] : x \in C}]
  OBVIOUS
<1>3. Stitched(i) = {f[x] : x \in P} \cup {g[x] : x \in C}
  BY DEF Stitched
<1> HIDE DEF f, g, P, C
<1>4. IsFiniteSet({f[x] : x \in P}) /\ IsFiniteSet({g[x] : x \in C})
  BY <1>1, <1>2, FiniteImage
<1>5. QED
  BY <1>3, <1>4, FS_Union

(* The correlations that a search may follow.                               *)
LEMMA Declared ==
  ASSUME Inv, Compared, NEW m \in Moments
  PROVE  /\ IsFiniteSet(Traversable(m)) /\ Traversable(m) \subseteq correlations[m]
         /\ \A x \in Traversable(m) :
              /\ x.state = "declared_realm_candidate"
              /\ x.producer # Null /\ x.producer.id \in Producers
              /\ IsFiniteSet(x.consumers) /\ \A c \in x.consumers : c.id \in Consumers
<1> DEFINE i == given[m]
<1>1. InputOK(i) /\ i.endpoints \subseteq truth[m].endpoints /\ truth \in Truths
  BY GivenFacts DEF Inv, Observed
<1>2. correlations[m] \in {{}, Stitched(i)}
  BY ReportMeans DEF Inv, StitchInv, Settled
<1> HIDE DEF i
<1>3. IsFiniteSet(correlations[m])
  BY <1>1, <1>2, StitchedFinite, FS_EmptySet
<1>4. IsFiniteSet(Traversable(m)) /\ Traversable(m) \subseteq correlations[m]
  BY <1>3, FinitePart DEF Traversable
<1>5. \A e \in truth[m].endpoints : e.id \in IF e.role = "producer" THEN Producers ELSE Consumers
  BY <1>1, ImpactAssumption
<1>6. ASSUME NEW x \in Traversable(m)
      PROVE  /\ x.state = "declared_realm_candidate"
             /\ x.producer # Null /\ x.producer.id \in Producers
             /\ IsFiniteSet(x.consumers) /\ \A c \in x.consumers : c.id \in Consumers
  <2>1. x \in Stitched(i) /\ x.state = "declared_realm_candidate"
    BY <1>2, <1>4 DEF Traversable
  <2>2. PICK p \in OfRole(i, "producer") : x = CorrelationOf(i, p)
    BY <2>1 DEF Stitched, ConsumerAlone, Correlation
  <2>3. x.producer = p /\ x.consumers = ConsumedBy(i, p)
    BY <1>1, <2>2, CorrelationFacts
  <2>4. p # Null /\ p \in truth[m].endpoints /\ p.role = "producer"
    BY <1>1 DEF InputOK, OfRole
  <2>5. x.consumers \subseteq i.endpoints /\ \A c \in x.consumers : c.role = "consumer"
    BY <2>3, ConsumedIsConsumer DEF OfRole
  <2>6. IsFiniteSet(x.consumers)
    BY <1>1, <2>5, FinitePart DEF InputOK
  <2>7. QED
    BY <1>1, <1>5, <2>1, <2>3, <2>4, <2>5, <2>6
<1>7. QED
  BY <1>4, <1>6

LEMMA IdsFinite ==
  ASSUME NEW S, IsFiniteSet(S)
  PROVE  IsFiniteSet({c.id : c \in S})
<1> DEFINE f == [c \in S |-> c.id]
<1>1. {f[x] : x \in S} = {c.id : c \in S}
  OBVIOUS
<1>2. f \in [S -> {f[x] : x \in S}]
  OBVIOUS
<1> HIDE DEF f
<1>3. IsFiniteSet({f[x] : x \in S})
  BY <1>2, FiniteImage
<1>4. QED
  BY <1>1, <1>3

LEMMA RoutesTyped ==
  ASSUME Inv, Compared, NEW m \in Moments, NEW p \in Producers
  PROVE  /\ RoutesAt(m)[p] \in Seq(Seq(Consumers))
         /\ \A r \in DOMAIN RoutesAt(m)[p] :
              \E x \in Traversable(m) :
                /\ x.producer.id = p
                /\ ToSet(RoutesAt(m)[p][r]) \subseteq {c.id : c \in x.consumers}
<1> DEFINE Ids(x) == {c.id : c \in x.consumers}
           T == {y \in Traversable(m) : y.producer.id = p}
           f == [x \in T |-> SetToSeq(Ids(x))]
           S == {f[x] : x \in T}
<1>1. ASSUME NEW x \in T
      PROVE  SetToSeq(Ids(x)) \in Seq(Consumers) /\ ToSet(SetToSeq(Ids(x))) \subseteq Ids(x)
  <2>1. IsFiniteSet(x.consumers) /\ \A c \in x.consumers : c.id \in Consumers
    BY Declared
  <2>2. IsFiniteSet(Ids(x)) /\ Ids(x) \subseteq Consumers
    BY <2>1, IdsFinite
  <2> HIDE DEF Ids
  <2>3. QED
    BY <2>2, SetElements
<1>2. RoutesAt(m)[p] = SetToSeq(S)
  BY DEF RoutesAt
<1>3. f \in [T -> {f[x] : x \in T}]
  OBVIOUS
<1>4. IsFiniteSet(T)
  BY Declared, FinitePart
<1>5. \A x \in T : f[x] = SetToSeq(Ids(x)) /\ x \in Traversable(m) /\ x.producer.id = p
  OBVIOUS
<1> HIDE DEF f, T, Ids
<1>6. IsFiniteSet(S) /\ S \subseteq Seq(Consumers)
  BY <1>1, <1>3, <1>4, <1>5, FiniteImage
<1>7. /\ SetToSeq(S) \in Seq(Seq(Consumers))
      /\ \A r \in DOMAIN SetToSeq(S) : SetToSeq(S)[r] \in S
  BY <1>6, SetElements
<1>8. ASSUME NEW r \in DOMAIN SetToSeq(S)
      PROVE  \E x \in Traversable(m) : x.producer.id = p /\ ToSet(SetToSeq(S)[r]) \subseteq Ids(x)
  <2>1. PICK x \in T : SetToSeq(S)[r] = f[x]
    BY <1>7, <1>8
  <2>2. ToSet(SetToSeq(S)[r]) \subseteq Ids(x)
    BY <1>1, <1>5, <2>1
  <2>3. QED
    BY <1>5, <2>2
<1>9. QED
  BY <1>2, <1>7, <1>8 DEF Ids

LEMMA SeedsTyped ==
  ASSUME NEW S, IsFiniteSet(S), S \subseteq Producers, NEW kind \in SeedKinds
  PROVE  SetToSeq({[seed |-> kind, producer |-> p] : p \in S})
           \in Seq([seed : SeedKinds, producer : Producers])
<1> DEFINE f == [p \in S |-> [seed |-> kind, producer |-> p]]
           T == {f[x] : x \in S}
<1>1. T = {[seed |-> kind, producer |-> p] : p \in S}
  OBVIOUS
<1>2. f \in [S -> {f[x] : x \in S}]
  OBVIOUS
<1>3. T \subseteq [seed : SeedKinds, producer : Producers]
  OBVIOUS
<1> HIDE DEF f
<1>4. IsFiniteSet(T)
  BY <1>2, FiniteImage
<1> HIDE DEF T
<1>5. SetToSeq(T) \in Seq([seed : SeedKinds, producer : Producers])
  BY <1>3, <1>4, SetElements
<1>6. QED
  BY <1>1, <1>5

LEMMA SideOfOK ==
  ASSUME Inv, Compared, NEW m \in Moments
  PROVE  SideOK(SideOf(m))
<1>1. IsFiniteSet(Routed(m)) /\ Routed(m) \subseteq Producers
  <2> DEFINE T == Traversable(m)
             f == [x \in T |-> x.producer.id]
  <2>1. IsFiniteSet(T) /\ \A x \in T : x.producer.id \in Producers
    BY Declared
  <2>2. Routed(m) = {f[x] : x \in T}
    BY DEF Routed
  <2>3. f \in [T -> {f[x] : x \in T}]
    OBVIOUS
  <2>4. Routed(m) \subseteq Producers
    BY <2>1, <2>2
  <2> HIDE DEF f, T
  <2>5. QED
    BY <2>1, <2>2, <2>3, <2>4, FiniteImage
<1>2. LocalSeeds(m) \subseteq Routed(m) /\ ChangedSeeds(m) \subseteq Routed(m)
  BY DEF LocalSeeds, ChangedSeeds
<1>3. SideOf(m).seeds \in Seq([seed : SeedKinds, producer : Producers])
  <2>1. /\ IsFiniteSet(LocalSeeds(m)) /\ LocalSeeds(m) \subseteq Producers
        /\ IsFiniteSet(ChangedSeeds(m)) /\ ChangedSeeds(m) \subseteq Producers
    BY <1>1, <1>2, FinitePart
  <2>2. /\ SetToSeq({[seed |-> "local", producer |-> p] : p \in LocalSeeds(m)})
             \in Seq([seed : SeedKinds, producer : Producers])
        /\ SetToSeq({[seed |-> "changed", producer |-> p] : p \in ChangedSeeds(m)})
             \in Seq([seed : SeedKinds, producer : Producers])
    <3>1. "local" \in SeedKinds /\ "changed" \in SeedKinds
      BY DEF SeedKinds
    <3>2. SetToSeq({[seed |-> "local", producer |-> p] : p \in LocalSeeds(m)})
            \in Seq([seed : SeedKinds, producer : Producers])
      BY <2>1, <3>1, SeedsTyped, Zenon
    <3>3. SetToSeq({[seed |-> "changed", producer |-> p] : p \in ChangedSeeds(m)})
            \in Seq([seed : SeedKinds, producer : Producers])
      BY <2>1, <3>1, SeedsTyped, Zenon
    <3>4. QED
      BY <3>2, <3>3
  <2>3. \A A : \A s, t \in Seq(A) : s \o t \in Seq(A)
    OBVIOUS
  <2>4. QED
    BY <2>2, <2>3 DEF SideOf
<1>4. SideOf(m).routes \in [Producers -> Seq(Seq(Consumers))]
  <2>1. \A p \in Producers : RoutesAt(m)[p] \in Seq(Seq(Consumers))
    BY RoutesTyped
  <2>2. RoutesAt(m) = [p \in Producers |-> RoutesAt(m)[p]]
    BY DEF RoutesAt
  <2>3. SideOf(m).routes = RoutesAt(m)
    BY DEF SideOf
  <2>4. QED
    BY <2>1, <2>2, <2>3
<1>5. /\ SideOf(m).handled = Consumers
      /\ SideOf(m).effects = [p \in Producers |-> [c \in Consumers |-> 1]]
      /\ SideOf(m).onward = [p \in Producers |->
                               [c \in Consumers |-> Only(Leads[c], Routed(m))]]
  BY DEF SideOf
<1>6. \A c \in Consumers : Only(Leads[c], Routed(m)) \in Seq(Producers)
  BY OnlySome, ImpactAssumption
<1>7. /\ SideOf(m).effects \in [Producers -> [Consumers -> Nat]]
      /\ SideOf(m).onward \in [Producers -> [Consumers -> Seq(Producers)]]
  BY <1>5, <1>6
<1>8. QED
  BY <1>3, <1>4, <1>5, <1>7 DEF SideOK
-----------------------------------------------------------------------------
(* Systems that are stitched, compared and searched.                        *)

(* The search waits for the comparison, and then searches what it was given.*)
Searching ==
  /\ Compared /\ system = [m \in Sides |-> SideOf(m)]
  /\ SearchInv /\ SearchedInv

Waiting ==
  /\ system = Unsearched
  /\ side = "before" /\ queue = <<>> /\ visits = <<>>
  /\ found = [s \in Sides |-> Nothing]

ImpactInv == Inv /\ limits \in Limits /\ (Waiting \/ Searching)

LEMMA InitImpact == ImpactInit => ImpactInv
BY InitInv DEF ImpactInit, ImpactInv, Waiting

LEMMA StartedNext == Started' => (SearchInv /\ SearchedInv)'
<1>1. Started => SearchInv /\ SearchedInv
  BY StartSearch, StartSearched
<1>2. QED
  BY <1>1, PTL

(* What is searched depends on the stitched and compared systems alone.     *)
LEMMA SameSides ==
  ASSUME UNCHANGED comparisonVars
  PROVE  (Compared' <=> Compared) /\ \A m \in Moments : SideOf(m)' = SideOf(m)
<1>1. given' = given /\ correlations' = correlations /\ report' = report
  BY DEF comparisonVars, stitchVars
<1>2. Compared' <=> Compared
  BY <1>1 DEF Compared
<1>3. \A m \in Moments : /\ Traversable(m)' = Traversable(m) /\ Routed(m)' = Routed(m)
                         /\ LocalSeeds(m)' = LocalSeeds(m) /\ ChangedSeeds(m)' = ChangedSeeds(m)
                         /\ RoutesAt(m)' = RoutesAt(m)
  BY <1>1 DEF Traversable, Routed, LocalSeeds, ChangedSeeds, RoutesAt
<1>4. QED
  BY <1>2, <1>3 DEF SideOf

LEMMA ComparedIsEnd ==
  ASSUME Inv, Compared
  PROVE  ~ComparisonNext
<1>1. report # NoReport /\ report # Rejected
  BY DEF Compared, NoReport, Rejected
<1>2. moment = "done"
  BY <1>1 DEF Inv, Reported
<1>3. moment \notin Moments
  BY <1>2 DEF Moments
<1>4. QED
  BY <1>1, <1>3 DEF ComparisonNext, StitchNext, NoServices, RefuseInput, ListConsumers,
     StitchProducer, Compare, RejectInputs, Ready

LEMMA BeginStarts ==
  ASSUME ImpactInv, Begin
  PROVE  (Inv /\ limits \in Limits /\ Searching)'
<1>1. /\ Inv /\ Compared /\ UNCHANGED comparisonVars
      /\ system = Unsearched /\ system' = [m \in Sides |-> SideOf(m)]
      /\ queue' = StatesOf(SideOf("before"))
      /\ UNCHANGED <<limits, side, current, visits, found>>
  BY DEF ImpactInv, Begin
<1>2. Waiting
  <2>1. SUFFICES ASSUME Searching PROVE FALSE
    BY DEF ImpactInv
  <2>2. SideOf("before") = [seeds |-> <<>>]
    BY <1>1, <2>1 DEF Searching, Unsearched, Sides
  <2>3. "routes" \in DOMAIN SideOf("before")
    BY DEF SideOf
  <2>4. "routes" \notin DOMAIN [seeds |-> <<>>]
    OBVIOUS
  <2>5. QED
    BY <2>2, <2>3, <2>4
<1>3. \A m \in Sides : SideOK(SideOf(m))
  BY <1>1, SideOfOK DEF Sides, Moments
<1>4. Started'
  BY <1>1, <1>2, <1>3 DEF Started, Waiting, ImpactInv, Sides
<1>5. Inv'
  BY <1>1, InvKept
<1>6. Compared' /\ \A m \in Sides : SideOf(m)' = SideOf(m)
  BY <1>1, SameSides DEF Sides, Moments
<1>7. Searching'
  BY <1>1, <1>4, <1>6, StartedNext DEF Searching
<1>8. QED
  BY <1>4, <1>5, <1>7 DEF Started

LEMMA SearchStep ==
  ASSUME ImpactInv, Searching, [Next]_vars, UNCHANGED comparisonVars
  PROVE  (Inv /\ limits \in Limits /\ Searching)'
<1>1. Inv /\ Compared /\ system = [m \in Sides |-> SideOf(m)] /\ SearchInv /\ SearchedInv
  BY DEF ImpactInv, Searching
<1>2. SystemOK
  BY <1>1, SideOfOK DEF SystemOK, Sides, Moments
<1>3. SearchInv' /\ SearchedInv'
  BY <1>1, <1>2, StepKeeps, StepSearches
<1>4. system' = system /\ limits' = limits
  BY DEF Next, vars, Take, StopAtStateLimit, Visit, PassOver, SkipRoute, EndSide
<1>5. Compared' /\ \A m \in Sides : SideOf(m)' = SideOf(m)
  BY <1>1, SameSides DEF Sides, Moments
<1>6. Inv'
  BY <1>1, InvKept
<1>7. QED
  BY <1>1, <1>3, <1>4, <1>5, <1>6 DEF Searching, ImpactInv

LEMMA WaitingStep ==
  ASSUME Inv, limits \in Limits, Waiting, [ComparisonNext]_comparisonVars, UNCHANGED vars
  PROVE  (Inv /\ limits \in Limits /\ Waiting)'
<1>1. Inv'
  BY InvKept
<1>2. QED
  BY <1>1 DEF Waiting, vars

LEMMA ImpactStep == ImpactInv /\ [ImpactNext]_impactVars => ImpactInv'
<1>1. SUFFICES ASSUME ImpactInv, [ImpactNext]_impactVars
               PROVE  (Inv /\ limits \in Limits /\ (Waiting \/ Searching))'
  BY DEF ImpactInv
<1>2. Inv /\ limits \in Limits
  BY <1>1 DEF ImpactInv
<1>3. CASE Begin
  BY <1>1, <1>3, BeginStarts
<1>4. CASE Waiting /\ ~Begin
  <2>1. [ComparisonNext]_comparisonVars /\ UNCHANGED vars
    BY <1>1, <1>4 DEF ImpactNext, impactVars, Waiting
  <2>2. QED
    BY <1>2, <1>4, <2>1, WaitingStep
<1>5. CASE Searching /\ ~Begin
  <2>1. ~ComparisonNext
    BY <1>2, <1>5, ComparedIsEnd DEF Searching
  <2>2. [Next]_vars /\ UNCHANGED comparisonVars
    BY <1>1, <1>5, <2>1 DEF ImpactNext, impactVars
  <2>3. QED
    BY <1>1, <1>5, <2>2, SearchStep
<1>6. QED
  BY <1>1, <1>3, <1>4, <1>5 DEF ImpactInv

(* What was compared stays compared, and the search is of its systems.      *)
THEOREM ImpactInvariance == ImpactSpec => []ImpactInv
BY InitImpact, ImpactStep, PTL DEF ImpactSpec

(* The search changes nothing of what was stitched and compared.            *)
THEOREM SearchingComparesToo == ImpactSpec => ComparisonSpec
<1>1. ImpactInit => ComparisonInit
  BY DEF ImpactInit
<1>2. [ImpactNext]_impactVars => [ComparisonNext]_comparisonVars
  BY DEF ImpactNext, impactVars, Begin
<1>3. QED
  BY <1>1, <1>2, PTL DEF ImpactSpec, ComparisonSpec

(* The composed search cuts the far end and hides nothing either.           *)
THEOREM ComposedSearchTells == ImpactSpec => [](PrefixesKept /\ NothingSilent)
<1>1. Waiting => PrefixesKept /\ NothingSilent
  <2>1. ASSUME Waiting PROVE PrefixesKept /\ NothingSilent
    <3>1. \A s \in Sides : found[s].paths = {}
      BY <2>1 DEF Waiting, Nothing
    <3>2. side # "done"
      BY <2>1 DEF Waiting
    <3>3. QED
      BY <3>1, <3>2 DEF PrefixesKept, NothingSilent
  <2>2. QED
    BY <2>1
<1>2. Searching => PrefixesKept /\ NothingSilent
  BY SearchedTellsAll DEF Searching, SearchInv
<1>3. QED
  BY <1>1, <1>2, ImpactInvariance, PTL DEF ImpactInv

-----------------------------------------------------------------------------
(* A hop of a complete document is one that the systems have.               *)

LEMMA HopsAreCorrelations ==
  ASSUME Inv, Compared, NEW m \in Moments, NEW h \in HopsOn(SideOf(m))
  PROVE  \E x \in Traversable(m) :
           x.producer.id = h.producer /\ \E c \in x.consumers : c.id = h.consumer
<1>1. SideOK(SideOf(m)) /\ SideOf(m).routes = RoutesAt(m)
  BY SideOfOK DEF SideOf
<1>2. PICK p \in Producers : \E r \in DOMAIN RoutesAt(m)[p] :
        \E c \in ToSet(RoutesAt(m)[p][r]) : h.producer = p /\ h.consumer = c
  BY <1>1, HopsMean
<1>3. PICK r \in DOMAIN RoutesAt(m)[p] :
        \E c \in ToSet(RoutesAt(m)[p][r]) : h.producer = p /\ h.consumer = c
  BY <1>2
<1>4. PICK x \in Traversable(m) : /\ x.producer.id = p
                                  /\ ToSet(RoutesAt(m)[p][r]) \subseteq {c.id : c \in x.consumers}
  BY RoutesTyped
<1>5. QED
  BY <1>3, <1>4

(* What a candidate says in the document.                                   *)
LEMMA CandidateSnapshot ==
  ASSUME NEW x, x.producer # Null
  PROVE  LET y == CorrelationSnapshot(x)
         IN  /\ y.key = <<"producer", x.producer.id>>
             /\ y.value.state = x.state /\ y.value.consumers = {c.id : c \in x.consumers}
<1> DEFINE value == [contract |-> IF x.producer = Null THEN {c.contract : c \in x.consumers}
                                                       ELSE {x.producer.contract},
                     state |-> x.state, reason |-> x.reason,
                     consumers |-> {c.id : c \in x.consumers}, realm |-> x.realm]
<1>1. CorrelationSnapshot(x) = Keyed(<<"producer", x.producer.id>>, value)
  BY DEF CorrelationSnapshot
<1>2. value.state = x.state /\ value.consumers = {c.id : c \in x.consumers}
  OBVIOUS
<1> HIDE DEF value
<1>3. QED
  BY <1>1, <1>2, KeyedMeans

LEMMA CompleteMeansKnown ==
  ASSUME Inv, Compared, report.state = "completed"
  PROVE  CorrelationsComparable
<1>1. report = TheReport
  BY DEF Inv, Reported, Compared, NoReport, Rejected
<1>2. Uncertainties = {}
  BY <1>1 DEF TheReport
<1>3. QED
  BY <1>2, UncertaintiesMean

LEMMA SpreadIsReal ==
  ASSUME ImpactInv
  PROVE  SpreadIsRealOrUnknown
<1>1. CASE Waiting
  BY <1>1 DEF Waiting, Nothing, SpreadIsRealOrUnknown
<1>2. CASE Searching
  <2>1. SUFFICES ASSUME report.state = "completed", NEW m \in Sides,
                        NEW x \in found[m].paths, NEW k \in DOMAIN x.hops
                 PROVE  \E y \in TrueCorrelations(m) :
                          /\ y.key = <<"producer", x.hops[k].producer>>
                          /\ y.value.state = "declared_realm_candidate"
                          /\ x.hops[k].consumer \in y.value.consumers
    BY DEF SpreadIsRealOrUnknown
  <2>2. Inv /\ Compared /\ m \in Moments /\ system[m] = SideOf(m) /\ SearchedInv
    BY <1>2 DEF ImpactInv, Searching, Sides, Moments
  <2>3. x.hops \in Seq(HopsOn(SideOf(m)))
    BY <2>2 DEF SearchedInv, Sound
  <2>4. x.hops[k] \in HopsOn(SideOf(m))
    BY <2>3
  <2>5. PICK z \in Traversable(m) : /\ z.producer.id = x.hops[k].producer
                                    /\ \E c \in z.consumers : c.id = x.hops[k].consumer
    BY <2>2, <2>4, HopsAreCorrelations
  <2>6. /\ z \in correlations[m] /\ z.producer # Null /\ z.state = "declared_realm_candidate"
    BY <2>2, Declared
  <2>7. CorrelationSnapshots(m) = TrueCorrelations(m)
    BY <2>1, <2>2, CompleteMeansKnown, CorrelationsAreTrue
  <2> DEFINE y == CorrelationSnapshot(z)
  <2>8. y \in TrueCorrelations(m)
    BY <2>6, <2>7 DEF CorrelationSnapshots
  <2>9. /\ y.key = <<"producer", z.producer.id>>
        /\ y.value.state = z.state /\ y.value.consumers = {c.id : c \in z.consumers}
    BY <2>6, CandidateSnapshot
  <2>10. x.hops[k].consumer \in y.value.consumers
    BY <2>5, <2>9
  <2> HIDE DEF y
  <2>11. QED
    BY <2>5, <2>6, <2>8, <2>9, <2>10
<1>3. QED
  BY <1>1, <1>2 DEF ImpactInv

(* From two systems to how far a change spreads: whatever was missing, a    *)
(* document that counts as complete reports only hops that the systems have.*)
THEOREM CompleteSpreadIsReal == ImpactSpec => []SpreadIsRealOrUnknown
<1>1. ImpactInv => SpreadIsRealOrUnknown
  BY SpreadIsReal
<1>2. QED
  BY <1>1, ImpactInvariance, PTL
=============================================================================

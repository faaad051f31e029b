---------------------------- MODULE SystemStitching ----------------------------
(***************************************************************************)
(* stitchSystemAnalyses (src/src/system-analysis/stitch.ts): correlates    *)
(* the producers and the consumers of several services, with the broker    *)
(* realms that a topology manifest declares for them, and the validator    *)
(* of the result (validate.ts).  Two systems are stitched, the one before  *)
(* a change and the one after, for SystemComparison.                       *)
(*                                                                         *)
(* Queue technology and transport are left out: an endpoint of another     *)
(* technology is one that is not usable, and a realm of another transport  *)
(* is refused with the manifest.                                           *)
(***************************************************************************)
EXTENDS FiniteSets, Naturals

CONSTANTS
  Null        (* No queue, job, record, producer, realm or reason.          *)

Reasons == {"unsupported_identity", "producer_only", "target_mismatch", "realm_mismatch",
            "multiple_consumers", "consumer_only"}

ASSUME NullAssumption == Null \notin Reasons

Moments == {"before", "after"}

(* An endpoint: usable says that a producer is activated, that a consumer  *)
(* is registered.  A contract with target Null is dynamic; one of a job    *)
(* consumer with job Null takes all jobs of its queue.                     *)
(*   [id, service, role : {"producer", "consumer"}, usable : BOOLEAN,      *)
(*    contract : [shape : {"job", "request", "event"}, target, job]]       *)
(* A binding of the topology; with record Null it is for all endpoints of  *)
(* the contract.                                                           *)
(*   [service, role, contract, record, realm]                              *)

VARIABLES
  given,        (* What is stitched at each moment: the endpoints of the    *)
                (* services and the topology's bindings.                    *)
  moment,       (* The one being stitched; "done" after both.               *)
  todo,         (* Its producers not yet correlated.                        *)
  consumed,     (* The consumers that are candidates of a producer.         *)
  correlations, (* The correlations found at each moment.                   *)
  outcome       (* "none", "refused", "invalid", "stitched" or "absent".    *)

stitchVars == <<given, moment, todo, consumed, correlations, outcome>>

-----------------------------------------------------------------------------
(* Projection of endpoints.                                                *)

Kind(contract) == IF contract.shape = "job" THEN "job_queue" ELSE "microservice_message"

ExactContract(c) == c.target # Null /\ (c.shape = "job" => c.job # Null)

Eligible(e) ==
  /\ e.usable
  /\ IF e.role = "consumer" /\ e.contract.shape = "job"
     THEN e.contract.target # Null
     ELSE ExactContract(e.contract)

ContractsCompatible(p, c) ==
  IF p.shape = "job" /\ c.shape = "job"
  THEN p.target # Null /\ p.target = c.target /\ c.job \in {Null, p.job}
  ELSE p = c

BindingMatches(b, e) ==
  /\ b.service = e.service /\ b.role = e.role /\ b.contract = e.contract
  /\ b.record \in {Null, e.id}

(* Several bindings for one endpoint, or a binding for none, are refused.  *)
InputRefused(input) ==
  \/ \E e \in input.endpoints : \E a, b \in input.bindings :
       a # b /\ BindingMatches(a, e) /\ BindingMatches(b, e)
  \/ \E b \in input.bindings : \A e \in input.endpoints : ~BindingMatches(b, e)

RealmIn(bindings, e) ==
  IF \E b \in bindings : BindingMatches(b, e)
  THEN (CHOOSE b \in bindings : BindingMatches(b, e)).realm
  ELSE Null

-----------------------------------------------------------------------------
(* Correlation.                                                            *)

RealmOf(i, e)   == RealmIn(i.bindings, e)
OfRole(i, role) == {e \in i.endpoints : e.role = role}

Correlation(state, reason, producer, consumers, realm) ==
  [state |-> state, reason |-> reason, producer |-> producer, consumers |-> consumers,
   realm |-> realm]

Unmatched(i, reason, p) == Correlation("unmatched", reason, p, {}, RealmOf(i, p))

SameKind(i, p) ==
  {c \in OfRole(i, "consumer") : Eligible(c) /\ Kind(c.contract) = Kind(p.contract)}

(* Mutant of Candidates: consumers outside the producer's realm are none.  *)
Candidates_SameRealm(i, p) ==
  {c \in SameKind(i, p) :
     ContractsCompatible(p.contract, c.contract) /\ RealmOf(i, c) = RealmOf(i, p)}

Candidates(i, p) == {c \in SameKind(i, p) : ContractsCompatible(p.contract, c.contract)}

OneConsumerOnly(contract) == contract.shape \in {"job", "request"}

(* Mutant of Matched: the realms are looked at last.                       *)
Matched_FanOutFirst(i, p) ==
  LET realms == {RealmOf(i, e) : e \in {p} \cup Candidates(i, p)}
      shared == IF Cardinality(realms) = 1 THEN CHOOSE r \in realms : TRUE ELSE Null
  IN  CASE shared # Null ->
             Correlation("declared_realm_candidate", Null, p, Candidates(i, p), shared)
        [] shared = Null /\ Cardinality(realms \ {Null}) > 1 ->
             Correlation("unmatched", "realm_mismatch", p, Candidates(i, p), Null)
        [] OTHER ->
             Correlation("target_only_candidate", Null, p, Candidates(i, p), Null)

Matched(i, p) ==
  LET realms == {RealmOf(i, e) : e \in {p} \cup Candidates(i, p)}
      shared == IF Cardinality(realms) = 1 THEN CHOOSE r \in realms : TRUE ELSE Null
  IN  CASE Cardinality(realms \ {Null}) > 1 ->
             Correlation("unmatched", "realm_mismatch", p, Candidates(i, p), Null)
        [] Cardinality(realms \ {Null}) <= 1
             /\ OneConsumerOnly(p.contract) /\ Cardinality(Candidates(i, p)) > 1 ->
             Correlation("ambiguous", "multiple_consumers", p, Candidates(i, p), shared)
        [] OTHER ->
             Correlation(IF shared # Null THEN "declared_realm_candidate"
                                          ELSE "target_only_candidate",
                         Null, p, Candidates(i, p), shared)

CorrelationOf(i, p) ==
  CASE ~Eligible(p)       -> Unmatched(i, "unsupported_identity", p)
    [] Eligible(p) /\ Candidates(i, p) = {} ->
         Unmatched(i, IF SameKind(i, p) = {} THEN "producer_only" ELSE "target_mismatch", p)
    [] OTHER              -> Matched(i, p)

(* Mutant of ConsumedBy: only what matches is consumed.                    *)
ConsumedBy_Matches(i, p) ==
  IF Eligible(p) /\ Matched(i, p).state # "unmatched" THEN Candidates(i, p) ELSE {}

ConsumedBy(i, p) == IF Eligible(p) THEN Candidates(i, p) ELSE {}

ConsumerAlone(i, c) ==
  Correlation("unmatched", IF Eligible(c) THEN "consumer_only" ELSE "unsupported_identity",
              Null, {c}, RealmOf(i, c))

-----------------------------------------------------------------------------
(* The validator of the finished document.                                 *)

CorrelationValid(i, x) ==
  LET members == x.consumers \cup (IF x.producer = Null THEN {} ELSE {x.producer})
      realms  == {RealmOf(i, e) : e \in members}
      several == Cardinality(x.consumers) > 1
  IN  /\ x.producer # Null => x.producer.role = "producer"
      /\ \A c \in x.consumers :
           /\ c.role = "consumer"
           /\ x.producer # Null => ContractsCompatible(x.producer.contract, c.contract)
      /\ CASE x.state = "declared_realm_candidate" ->
                /\ realms = {x.realm} /\ x.realm # Null
                /\ x.producer # Null /\ ExactContract(x.producer.contract)
                /\ several => ~OneConsumerOnly(x.producer.contract)
           [] x.state = "target_only_candidate" -> Cardinality(realms) = 1 => Null \in realms
           [] x.state = "ambiguous" -> OneConsumerOnly(x.producer.contract)
           [] x.reason = "realm_mismatch" ->
                x.producer # Null /\ x.consumers # {} /\ Cardinality(realms \ {Null}) > 1
           [] x.reason \in {"producer_only", "target_mismatch"} ->
                x.producer # Null /\ x.consumers = {}
           [] x.reason = "consumer_only" -> x.producer = Null /\ x.consumers # {}
           [] x.reason = "unsupported_identity" -> x.producer # Null \/ x.consumers # {}

-----------------------------------------------------------------------------
Input == given[moment]

(* The system after the one before, and the end after both.                *)
NextMoment == IF moment = "before" THEN "after" ELSE "done"

ProducersAt(m) ==
  IF m = "done" THEN {} ELSE {e \in given[m].endpoints : e.role = "producer"}

StitchInit ==
  /\ moment = "before" /\ todo = ProducersAt("before") /\ consumed = {}
  /\ correlations = [m \in Moments |-> {}]
  /\ outcome = [m \in Moments |-> "none"]

EndMoment(result) ==
  /\ outcome'  = [outcome EXCEPT ![moment] = result]
  /\ moment'   = NextMoment
  /\ todo'     = ProducersAt(NextMoment)
  /\ consumed' = {}
  /\ UNCHANGED given

(* No service is available: there is nothing to stitch.                    *)
NoServices ==
  /\ moment \in Moments /\ Input.services = {}
  /\ EndMoment("absent")
  /\ UNCHANGED correlations

RefuseInput ==
  /\ moment \in Moments /\ Input.services # {} /\ InputRefused(Input)
  /\ EndMoment("refused")
  /\ UNCHANGED correlations

(* The producers are taken in the order of the artifacts; what is found    *)
(* must not depend on it, and any order is considered.                     *)
StitchProducer(p) ==
  /\ moment \in Moments /\ Input.services # {} /\ ~InputRefused(Input) /\ p \in todo
  /\ correlations' = [correlations EXCEPT ![moment] = @ \cup {CorrelationOf(Input, p)}]
  /\ consumed' = consumed \cup ConsumedBy(Input, p)
  /\ todo' = todo \ {p}
  /\ UNCHANGED <<given, moment, outcome>>

(* The consumers that no producer had as a candidate, and the validation.  *)
ListConsumers ==
  /\ moment \in Moments /\ Input.services # {} /\ ~InputRefused(Input) /\ todo = {}
  /\ LET all == correlations[moment]
                  \cup {ConsumerAlone(Input, c) : c \in OfRole(Input, "consumer") \ consumed}
     IN  /\ correlations' = [correlations EXCEPT ![moment] = all]
         /\ EndMoment(IF \A x \in all : CorrelationValid(Input, x)
                      THEN "stitched" ELSE "invalid")

StitchNext ==
  \/ NoServices \/ RefuseInput \/ ListConsumers
  \/ \E p \in todo : StitchProducer(p)

-----------------------------------------------------------------------------
(* Properties.                                                             *)

(* Every endpoint is accounted for: a producer by one correlation, a       *)
(* consumer alone exactly if it is no candidate of any producer.           *)
EveryEndpointAccounted ==
  \A m \in Moments : outcome[m] = "stitched" =>
    \A e \in given[m].endpoints :
      LET mine == {x \in correlations[m] : e = x.producer \/ e \in x.consumers}
      IN  IF e.role = "producer" THEN Cardinality(mine) = 1
          ELSE mine # {} /\ \A x \in mine : x.producer = Null => mine = {x}

(* What a topology declares is taken for certain: the same endpoints with  *)
(* more bindings keep every declared candidate, its consumers and realm.   *)
MoreTopologyKeepsCandidates ==
  /\ \A m \in Moments : outcome[m] = "stitched"
  /\ given["before"].endpoints = given["after"].endpoints
  /\ given["before"].bindings \subseteq given["after"].bindings
  => \A x \in correlations["before"] :
       x.state = "declared_realm_candidate" => x \in correlations["after"]

(* What passes for a document to stitch is never refused by the validator. *)
ValidatorAccepts == \A m \in Moments : outcome[m] # "invalid"
=============================================================================

------------------------------ MODULE TraceFacts ------------------------------
(***************************************************************************)
(* The canonical facts that traces are built from: the assertions of an    *)
(* analysis about one endpoint, as the forward trace (src/src/tracing/)    *)
(* and the reverse impact search (src/src/impact/graph.ts) index them.     *)
(*                                                                         *)
(* Assertions that neither side traverses (unresolved ones, ambiguous      *)
(* matches of request-response messages) are left out.  Every method       *)
(* accesses one table of its own, so that a table stands for the effects   *)
(* of a method.  An interaction and its match, handler and implementation  *)
(* assertions are one link from the initiating to the handling method.     *)
(***************************************************************************)
EXTENDS Naturals, Sequences, FiniteSets

CONSTANTS
  Methods,
  Interactions,   (* Call sites that emit an event or add a job.            *)
  Analyses        (* Families of analyses considered: records as in FactsOK *)

ASSUME FiniteAssumption == IsFiniteSet(Methods) /\ IsFiniteSet(Interactions)

Call(m, n)     == <<"call", m, n>>
Initiate(m, i) == <<"initiate", m, i>>
Access(m)      == <<"access", m, m>>
Lock(m)        == <<"lock", m, m>>

Assertions ==
  {Call(m, n) : m \in Methods, n \in Methods}
    \cup {Initiate(m, i) : m \in Methods, i \in Interactions}
    \cup {Access(m) : m \in Methods} \cup {Lock(m) : m \in Methods}

Kinds == {"event", "async_event", "job"}

(* root: an endpoint, or a handler of some kind of interaction; entries:   *)
(* the methods that implement it.  handlers[i]: the methods that handle i, *)
(* in assertion order, and registered, those proven to.  scoped: the       *)
(* effects inside a critical section of their method.  branches: the       *)
(* job-name branches of a worker method, the assertions they cover, and    *)
(* the jobs their selector matches.  limits: of the configuration,         *)
(* maxCallDepth and, under interactions, maxInteractionHops,               *)
(* maxFanOutPerInteraction and maxInteractionTraceStates.                  *)
FactsOK(a) ==
  /\ a.root       \in {"endpoint"} \cup Kinds
  /\ a.entries    \subseteq Methods
  /\ a.calls      \subseteq Methods \X Methods
  /\ a.source     \in [Interactions -> Methods]
  /\ a.kind       \in [Interactions -> Kinds]
  /\ a.handlers   \in [Interactions -> Seq(Methods)]
  /\ a.registered \subseteq Methods
  /\ a.scoped     \subseteq Assertions
  /\ \A b \in a.branches :
       /\ b.method \in Methods /\ b.jobs \subseteq Interactions
       /\ b.ids \subseteq {x \in Assertions : x[2] = b.method}
  /\ a.limits.depth \in 1..3
  /\ {a.limits.hops, a.limits.fanOut, a.limits.states} \subseteq Nat

ASSUME AnalysesAssumption == \A k \in DOMAIN Analyses : \A a \in Analyses[k] : FactsOK(a)

VARIABLE facts   (* The analysis being traced; it never changes.            *)

Handles(m, i) == \E k \in DOMAIN facts.handlers[i] : facts.handlers[i][k] = m

Sites(m) == {i \in Interactions : facts.source[i] = m}

SectionEffects(m) == {a \in facts.scoped : a[2] = m}

(* Which assertions of a method are looked at: all of them, or those of a  *)
(* critical section or of the job branches that were selected.             *)
Everything == [restricted |-> FALSE, ids |-> {}]
Only(ids)  == [restricted |-> TRUE, ids |-> ids]

(* Without a restriction, what a critical section covers is left to the    *)
(* state that is restricted to the section.                                *)
AppliesDirectly(filter, assertion) ==
  IF filter.restricted THEN assertion \in filter.ids ELSE assertion \notin facts.scoped
=============================================================================

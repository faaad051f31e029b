------------------------------ MODULE SystemImpact ------------------------------
(***************************************************************************)
(* From two observed systems to how far a change may spread: the systems   *)
(* are stitched (SystemStitching) and compared (SystemComparison), and the *)
(* producers that changed, or that changed code reaches, are followed over *)
(* the declared candidates (SystemPropagation).                            *)
(***************************************************************************)
EXTENDS SystemComparison, SystemPropagation

CONSTANTS
  Touched,   (* The producers that locally changed HTTP endpoints reach.    *)
  Leads      (* The producers that the handler of each consumer leads to.   *)

ASSUME ImpactAssumption ==
  /\ Touched \subseteq Producers /\ Leads \in [Consumers -> Seq(Producers)]
  /\ \A t \in Truths : \A m \in Moments : \A e \in t[m].endpoints :
       e.id \in IF e.role = "producer" THEN Producers ELSE Consumers

impactVars == <<comparisonVars, vars>>

Unsearched == [m \in Sides |-> [seeds |-> <<>>]]

ImpactInit ==
  /\ ComparisonInit
  /\ limits \in Limits /\ system = Unsearched
  /\ side = "before" /\ queue = <<>> /\ current = <<>> /\ visits = <<>>
  /\ found = [s \in Sides |-> Nothing]

-----------------------------------------------------------------------------
(* Mutant of Traversable: a candidate without a declared realm will do.    *)
Traversable_TargetOnly(m) ==
  {x \in correlations[m] : x.state \in {"declared_realm_candidate", "target_only_candidate"}}

Traversable(m) == {x \in correlations[m] : x.state = "declared_realm_candidate"}

Routed(m) == {x.producer.id : x \in Traversable(m)}

RoutesAt(m) ==
  [p \in Producers |->
     SetToSeq({SetToSeq({c.id : c \in x.consumers}) :
                 x \in {y \in Traversable(m) : y.producer.id = p}})]

(* Producers of services at hand on both sides that local changes reach.   *)
LocalSeeds(m) ==
  {p \in Touched \cap Routed(m) :
     \E e \in given[m].endpoints :
       e.id = p /\ \A n \in Moments : e.service \in given[n].services}

ChangedSeeds(m) ==
  {c.key : c \in {x \in report.endpoints :
                    x.key \in Routed(m) /\ (IF m = "before" THEN x.before ELSE x.after) # {}}}

SideOf(m) ==
  [seeds   |-> SetToSeq({[seed |-> "local", producer |-> p] : p \in LocalSeeds(m)})
                 \o SetToSeq({[seed |-> "changed", producer |-> p] : p \in ChangedSeeds(m)}),
   routes  |-> RoutesAt(m),
   handled |-> Consumers,
   effects |-> [p \in Producers |-> [c \in Consumers |-> 1]],
   onward  |-> [p \in Producers |->
                  [c \in Consumers |-> Only(Leads[c], Routed(m))]]]

Begin ==
  /\ Compared /\ system = Unsearched
  /\ system' = [m \in Sides |-> SideOf(m)]
  /\ queue'  = StatesOf(SideOf("before"))
  /\ UNCHANGED <<comparisonVars, limits, side, current, visits, found>>

ImpactNext ==
  \/ ComparisonNext /\ UNCHANGED vars
  \/ Begin
  \/ system # Unsearched /\ Next /\ UNCHANGED comparisonVars

ImpactSpec == ImpactInit /\ [][ImpactNext]_impactVars

-----------------------------------------------------------------------------
(* Properties.                                                             *)

(* A hop that the systems do not have may be reported if artifacts are     *)
(* missing, as a consumer that is not at hand would have made its          *)
(* correlation ambiguous; the document then never counts as complete.      *)
SpreadIsRealOrUnknown ==
  Compared /\ report.state = "completed" =>
    \A m \in Sides : \A x \in found[m].paths : \A k \in DOMAIN x.hops :
      \E y \in TrueCorrelations(m) :
        /\ y.key = <<"producer", x.hops[k].producer>>
        /\ y.value.state = "declared_realm_candidate"
        /\ x.hops[k].consumer \in y.value.consumers
=============================================================================

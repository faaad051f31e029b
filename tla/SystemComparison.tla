---------------------------- MODULE SystemComparison ----------------------------
(***************************************************************************)
(* compareSystemAnalyses (src/src/system-impact/compare.ts): what changed  *)
(* between two stitched systems of which some artifacts may be missing.    *)
(*                                                                         *)
(* A truth says what the services and the manifest are at each moment; the *)
(* caller observes it, stitches what is available and compares.  Artifacts *)
(* that are incompatible are treated like missing ones and left out, and   *)
(* so are display names, schema versions, identifiers and what a realm is  *)
(* declared with.                                                          *)
(***************************************************************************)
EXTENDS SystemStitching

CONSTANTS
  Truths,   (* Per moment: [services, endpoints, bindings], the bindings    *)
            (* of its topology manifest.                                    *)
  Sights    (* Per moment: [missing, manifest, stitched], the services that *)
            (* are not there to see, whether the manifest is at hand for    *)
            (* the comparison, and whether it was for the stitching.        *)

(* An endpoint is a record of one of the services and has a role there; its *)
(* identifier stands for its key, which names its service and its record.   *)
(* A binding names a realm.                                                 *)
ASSUME TruthsAssumption ==
  \A t \in Truths : \A m \in Moments :
    /\ IsFiniteSet(t[m].endpoints) /\ Null \notin t[m].endpoints
    /\ \A e \in t[m].endpoints :
         /\ e.service \in t[m].services /\ e.role \in {"producer", "consumer"}
         /\ \A n \in Moments : \A f \in t[n].endpoints :
              e.id = f.id => e.service = f.service /\ (m = n => e = f)
    /\ \A b \in t[m].bindings : b.realm # Null

VARIABLES
  truth, sight,   (* Chosen at the start; they never change.                *)
  report          (* NoReport, Rejected or the document of the comparison.  *)

comparisonVars == <<stitchVars, truth, sight, report>>

NoReport == [state |-> "none"]
Rejected == [state |-> "rejected"]

-----------------------------------------------------------------------------
(* What the caller makes of the truth.                                     *)

Available(m) == truth[m].services \ sight[m].missing

OfServices(m, s) ==
  [services |-> s,
   endpoints |-> {e \in truth[m].endpoints : e.service \in s},
   bindings  |-> {b \in truth[m].bindings : b.service \in s}]

(* A manifest is cut down to the services at hand: the stitcher refuses    *)
(* bindings of others.                                                     *)
GivenAt(m) ==
  LET all == OfServices(m, Available(m))
  IN  IF sight[m].stitched THEN all ELSE [all EXCEPT !.bindings = {}]

ComparisonInit ==
  /\ truth \in Truths /\ sight \in Sights
  /\ given = [m \in Moments |-> GivenAt(m)]
  /\ report = NoReport
  /\ StitchInit

-----------------------------------------------------------------------------
(* What is known of each moment.                                           *)

KnownService(m, s)  == s \notin sight[m].missing
AllServicesKnown(m) == sight[m].missing = {}
TopologyKnown(m)    == sight[m].manifest
ManifestBindings(m) == IF sight[m].manifest THEN truth[m].bindings ELSE {}

Comparable(s) == \A m \in Moments : KnownService(m, s)

TopologyComparable     == \A m \in Moments : TopologyKnown(m)
CorrelationsComparable == TopologyComparable /\ \A m \in Moments : AllServicesKnown(m)

(* The realms of the document must be those of the manifest at hand.       *)
Agrees(m) ==
  TopologyKnown(m) =>
    \A e \in given[m].endpoints :
      RealmIn(given[m].bindings, e) = RealmIn(ManifestBindings(m), e)

-----------------------------------------------------------------------------
(* Changes between two sets of snapshots with keys.                        *)

Keyed(key, value) == [key |-> key, value |-> value]

Keys(s) == {x.key : x \in s}

AmbiguousKeys(s) == {x.key : x \in {y \in s : \E z \in s : z # y /\ z.key = y.key}}

PairedUnique(old, new, s) ==
  {x \in s : x.key \notin AmbiguousKeys(old) \cup AmbiguousKeys(new)}

SnapshotAt(s, k) == {x.value : x \in {y \in s : y.key = k}}

Changes(old, new) ==
  LET before == PairedUnique(old, new, old)
      after  == PairedUnique(old, new, new)
  IN  {[key |-> k, before |-> SnapshotAt(before, k), after |-> SnapshotAt(after, k)] :
         k \in {j \in Keys(before) \cup Keys(after) :
                  SnapshotAt(before, j) # SnapshotAt(after, j)}}

(* The snapshots.  An analysis is known by its endpoints.                  *)

ServiceSnapshots(m) ==
  {Keyed(s, {e \in given[m].endpoints : e.service = s}) :
     s \in {t \in given[m].services : Comparable(t)}}

EndpointSnapshots(m) ==
  {Keyed(e.id, [contract |-> e.contract, realm |-> RealmIn(given[m].bindings, e)]) :
     e \in {x \in given[m].endpoints : Comparable(x.service)}}

BindingKey(b) ==
  <<b.service, b.role, IF b.record = Null THEN b.contract ELSE b.record>>

BindingSnapshots(m) ==
  {Keyed(BindingKey(b), [contract |-> b.contract, realm |-> b.realm]) :
     b \in ManifestBindings(m)}

CorrelationSnapshot(x) ==
  LET consumers == {c.id : c \in x.consumers}
  IN  Keyed(IF x.producer = Null THEN <<"consumers", consumers>>
                                 ELSE <<"producer", x.producer.id>>,
            [contract |-> IF x.producer = Null THEN {c.contract : c \in x.consumers}
                                               ELSE {x.producer.contract},
             state |-> x.state, reason |-> x.reason, consumers |-> consumers,
             realm |-> x.realm])

CorrelationSnapshots(m) == {CorrelationSnapshot(x) : x \in correlations[m]}

(* Mutant of CorrelationChanges: known topology is enough.                 *)
CorrelationChanges_Topology ==
  IF TopologyComparable THEN Changes(CorrelationSnapshots("before"), CorrelationSnapshots("after")) ELSE {}

CorrelationChanges ==
  IF CorrelationsComparable THEN Changes(CorrelationSnapshots("before"), CorrelationSnapshots("after")) ELSE {}

BindingChanges == IF TopologyComparable THEN Changes(BindingSnapshots("before"), BindingSnapshots("after")) ELSE {}

(* A candidate edge that came, went or is another one.                     *)
CandidateChanges ==
  LET candidates(values) == {v \in values : v.state = "declared_realm_candidate"}
  IN  {c \in CorrelationChanges : candidates(c.before) # candidates(c.after)}

(* Mutant of Uncertainties: nothing is said of collisions.                 *)
Uncertainties_NoCollisions ==
  {<<"service", s>> : s \in UNION {sight[m].missing : m \in Moments}}
    \cup (IF TopologyComparable THEN {} ELSE {<<"topology">>})
    \cup (IF CorrelationsComparable THEN {} ELSE {<<"correlations">>})

Uncertainties ==
  {<<"service", s>> : s \in UNION {sight[m].missing : m \in Moments}}
    \cup (IF TopologyComparable THEN {} ELSE {<<"topology">>})
    \cup (IF CorrelationsComparable THEN {} ELSE {<<"correlations">>})
    \cup (IF TopologyComparable
          THEN {<<"ambiguous", k>> : k \in UNION {AmbiguousKeys(BindingSnapshots(m)) : m \in Moments}}
          ELSE {})

Ready ==
  /\ report = NoReport /\ moment = "done"
  /\ \A m \in Moments : outcome[m] \in {"stitched", "absent"}

Compare ==
  /\ Ready /\ \A m \in Moments : Agrees(m)
  /\ report' =
       [state        |-> IF Uncertainties = {} THEN "completed" ELSE "completed_with_unknowns",
        services     |-> Changes(ServiceSnapshots("before"), ServiceSnapshots("after")),
        endpoints    |-> Changes(EndpointSnapshots("before"), EndpointSnapshots("after")),
        bindings     |-> BindingChanges,
        correlations |-> CorrelationChanges,
        candidates   |-> CandidateChanges,
        unknown      |-> Uncertainties]
  /\ UNCHANGED <<stitchVars, truth, sight>>

RejectInputs ==
  /\ Ready /\ \E m \in Moments : ~Agrees(m)
  /\ report' = Rejected
  /\ UNCHANGED <<stitchVars, truth, sight>>

ComparisonNext ==
  \/ StitchNext /\ UNCHANGED <<truth, sight, report>>
  \/ Compare
  \/ RejectInputs

ComparisonSpec == ComparisonInit /\ [][ComparisonNext]_comparisonVars

-----------------------------------------------------------------------------
(* Properties.  What has really changed, from the truth alone.             *)

Compared == report.state \in {"completed", "completed_with_unknowns"}

Differences(old, new) ==
  {[key |-> k, before |-> SnapshotAt(old, k), after |-> SnapshotAt(new, k)] :
     k \in {j \in Keys(old) \cup Keys(new) : SnapshotAt(old, j) # SnapshotAt(new, j)}}

TrueServices(m) ==
  {Keyed(s, {e \in truth[m].endpoints : e.service = s}) : s \in truth[m].services}

TrueEndpoints(m) ==
  {Keyed(e.id, [contract |-> e.contract, realm |-> RealmIn(truth[m].bindings, e)]) :
     e \in truth[m].endpoints}

TrueBindings(m) ==
  {Keyed(BindingKey(b), [contract |-> b.contract, realm |-> b.realm]) : b \in truth[m].bindings}

TrueCorrelations(m) ==
  LET all == OfServices(m, truth[m].services)
      of  == {e \in all.endpoints : e.role = "producer"}
  IN  {CorrelationSnapshot(x) :
         x \in {CorrelationOf(all, p) : p \in of}
              \cup {ConsumerAlone(all, c) :
                      c \in OfRole(all, "consumer") \ UNION {ConsumedBy(all, p) : p \in of}}}

DifferencesOf(Snapshots(_)) == Differences(Snapshots("before"), Snapshots("after"))

(* A topology that is missing was at hand when its system was stitched, or *)
(* declares nothing.                                                       *)
RealmsKept ==
  \A m \in Moments : sight[m].manifest \/ sight[m].stitched \/ truth[m].bindings = {}

ReportedIsReal ==
  Compared =>
    /\ report.services     \subseteq DifferencesOf(TrueServices)
    /\ report.endpoints    \subseteq DifferencesOf(TrueEndpoints)
    /\ report.bindings     \subseteq DifferencesOf(TrueBindings)
    /\ report.correlations \subseteq DifferencesOf(TrueCorrelations)

(* What is unavailable is unknown, not absent: a change in the report is a *)
(* change of the systems, however much of them was not there to see, if    *)
(* systems are stitched with their topology.                               *)
ChangesAreReal == RealmsKept => ReportedIsReal

(* When the topology is missing its realms are unknown, not absent: an     *)
(* endpoint that is the same at both moments is not reported as modified.  *)
UnknownIsNotAbsent ==
  Compared => Keys(report.endpoints) \subseteq Keys(DifferencesOf(TrueEndpoints))

(* What has changed and is not reported is covered by an uncertainty.      *)
NothingWithheldSilently ==
  Compared =>
    LET unsaid(reported, real) == {c \in real : c \notin reported}
        serviceOf(id) ==
          (CHOOSE e \in truth["before"].endpoints \cup truth["after"].endpoints : e.id = id).service
    IN  /\ \A c \in unsaid(report.services, DifferencesOf(TrueServices)) :
             <<"service", c.key>> \in report.unknown
        /\ \A c \in unsaid(report.endpoints, DifferencesOf(TrueEndpoints)) :
             <<"service", serviceOf(c.key)>> \in report.unknown \/ <<"topology">> \in report.unknown
        /\ \A c \in unsaid(report.bindings, DifferencesOf(TrueBindings)) :
             <<"ambiguous", c.key>> \in report.unknown \/ <<"topology">> \in report.unknown
        /\ unsaid(report.correlations, DifferencesOf(TrueCorrelations)) # {} =>
             <<"correlations">> \in report.unknown
=============================================================================

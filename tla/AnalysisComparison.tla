--------------------------- MODULE AnalysisComparison ---------------------------
(***************************************************************************)
(* How two analyses of one repository are compared:                        *)
(* compareAnalysisDocuments of src/src/comparison/compare.ts on the        *)
(* projection of src/src/comparison/projection.ts.                         *)
(*                                                                         *)
(* Canonical identifiers contain the revision of the repository, so the    *)
(* records of two analyses are matched by semantic keys.  A key that       *)
(* several records of one side share identifies none of them: they are     *)
(* left unmatched and the key is listed as an ambiguity.                   *)
(*                                                                         *)
(* An analysis is a record of                                              *)
(*   methods      identifiers of its methods                               *)
(*   controllers  records [id, key, access] of its controllers              *)
(*   endpoints    records [id, slot, handlers, guards, writes, gap,        *)
(*                requirements]: slot is the HTTP method and path, a       *)
(*                handler a record [method, status]; the other fields      *)
(*                are facts that policies look at                          *)
(*   diagnostics  records [id, key, severity, body]                        *)
(*   records      assertions, interactions, handlers, dispatches, branches  *)
(*                and branch effects, as records [id, key, body]: the key   *)
(*                names the kind, the body is what can change under a key   *)
(* and of the fields described in PolicyEvaluation and CiEvaluation.       *)
(* Which side of a comparison an ambiguity is on is told by its candidates.*)
(***************************************************************************)
EXTENDS Naturals, FiniteSets

CONSTANT
  MethodKey   (* The semantic key of a method: a function of identifiers.   *)

NoKey == [kind |-> "none"]
SlotKey(slot) == [kind |-> "endpoint_route_slot", slot |-> slot]

Ids(records) == {r.id : r \in records}

(* An identifier is made of the revision, the route of an endpoint and its   *)
(* method, or of what the key of a record says and more.                     *)
IdentifiersTell(b, c) ==
  /\ \A e, f \in b.endpoints \cup c.endpoints : e.id = f.id => e.slot = f.slot
  /\ \A r, s \in b.records \cup c.records : r.id = s.id => r.key = s.key

-----------------------------------------------------------------------------
(* The projection of an endpoint.                                          *)

(* groupCollisions: the methods whose key is the key of another one too.    *)
CollidingMethods(a) ==
  {m \in a.methods : \E o \in a.methods \ {m} : MethodKey[o] = MethodKey[m]}

IdentityStatus(a, e) ==
  IF \/ Cardinality(e.handlers) > 1
     \/ \E h \in e.handlers : h.status = "ambiguous" \/ h.method \in CollidingMethods(a)
    THEN "ambiguous"
  ELSE IF \E h \in e.handlers : h.status = "resolved" THEN "resolved"
  ELSE "unresolved"

ExactKey(a, e) ==
  IF IdentityStatus(a, e) # "resolved" THEN NoKey
  ELSE [kind |-> "endpoint_exact", slot |-> e.slot,
        handlers |-> {MethodKey[h.method] : h \in e.handlers}]

-----------------------------------------------------------------------------
(* compareEndpoints: b is the analysis before, c the one after.            *)

InSlot(a, slot) == {e \in a.endpoints : e.slot = slot}
Slots(b, c) == {e.slot : e \in b.endpoints \cup c.endpoints}

DuplicateSlots(b, c) ==
  {s \in Slots(b, c) : Cardinality(InSlot(b, s)) > 1 \/ Cardinality(InSlot(c, s)) > 1}

Ambiguous(a, slot) == {e \in InSlot(a, slot) : IdentityStatus(a, e) = "ambiguous"}

(* Mutant of BlockedIds: an ambiguous identity does not keep an endpoint     *)
(* from being matched by its route slot.                                     *)
BlockedIds_SlotsOnly(b, c) ==
  UNION {Ids(InSlot(b, s) \cup InSlot(c, s)) : s \in DuplicateSlots(b, c)}

(* blockedEndpointIds is one set for both sides: two checkouts of the same  *)
(* revision share identifiers, and then the side that is looked at first    *)
(* blocks the endpoint of the other.                                        *)
BlockedIds(b, c) ==
  (UNION {Ids(InSlot(b, s) \cup InSlot(c, s)) : s \in DuplicateSlots(b, c)})
    \cup (UNION {Ids(Ambiguous(b, s) \cup Ambiguous(c, s)) : s \in Slots(b, c)})

SlotAmbiguity(b, c, s) ==
  [kind |-> "endpoint_route_slot", record |-> "endpoint", key |-> SlotKey(s),
   before |-> Ids(InSlot(b, s)), after |-> Ids(InSlot(c, s))]

(* Only the first side reports an identifier that both sides have.          *)
ExactAmbiguity(b, c, s) ==
  [kind |-> "endpoint_exact_key", record |-> "endpoint", key |-> SlotKey(s),
   before |-> Ids(Ambiguous(b, s)),
   after  |-> Ids(Ambiguous(c, s)) \ Ids(Ambiguous(b, s))]

EndpointAmbiguities(b, c) ==
  {SlotAmbiguity(b, c, s) : s \in DuplicateSlots(b, c)}
    \cup {ExactAmbiguity(b, c, s) :
            s \in {t \in Slots(b, c) \ DuplicateSlots(b, c) :
                     Ambiguous(b, t) \cup Ambiguous(c, t) # {}}}

Available(a, b, c) == {e \in a.endpoints : e.id \notin BlockedIds(b, c)}

(* At most one available endpoint of a side has a slot, and an exact key    *)
(* contains the slot: no exact key is found twice at this point.            *)
ExactPairs(b, c) ==
  {p \in Available(b, b, c) \X Available(c, b, c) :
     /\ ExactKey(b, p[1]) # NoKey
     /\ ExactKey(b, p[1]) = ExactKey(c, p[2])}

SlotPairs(b, c) ==
  LET exact == ExactPairs(b, c)
      remainingBefore == Available(b, b, c) \ {p[1] : p \in exact}
      remainingAfter  == Available(c, b, c) \ {p[2] : p \in exact}
  IN  {p \in remainingBefore \X remainingAfter : p[1].slot = p[2].slot}

Pairs(b, c) == ExactPairs(b, c) \cup SlotPairs(b, c)

(* endpointModificationReasons, for the facts of an endpoint kept here.      *)
Handlers(e) == {<<MethodKey[h.method], h.status>> : h \in e.handlers}

ModificationReasons(b, c, e, f) ==
  {r \in {"handler", "direct_guards", "effective_guards", "terminals", "authorization"} :
     CASE r = "handler" ->
            \/ IdentityStatus(b, e) # IdentityStatus(c, f)
            \/ Handlers(e) # Handlers(f)
       [] r = "direct_guards"    -> e.guards # f.guards
       [] r = "effective_guards" -> <<b.globalGuards, e.guards>> # <<c.globalGuards, f.guards>>
       [] r = "terminals"        -> e.writes # f.writes
       [] r = "authorization"    -> e.requirements # f.requirements}

Removed(b, c) == b.endpoints \ {p[1] : p \in Pairs(b, c)}
Added(b, c)   == c.endpoints \ {p[2] : p \in Pairs(b, c)}

EndpointChange(change, slot, before, after) ==
  [change |-> change, slot |-> slot, before |-> before, after |-> after]

EndpointChanges(b, c) ==
  {EndpointChange("modified", p[1].slot, {p[1].id}, {p[2].id}) :
     p \in {q \in Pairs(b, c) : ModificationReasons(b, c, q[1], q[2]) # {}}}
    \cup {EndpointChange("removed", e.slot, {e.id}, {}) : e \in Removed(b, c)}
    \cup {EndpointChange("added", e.slot, {}, {e.id}) : e \in Added(b, c)}

-----------------------------------------------------------------------------
(* Diagnostics and every other kind of record are grouped by their keys.    *)

WithKey(records, key) == {r \in records : r.key = key}
Keys(before, after) == {r.key : r \in before \cup after}

AmbiguousKeys(before, after) ==
  {k \in Keys(before, after) :
     Cardinality(WithKey(before, k)) > 1 \/ Cardinality(WithKey(after, k)) > 1}

KeyAmbiguities(kind, before, after) ==
  {[kind |-> kind, record |-> k.kind, key |-> k,
    before |-> Ids(WithKey(before, k)), after |-> Ids(WithKey(after, k))] :
     k \in AmbiguousKeys(before, after)}

KeyChange(change, before, after) == [change |-> change, before |-> before, after |-> after]

KeyChanges(before, after) ==
  LET single == Keys(before, after) \ AmbiguousKeys(before, after)
      old == {r \in before : r.key \in single}
      new == {r \in after : r.key \in single}
  IN  {KeyChange("added", {}, {r}) : r \in {x \in new : WithKey(old, x.key) = {}}}
        \cup {KeyChange("removed", {r}, {}) : r \in {x \in old : WithKey(new, x.key) = {}}}
        \cup {KeyChange("modified", {p[1]}, {p[2]}) :
                p \in {q \in old \X new : q[1].key = q[2].key /\ q[1].body # q[2].body}}

(* A new diagnostic is "added" here, a resolved one "removed".               *)
(* Its severity is part of what may change under its key.                    *)
DiagnosticRecords(a) == {[d EXCEPT !.body = <<d.severity, d.body>>] : d \in a.diagnostics}
DiagnosticChanges(b, c) == KeyChanges(DiagnosticRecords(b), DiagnosticRecords(c))
DiagnosticAmbiguities(b, c) == KeyAmbiguities("diagnostic_key", b.diagnostics, c.diagnostics)

OfKind(a, kinds) == {r \in a.records : r.key.kind \in kinds}

Interactions == {"interaction", "interaction_handler", "interaction_handler_dispatch",
                 "interaction_handler_branch", "interaction_handler_branch_effect"}

(* Of an assertion only a change of its status is reported.                  *)
RecordChanges(b, c) ==
  LET changes(kinds) == KeyChanges(OfKind(b, kinds), OfKind(c, kinds))
  IN  {x \in changes({"assertion"}) : x.change = "modified"} \cup changes(Interactions)

RecordAmbiguities(b, c) ==
  KeyAmbiguities("assertion_key", OfKind(b, {"assertion"}), OfKind(c, {"assertion"}))
    \cup KeyAmbiguities("semantic_key", OfKind(b, Interactions), OfKind(c, Interactions))

CollidingControllers(a) == {k \in a.controllers : WithKey(a.controllers, k.key) # {k}}

(* addProjectionCollisions: the methods and the controllers that share a key *)
(* on their own side.                                                        *)
CollisionAmbiguities(b, c) ==
  LET ambiguity(record, key, before, after) ==
        [kind |-> "semantic_key", record |-> record, key |-> key, before |-> before, after |-> after]
      methods(a, key)     == {m \in CollidingMethods(a) : MethodKey[m] = key}
      controllers(a, key) == Ids(WithKey(CollidingControllers(a), key))
  IN  {ambiguity("method", [kind |-> "method", method |-> k], methods(b, k), methods(c, k)) :
         k \in {MethodKey[m] : m \in CollidingMethods(b) \cup CollidingMethods(c)}}
        \cup {ambiguity("class", k, controllers(b, k), controllers(c, k)) :
                k \in Keys(CollidingControllers(b), CollidingControllers(c))}

ComparisonAmbiguities(b, c) ==
  EndpointAmbiguities(b, c) \cup DiagnosticAmbiguities(b, c)
    \cup RecordAmbiguities(b, c) \cup CollisionAmbiguities(b, c)
=============================================================================

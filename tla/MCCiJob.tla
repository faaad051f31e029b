--------------------------------- MODULE MCCiJob ---------------------------------
(***************************************************************************)
(* One merge request: a baseline and a candidate with up to two endpoints  *)
(* in two route slots, handled by methods of which two share a semantic    *)
(* key, with and without guards, writes and diagnostics.                   *)
(***************************************************************************)
EXTENDS CiJob

CONSTANTS base, head, elsewhere

(* m1 and m3 are declared twice under one name in one file.                  *)
MCMethodKey == [m \in {"m1", "m2", "m3"} |-> IF m = "m2" THEN "g" ELSE "f"]

MCWriteSlots == {"POST /a"}

MCBaselineHeads  == {base, head}
MCCandidateHeads == {head, elsewhere, NoRevision}

Endpoint(revision, slot, method, writes, guards) ==
  [id |-> <<revision, slot, method>>, slot |-> slot,
   handlers |-> {[method |-> method, status |-> "resolved"]},
   writes |-> writes, guards |-> guards,
   gap |-> method = "m2", requirements |-> IF method = "m2" THEN {"unproven"} ELSE {}]

Analysis(revision, endpoints, extra, diagnostics, records, global) ==
  [revision |-> revision, endpoints |-> endpoints,
   methods |-> extra \cup UNION {{h.method : h \in e.handlers} : e \in endpoints},
   diagnostics |-> diagnostics, records |-> records, facts |-> endpoints # {} \/ extra # {},
   globalGuards |-> {}, globalGuardState |-> global,
   controllers |-> {}, interactionState |-> "complete"]

Diagnostic(revision, key, n, severity, body) ==
  [id |-> <<revision, key, n>>, key |-> [kind |-> "diagnostic", text |-> key], severity |-> severity, body |-> body]

(* Up to two endpoints, in one slot or in two.                               *)
Routes(r) ==
  LET write(slot, m, guards) == Endpoint(r, slot, m, {"resolved"}, guards)
      read(m) == Endpoint(r, "GET /b", m, {}, {})
  IN  {{}, {read("m1")}, {read("m2"), write("POST /a", "m1", {"resolved"})},
       {write("POST /a", "m1", {"resolved"})}, {write("POST /a", "m2", {"resolved"})},
       {write("POST /a", "m1", {})}, {write("POST /a", "m1", {"unresolved"})},
       {Endpoint(r, "POST /a", "m1", {"ambiguous"}, {})},
       {write("POST /a", "m1", {"resolved"}), write("POST /a", "m2", {})},
       {write("POST /a", "m1", {}), write("POST /a", "m3", {})}}

(* No diagnostic, one, one of each severity, and two that share their key.   *)
Findings(r) ==
  LET one(key, n, severity, body) == Diagnostic(r, key, n, severity, body)
  IN  {{one("k", 1, "warning", "x")}, {one("k", 1, "error", "y")},
       {one("l", 1, "info", "x")},
       {one("k", 1, "error", "x"), one("k", 2, "warning", "x")}}

Steady(r) == {Endpoint(r, "POST /a", "m1", {"resolved"}, {"resolved"})}

(* An assertion and an interaction, which may be one of two with their key.  *)
Assertion(r, n, state) ==
  [id |-> <<r, "assertion", n>>, key |-> [kind |-> "assertion", text |-> "x"], body |-> state]

Interaction(r, n, activation, target, matches) ==
  [id |-> <<r, "interaction", n>>, key |-> [kind |-> "interaction", text |-> target],
   body |-> activation, target |-> target, event |-> n = 1, matches |-> matches]

Records(r) ==
  {{Assertion(r, 1, "resolved"), Interaction(r, 1, "eager", "static", {"resolved"})},
   {Assertion(r, 1, "ambiguous"), Interaction(r, 1, "constructed_cold", "static", {"ambiguous"})},
   {Interaction(r, 1, "unknown", "dynamic", {})},
   {Interaction(r, 1, "proven_activated", "static", {}), Interaction(r, 2, "eager", "unknown", {})},
   {Assertion(r, 1, "resolved"), Assertion(r, 2, "ambiguous"),
    Interaction(r, 1, "eager", "static", {"resolved"}), Interaction(r, 2, "eager", "static", {})}}

(* Two controllers, of two names or of one.                                  *)
Controllers(r) ==
  LET one(n, name, access) == [id |-> <<r, "class", n>>, access |-> access,
                               key |-> [kind |-> "class", text |-> name]]
  IN  {{one(1, "C", {}), one(2, "D", {"unresolved"})}, {one(1, "C", {"resolved", "diagnosed"})},
       {one(1, "C", {}), one(2, "C", {"unsupported"})}}

MCAnalysesOf(r) ==
  {Analysis(r, routes, {}, {}, {}, "none_proven") : routes \in Routes(r)}
    \cup {Analysis(r, Steady(r), {}, {}, records, "none_proven") : records \in Records(r)}
    \cup {[Analysis(r, Steady(r), {}, {}, {}, "none_proven") EXCEPT !.controllers = controllers] :
            controllers \in Controllers(r)}
    \cup {Analysis(r, Steady(r), {"m3"}, {}, {}, "none_proven")}
    \cup {Analysis(r, {Endpoint(r, "POST /a", "m1", {"resolved"}, {})}, {}, {}, {}, "unknown")}
    \cup {Analysis(r, routes, {}, findings, {}, "none_proven") :
            routes \in {{}, Steady(r)}, findings \in Findings(r)}

Rule(severity, unknown) ==
  [severity |-> severity, onUnknown |-> unknown, minimumSeverity |-> "warning"]

MCConfigurations ==
  {[r \in Rules |-> Rule("error", "error")], [r \in Rules |-> Rule("error", "warn")],
   [r \in {"no-new-diagnostics", "require-guard-on-write-endpoint"} |-> Rule("error", "error")]}
=============================================================================

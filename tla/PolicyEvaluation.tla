---------------------------- MODULE PolicyEvaluation ----------------------------
(***************************************************************************)
(* The rules that decide a merge request: evaluatePolicies of              *)
(* src/src/policy/evaluate.ts with the effective guards of an endpoint of  *)
(* src/src/guards/effective.ts.                                            *)
(*                                                                         *)
(* A configuration maps the rules that are configured to records           *)
(* [severity, onUnknown, minimumSeverity].  Of an endpoint the rules see    *)
(*   guards        the statuses of the guards declared on it               *)
(*   writes        the statuses of the table writes it reaches             *)
(*   gap           whether a step of its trace is not resolved, or a       *)
(*                 diagnostic is about one                                 *)
(*   requirements  the enforcement states of its authorization metadata    *)
(* of an analysis the statuses of the guards registered globally, the state *)
(* of the search for them, the state of the analysis of interactions, and   *)
(* of a controller                                                         *)
(*   access        the statuses of the facts by which it or a method of it   *)
(*                 has to do with a repository or a table; "unsupported"     *)
(*                 stands for an operation that is not understood,           *)
(*                 "diagnosed" for an injection that is not                  *)
(* and of an interaction, whose body is its activation,                     *)
(*   target        "static", "dynamic" or "unknown"                         *)
(*   event         whether it is an event within the process                *)
(*   matches       the statuses of its matches with local handlers          *)
(***************************************************************************)
EXTENDS AnalysisComparison

CONSTANT
  WriteSlots  (* Slots of POST, PUT, PATCH, DELETE and ALL routes.         *)

EndpointRules == {"require-guard-on-write-endpoint", "require-complete-write-trace",
                  "require-proven-authorization-enforcement"}
InteractionRules == {"forbid-dynamic-interaction-target",
                     "require-proven-interaction-activation",
                     "require-local-in-process-event-handler"}
Rules == EndpointRules \cup InteractionRules
           \cup {"no-new-diagnostics", "no-repository-access-in-controller"}

Severities   == {"info", "warning", "error"}
SeverityRank == [info |-> 0, warning |-> 1, error |-> 2]

AnalysisSubject == [kind |-> "analysis"]

PolicyResult(configuration, rule, outcome, subject) ==
  LET severity == IF outcome = "unknown" THEN configuration[rule].onUnknown
                                         ELSE configuration[rule].severity
  IN  [rule |-> rule, outcome |-> outcome, severity |-> severity, subject |-> subject,
       blocking |-> outcome \in {"fail", "unknown"} /\ severity = "error"]

-----------------------------------------------------------------------------
(* Endpoints that share a key are one subject, and an ambiguous one.        *)

GroupKey(a, e) == IF ExactKey(a, e) = NoKey THEN SlotKey(e.slot) ELSE ExactKey(a, e)
GroupKeys(a)   == {GroupKey(a, e) : e \in a.endpoints}
Group(a, key)  == {e \in a.endpoints : GroupKey(a, e) = key}

EffectiveGuards(a, e) == a.globalGuards \cup e.guards

EffectiveGuardState(a, e) ==
  IF EffectiveGuards(a, e) # {} THEN "guard_declared"
  ELSE IF a.globalGuardState = "none_proven" THEN "no_supported_guard_proven"
  ELSE "unknown"

GuardOutcome(a, e) ==
  CASE e.writes = {}                            -> "not_applicable"
    [] e.writes = {"ambiguous"}                 -> "unknown"
    [] "resolved" \in e.writes
         /\ "resolved" \in EffectiveGuards(a, e) -> "pass"
    [] "resolved" \in e.writes
         /\ "resolved" \notin EffectiveGuards(a, e) ->
         IF EffectiveGuards(a, e) # {} \/ EffectiveGuardState(a, e) = "unknown"
           THEN "unknown" ELSE "fail"

(* The trace is asked for by method and path: several endpoints answer.     *)
HasGap(a, e) == e.gap \/ Cardinality(InSlot(a, e.slot)) > 1

CompleteTraceOutcome(a, e) ==
  CASE "resolved" \in e.writes -> IF HasGap(a, e) THEN "fail" ELSE "pass"
    [] e.writes = {"ambiguous"} -> "unknown"
    [] e.writes = {} -> IF e.slot \in WriteSlots /\ HasGap(a, e) THEN "unknown"
                                                                 ELSE "not_applicable"

AuthorizationOutcome(a, e) ==
  IF e.requirements = {} THEN "not_applicable"
  ELSE IF e.requirements = {"proven_enforced"} THEN "pass"
  ELSE "unknown"

RuleOutcome(rule, a, e) ==
  CASE rule = "require-guard-on-write-endpoint"          -> GuardOutcome(a, e)
    [] rule = "require-complete-write-trace"             -> CompleteTraceOutcome(a, e)
    [] rule = "require-proven-authorization-enforcement" -> AuthorizationOutcome(a, e)

GroupOutcome(rule, a, key) ==
  IF Cardinality(Group(a, key)) # 1 THEN "unknown"
  ELSE RuleOutcome(rule, a, CHOOSE e \in Group(a, key) : TRUE)

EndpointRuleResults(configuration, rule, a) ==
  IF a.endpoints = {}
    THEN {PolicyResult(configuration, rule, "not_applicable", AnalysisSubject)}
    ELSE {PolicyResult(configuration, rule, GroupOutcome(rule, a, key), key) :
            key \in GroupKeys(a)}

-----------------------------------------------------------------------------
(* evaluateRepositoryRule: controllers that share a key are one subject.     *)

ControllersOf(a, key) == {k \in a.controllers : k.key = key}

RepositoryOutcome(group) ==
  LET access == UNION {k.access : k \in group}
  IN  IF Cardinality(group) > 1 THEN "unknown"
      ELSE IF access \cap {"resolved", "unsupported"} # {} THEN "fail"
      ELSE IF access # {} THEN "unknown"
      ELSE "pass"

RepositoryResults(configuration, rule, a) ==
  IF a.controllers = {}
    THEN {PolicyResult(configuration, rule, "not_applicable", AnalysisSubject)}
    ELSE {PolicyResult(configuration, rule, RepositoryOutcome(ControllersOf(a, key)), key) :
            key \in {k.key : k \in a.controllers}}

-----------------------------------------------------------------------------
(* The rules about interactions.  The key of the subject contains the place *)
(* of the interaction, so that every interaction is a subject of its own.   *)

InteractionSubject(r) == [kind |-> "interaction", id |-> r.id]

TargetOutcome(r) == [static |-> "pass", dynamic |-> "fail", unknown |-> "unknown"][r.target]

ActivationOutcome(r) ==
  CASE r.body \in {"eager", "proven_activated"} -> "pass"
    [] r.body = "constructed_cold"             -> "fail"
    [] r.body = "unknown"                      -> "unknown"

HandlerOutcome(a, r) ==
  IF "resolved" \in r.matches THEN "pass"
  ELSE IF r.target = "dynamic" \/ r.matches # {} \/ a.interactionState # "complete" THEN "unknown"
  ELSE "fail"

InteractionOutcome(rule, a, r) ==
  CASE rule = "forbid-dynamic-interaction-target"      -> TargetOutcome(r)
    [] rule = "require-proven-interaction-activation"  -> ActivationOutcome(r)
    [] rule = "require-local-in-process-event-handler" -> HandlerOutcome(a, r)

InteractionSubjects(rule, a) ==
  {r \in OfKind(a, {"interaction"}) : rule = "require-local-in-process-event-handler" => r.event}

InteractionRuleResults(configuration, rule, a) ==
  IF InteractionSubjects(rule, a) = {}
    THEN {PolicyResult(configuration, rule, "not_applicable", AnalysisSubject)}
    ELSE {PolicyResult(configuration, rule, InteractionOutcome(rule, a, r), InteractionSubject(r)) :
            r \in InteractionSubjects(rule, a)}

-----------------------------------------------------------------------------
(* evaluateDiagnosticRule: b is the baseline, c the candidate.              *)

NewDiagnostics(b, c, minimum) ==
  {x \in DiagnosticChanges(b, c) :
     /\ x.change = "added"
     /\ \A d \in x.after : SeverityRank[d.severity] >= SeverityRank[minimum]}

(* Mutant of DiagnosticOutcome: only what is known to be new counts.         *)
DiagnosticOutcome_NewOnly(b, c, minimum) ==
  IF NewDiagnostics(b, c, minimum) # {} THEN "fail" ELSE "pass"

DiagnosticOutcome(b, c, minimum) ==
  IF NewDiagnostics(b, c, minimum) # {} THEN "fail"
  ELSE IF DiagnosticAmbiguities(b, c) # {} THEN "unknown"
  ELSE "pass"

DiagnosticResults(configuration, rule, b, c) ==
  {PolicyResult(configuration, rule,
                DiagnosticOutcome(b, c, configuration[rule].minimumSeverity), AnalysisSubject)}

RuleResults(configuration, rule, b, c) ==
  CASE rule \in EndpointRules    -> EndpointRuleResults(configuration, rule, c)
    [] rule \in InteractionRules -> InteractionRuleResults(configuration, rule, c)
    [] rule = "no-repository-access-in-controller" -> RepositoryResults(configuration, rule, c)
    [] rule = "no-new-diagnostics" -> DiagnosticResults(configuration, rule, b, c)

PolicyResults(configuration, b, c) ==
  UNION {RuleResults(configuration, rule, b, c) : rule \in DOMAIN configuration}
=============================================================================

------------------------------ MODULE CiEvaluation ------------------------------
(***************************************************************************)
(* The evaluation of a merge request from its artifacts:                   *)
(* evaluateCiArtifacts of src/src/ci-evaluation/evaluate.ts with the       *)
(* validator of the document it makes (validate.ts) and the result state   *)
(* of an analysis (src/src/analysis/result-state.ts).                      *)
(*                                                                         *)
(* An analysis has two more fields: revision, the head of the checkout it  *)
(* was made from, and facts, whether anything trusted was found.  The      *)
(* artifacts of one run carry the provenance of its two analyses, which    *)
(* were made by one tool with one configuration, so the comparison of      *)
(* provenances before the evaluation always succeeds and is left out.      *)
(***************************************************************************)
EXTENDS PolicyEvaluation

CONSTANT
  NoRevision  (* The revision of a checkout that is no Git repository.      *)

(* deriveAnalysisResultState; no signal reaches the scans of a CI job.      *)
ResultState(a) ==
  IF ~a.facts /\ \E d \in a.diagnostics : d.severity = "error" THEN "failed"
  ELSE IF a.diagnostics = {} THEN "completed"
  ELSE "completed_with_gaps"

Gap(code, about) == [code |-> code, about |-> about]

(* createGaps; the gaps that the impact search adds are left out.            *)
Gaps(results, b, c) ==
  LET analysis == [baseline |-> b, candidate |-> c]
      sides(code, Holds(_)) ==
        {Gap(code, [side |-> s]) : s \in {t \in {"baseline", "candidate"} : Holds(analysis[t])}}
      incomplete(a) == ResultState(a) = "completed_with_gaps"
      unknownRevision(a) == a.revision = NoRevision
  IN  sides("analysis_incomplete", incomplete)
        \cup sides("repository_revision_missing", unknownRevision)
        \cup {Gap("comparison_ambiguity", x) : x \in ComparisonAmbiguities(b, c)}
        \cup {Gap("policy_unknown", r) : r \in {x \in results : x.outcome = "unknown"}}

Evaluation(configuration, b, c) ==
  LET results == PolicyResults(configuration, b, c)
  IN  [outcome   |-> IF \E r \in results : r.blocking THEN "policy_violation" ELSE "success",
       changes   |-> EndpointChanges(b, c),
       policies  |-> results,
       gaps      |-> Gaps(results, b, c),
       baseline  |-> b.revision,
       candidate |-> c.revision]

(* addDuplicateIssues: the kind of a change and its route slot name it.      *)
(* Policy results are one for each subject, diagnostics have identifiers.    *)
RepeatsRecords(evaluation) ==
  \E x, y \in evaluation.changes : x # y /\ x.change = y.change /\ x.slot = y.slot
=============================================================================

---------------------------------- MODULE CiJob ----------------------------------
(***************************************************************************)
(* One merge-request job of api-intel, on GitLab or as the GitHub action:  *)
(* runCiRepositoryEvaluation (src/src/ci-adapter/runner.ts), which both    *)
(* adapters call, their runners and entry points (src/src/gitlab-ci,       *)
(* src/src/github-action) and the steps of action.yml.                     *)
(*                                                                         *)
(* The job checks its inputs, installs the dependencies of two checkouts,  *)
(* analyses both, evaluates, publishes a bundle of files and ends green or *)
(* red.  Any command, file operation or check may refuse, and the runner   *)
(* may be killed between any two steps.  A failure is reported through     *)
(* files of its own on GitLab and through the outputs of the step on       *)
(* GitHub; reporting can fail too.                                         *)
(*                                                                         *)
(* Whole documents of a bundle are one file here ("documents"): they are   *)
(* written one after the other like the rest of the plan.  Temporary files *)
(* of the writer are the subject of AtomicFiles.  Which code an outcome    *)
(* exits with is one-to-one, so outcomes stand for exit codes.             *)
(***************************************************************************)
EXTENDS CiEvaluation, Sequences

CONSTANTS
  DeclaredBaseline,   (* The revisions the job is told to compare.          *)
  DeclaredCandidate,
  BaselineHeads,      (* The revisions the two checkouts may be at.          *)
  CandidateHeads,
  AnalysesOf(_),      (* The analyses a checkout of a revision may give.     *)
  Configurations,     (* Policy configurations the baseline may contain.     *)
  NotScanned          (* Stands for the analysis before it is made.          *)

(* Two checkouts of one commit give one analysis.                            *)
CandidatesOf(before, revision) ==
  IF revision = before.revision /\ revision # NoRevision
    THEN {before} ELSE AnalysesOf(revision)

(* What the checks of an analysis document and the making of identifiers     *)
(* (src/src/model/ids.ts) see to.                                            *)
AnalysisOK(a) ==
  /\ a # NotScanned
  /\ IsFiniteSet(a.endpoints) /\ IsFiniteSet(a.controllers)
  /\ IsFiniteSet(a.diagnostics) /\ IsFiniteSet(a.records)
  /\ \A d \in a.diagnostics :
       /\ d = [id |-> d.id, key |-> d.key, severity |-> d.severity, body |-> d.body]
       /\ d.severity \in Severities

ASSUME AnalysesAssumption ==
  /\ \A r \in BaselineHeads \cup CandidateHeads : \A a \in AnalysesOf(r) : AnalysisOK(a)
  /\ \A r \in BaselineHeads, s \in CandidateHeads : \A b \in AnalysesOf(r) :
       \A c \in CandidatesOf(b, s) : IdentifiersTell(b, c)

(* The severities of rules and of unknown results are "warn" and "error".    *)
ASSUME ConfigurationsAssumption ==
  \A configured \in Configurations :
    /\ DOMAIN configured \subseteq Rules
    /\ \A rule \in DOMAIN configured :
         /\ configured[rule].onUnknown \in {"warn", "error"}
         /\ configured[rule].minimumSeverity \in Severities

VARIABLES
  platform,       (* "gitlab" or "github".                                   *)
  step,           (* The next thing the job does.                            *)
  configuration,  (* The rules of the trusted project configuration.         *)
  baseline,       (* The analyses of the two checkouts.                      *)
  candidate,
  directory,      (* The publication directory: see Directories.             *)
  disk,           (* What each file of the publication holds.                *)
  next,           (* The file of the plan that is renamed next.              *)
  failure,        (* The outcome of the error that was caught.               *)
  outputs,        (* GitHub: what the outputs of the step say last.          *)
  stepFailed,     (* GitHub: whether a step before the last one failed.      *)
  exit,           (* The outcome whose code the job exited with.             *)
  status,         (* "running", "green" or "red".                            *)
  refused         (* History: something outside this program refused.        *)

vars == <<platform, step, configuration, baseline, candidate, directory, disk, next,
          failure, outputs, stepFailed, exit, status, refused>>

inputs   == <<platform, configuration, baseline, candidate>>
storage  == <<directory, disk, next>>
verdicts == <<outputs, stepFailed, exit, status>>

Directories == {"absent", "leftover", "made"}

(* Mutant of GitLabPlan: the result is written before what it refers to.      *)
GitLabPlan_ResultFirst == <<"process-result.json", "documents", "manifest.json",
                            "gl-code-quality-report.json", "gitlab-summary.md">>

GitLabPlan == <<"documents", "manifest.json", "gl-code-quality-report.json",
                "gitlab-summary.md", "process-result.json">>
GitHubPlan == <<"documents", "manifest.json">>
Plan       == IF platform = "gitlab" THEN GitLabPlan ELSE GitHubPlan

FailurePlan == <<"gl-code-quality-report.json", "gitlab-summary.md", "process-result.json">>

Files == {GitLabPlan[i] : i \in DOMAIN GitLabPlan}

NoOutputs == [code |-> "none", artifact |-> FALSE]

(* The document evaluateCiArtifacts makes of the two analyses.               *)
TheEvaluation == Evaluation(configuration, baseline, candidate)

Init ==
  /\ platform \in {"gitlab", "github"}
  /\ step = "inputs"
  /\ configuration = << >>
  /\ baseline = NotScanned /\ candidate = NotScanned
  /\ directory \in {"absent", "leftover"}
  /\ disk = [f \in Files |-> IF directory = "leftover" THEN "foreign" ELSE "none"]
  /\ next = 1
  /\ failure = "none"
  /\ outputs = NoOutputs
  /\ stepFailed = FALSE
  /\ exit = "none"
  /\ status = "running"
  /\ refused = FALSE

-----------------------------------------------------------------------------
(* Errors are caught at the entry point, which reports them.                *)

GoTo(label) == step' = label

Throw(outcome) == failure' = outcome /\ GoTo("report")

(* Inputs, paths, package manager versions, lockfiles, the configuration,    *)
(* the limits of the graph: every such error ends as invalid_input.          *)
Refuse ==
  /\ step \in {"inputs", "prepare", "configure", "stage"}
  /\ Throw("invalid_input")
  /\ refused' = TRUE
  /\ UNCHANGED <<inputs, storage, verdicts>>

CommandFails ==
  /\ step \in {"install", "scan baseline", "scan candidate"}
  /\ Throw("analysis_failure")
  /\ refused' = TRUE
  /\ UNCHANGED <<inputs, storage, verdicts>>

(* The steps that only check or start commands, when they succeed.           *)
Proceed ==
  /\ \/ step = "inputs" /\ GoTo(IF platform = "gitlab" THEN "fresh" ELSE "prepare")
     \/ step = "fresh" /\ directory = "absent" /\ GoTo("prepare")
     \/ step = "prepare" /\ GoTo("install")
     \/ step = "install" /\ GoTo("configure")
  /\ UNCHANGED <<inputs, storage, failure, verdicts, refused>>

(* GitLab: the publication directory is in the checkout of the candidate.    *)
RefuseExistingDirectory ==
  /\ step = "fresh"
  /\ directory # "absent"
  /\ Throw("invalid_input")
  /\ UNCHANGED <<inputs, storage, verdicts, refused>>

-----------------------------------------------------------------------------
(* The evaluation of the two checkouts.                                     *)

LoadConfiguration ==
  /\ step = "configure"
  /\ configuration' \in Configurations
  /\ GoTo("scan baseline")
  /\ UNCHANGED <<platform, baseline, candidate, storage, failure, verdicts, refused>>

ScanBaseline(revision) ==
  /\ step = "scan baseline"
  /\ baseline' \in AnalysesOf(revision)
  /\ GoTo("scan candidate")
  /\ UNCHANGED <<platform, configuration, candidate, storage, failure, verdicts, refused>>

ScanCandidate(revision) ==
  /\ step = "scan candidate"
  /\ candidate' \in CandidatesOf(baseline, revision)
  /\ GoTo("evaluate")
  /\ UNCHANGED <<platform, configuration, baseline, storage, failure, verdicts, refused>>

AnalysisFailed == "failed" \in {ResultState(baseline), ResultState(candidate)}

RefuseFailedAnalysis ==
  /\ step = "evaluate"
  /\ AnalysisFailed
  /\ Throw("analysis_failure")
  /\ UNCHANGED <<inputs, storage, verdicts, refused>>

RejectEvaluation ==
  /\ step = "evaluate"
  /\ ~AnalysisFailed
  /\ RepeatsRecords(TheEvaluation)
  /\ Throw("invalid_input")
  /\ UNCHANGED <<inputs, storage, verdicts, refused>>

(* Mutant of RevisionsMatch: the baseline is trusted to be the declared one.  *)
RevisionsMatch_CandidateOnly == candidate.revision = DeclaredCandidate

RevisionsMatch ==
  baseline.revision = DeclaredBaseline /\ candidate.revision = DeclaredCandidate

Evaluate ==
  /\ step = "evaluate"
  /\ ~AnalysisFailed
  /\ ~RepeatsRecords(TheEvaluation)
  /\ IF RevisionsMatch THEN GoTo("stage") /\ UNCHANGED failure
                       ELSE Throw("incompatible_baseline")
  /\ UNCHANGED <<inputs, storage, verdicts, refused>>

-----------------------------------------------------------------------------
(* writeTextFilesAtomically(files).                                         *)

MakeDirectory == directory' = IF directory = "absent" THEN "made" ELSE directory

Stage ==
  /\ step = "stage"
  /\ MakeDirectory
  /\ GoTo("commit")
  /\ UNCHANGED <<inputs, disk, next, failure, verdicts, refused>>

(* The directories of the first file are made before anything else is tried. *)
StageFails ==
  /\ step = "stage"
  /\ MakeDirectory
  /\ Throw("invalid_input")
  /\ refused' = TRUE
  /\ UNCHANGED <<inputs, disk, next, verdicts>>

Finish(outcome) ==
  /\ exit' = outcome
  /\ status' = IF outcome = "success" THEN "green" ELSE "red"
  /\ GoTo("done")

CommitFile ==
  /\ step = "commit"
  /\ disk' = [disk EXCEPT ![Plan[next]] = "evaluated"]
  /\ IF next < Len(Plan)
       THEN next' = next + 1 /\ UNCHANGED <<step, exit, status>>
       ELSE /\ next' = 1
            /\ IF platform = "gitlab" THEN Finish(TheEvaluation.outcome)
               ELSE GoTo("summary") /\ UNCHANGED <<exit, status>>
  /\ UNCHANGED <<inputs, directory, failure, outputs, stepFailed, refused>>

CommitFails ==
  /\ step = "commit"
  /\ next' = 1
  /\ Throw("invalid_input")
  /\ refused' = TRUE
  /\ UNCHANGED <<inputs, directory, disk, verdicts>>

-----------------------------------------------------------------------------
(* GitHub: the summary and the outputs of the step are appended to files.   *)

AppendSummary ==
  /\ step = "summary"
  /\ GoTo("outputs")
  /\ UNCHANGED <<inputs, storage, failure, verdicts, refused>>

(* The lines of an append arrive from the first to the last: the code stands *)
(* before the path of the artifact.                                          *)
PrefixesOf(code, artifact) ==
  {outputs, [outputs EXCEPT !.code = code], [code |-> code, artifact |-> artifact]}

AppendOutputs ==
  /\ step = "outputs"
  /\ outputs' = [code |-> TheEvaluation.outcome, artifact |-> TRUE]
  /\ GoTo("upload")
  /\ UNCHANGED <<inputs, storage, failure, stepFailed, exit, status, refused>>

AppendFails ==
  /\ \/ step = "summary" /\ UNCHANGED outputs
     \/ step = "outputs" /\ outputs' \in PrefixesOf(TheEvaluation.outcome, TRUE)
  /\ Throw("invalid_input")
  /\ refused' = TRUE
  /\ UNCHANGED <<inputs, storage, stepFailed, exit, status>>

AppendFailure ==
  /\ platform = "github" /\ step = "report"
  /\ outputs' = [code |-> failure, artifact |-> FALSE]
  /\ GoTo("upload")
  /\ UNCHANGED <<inputs, storage, failure, stepFailed, exit, status, refused>>

(* An error of the catch clause ends the process: the step fails.            *)
AppendFailureFails ==
  /\ platform = "github" /\ step = "report"
  /\ outputs' \in PrefixesOf(failure, FALSE)
  /\ stepFailed' = TRUE
  /\ GoTo("enforce")
  /\ refused' = TRUE
  /\ UNCHANGED <<inputs, storage, failure, exit, status>>

(* The upload runs after a step that succeeded and named an artifact.        *)
Upload ==
  /\ step = "upload"
  /\ \/ UNCHANGED <<stepFailed, refused>>
     \/ outputs.artifact /\ stepFailed' = TRUE /\ refused' = TRUE
  /\ GoTo("enforce")
  /\ UNCHANGED <<inputs, storage, failure, outputs, exit, status>>

(* always(): exit with the code of the outputs unless it is 0.               *)
Enforce ==
  /\ step = "enforce"
  /\ exit' = outputs.code
  /\ status' = IF outputs.code = "success" /\ ~stepFailed THEN "green" ELSE "red"
  /\ GoTo("done")
  /\ UNCHANGED <<inputs, storage, failure, outputs, stepFailed, refused>>

-----------------------------------------------------------------------------
(* GitLab: writeGitLabFailureArtifacts, unless the directory exists.         *)

StageFailureFiles ==
  /\ platform = "gitlab" /\ step = "report"
  /\ directory = "absent"
  /\ MakeDirectory
  /\ GoTo("report files")
  /\ UNCHANGED <<inputs, disk, next, failure, verdicts, refused>>

CommitFailureFile ==
  /\ step = "report files"
  /\ disk' = [disk EXCEPT ![FailurePlan[next]] = "failure"]
  /\ IF next < Len(FailurePlan)
       THEN next' = next + 1 /\ UNCHANGED <<step, exit, status>>
       ELSE next' = 1 /\ Finish(failure)
  /\ UNCHANGED <<inputs, directory, failure, outputs, stepFailed, refused>>

(* What is there is not touched; the exit code is that of the first error.   *)
RefuseFailureFiles ==
  /\ platform = "gitlab" /\ step = "report"
  /\ directory # "absent"
  /\ Finish(failure)
  /\ UNCHANGED <<inputs, storage, failure, outputs, stepFailed, refused>>

(* CI_PROJECT_DIR is not known, or the writer fails.                         *)
FailureFilesFail ==
  /\ \/ platform = "gitlab" /\ step = "report" /\ UNCHANGED directory
     \/ step = "report files" /\ UNCHANGED directory
     \/ platform = "gitlab" /\ step = "report" /\ MakeDirectory
  /\ Finish(failure)
  /\ refused' = TRUE
  /\ UNCHANGED <<inputs, disk, next, failure, outputs, stepFailed>>

(* The runner ends the job: a time limit, a canceled pipeline, no memory.    *)
Kill ==
  /\ step # "done"
  /\ status' = "red"
  /\ GoTo("done")
  /\ refused' = TRUE
  /\ UNCHANGED <<inputs, storage, failure, outputs, stepFailed, exit>>

Next ==
  \/ Refuse \/ CommandFails \/ Proceed \/ RefuseExistingDirectory
  \/ LoadConfiguration
  \/ \E revision \in BaselineHeads : ScanBaseline(revision)
  \/ \E revision \in CandidateHeads : ScanCandidate(revision)
  \/ RefuseFailedAnalysis \/ RejectEvaluation \/ Evaluate
  \/ Stage \/ StageFails \/ CommitFile \/ CommitFails
  \/ AppendSummary \/ AppendOutputs \/ AppendFails
  \/ AppendFailure \/ AppendFailureFails \/ Upload \/ Enforce
  \/ StageFailureFiles \/ CommitFailureFile \/ RefuseFailureFiles \/ FailureFilesFail
  \/ Kill

Spec == Init /\ [][Next]_vars

-----------------------------------------------------------------------------
(* Properties.                                                             *)

Completed(a) == a # NotScanned /\ ResultState(a) # "failed"

InPlan(content) == \A i \in DOMAIN Plan : disk[Plan[i]] = content

(* A green job has been evaluated: both analyses were completed, at the      *)
(* revisions the job was told to compare, no policy result blocks, every     *)
(* file of the bundle was published by this job, and on GitHub the outputs   *)
(* say so and name the bundle.  No order of refusals, torn appends and       *)
(* kills of the job turns anything else green (ci-adapter/runner.ts 404-445, *)
(* gitlab-ci/main.ts 115-132, github-action/main.ts 121-145, action.yml).    *)
GreenMeansEvaluated ==
  status = "green" =>
    /\ Completed(baseline) /\ Completed(candidate)
    /\ baseline.revision = DeclaredBaseline /\ candidate.revision = DeclaredCandidate
    /\ ~\E r \in TheEvaluation.policies : r.blocking
    /\ InPlan("evaluated")
    /\ platform = "github" => outputs = [code |-> "success", artifact |-> TRUE]

(* What is published agrees with how the job ended.  On GitLab a process     *)
(* result stands for a whole bundle of that outcome, or for a failure with   *)
(* empty findings and no bundle, and files of another origin are never mixed *)
(* with files of the job; a job that ran to its end without a refusal from   *)
(* outside leaves a result, unless its directory was there before.  On       *)
(* GitHub an artifact is only named to the upload when its bundle is whole   *)
(* (gitlab-ci/runner.ts 50-106 and 128-186, github-action/runner.ts 109-127).*)
ReportedOutcomeAgrees ==
  /\ platform = "gitlab" =>
       LET result == disk["process-result.json"]
           findings == {disk["gl-code-quality-report.json"], disk["gitlab-summary.md"]}
       IN  /\ result = "evaluated" => InPlan("evaluated") /\ exit = TheEvaluation.outcome
           /\ result = "failure" => /\ findings = {"failure"}
                                    /\ disk["documents"] = "none"
                                    /\ exit = failure
           /\ "foreign" \in {disk[f] : f \in Files} => \A f \in Files : disk[f] = "foreign"
           /\ (step = "done" /\ ~refused /\ directory # "leftover") => result # "none"
  /\ (platform = "github" /\ step = "enforce" /\ ~stepFailed /\ outputs.artifact) =>
       InPlan("evaluated") /\ outputs.code = TheEvaluation.outcome

(* Nothing is matched by guessing: every endpoint of a side is in exactly    *)
(* one pair, removed or added; a pair shares its route slot, and neither     *)
(* side of it is ambiguous or one of several in its slot; and where an       *)
(* endpoint of one slot is both removed and added, an ambiguity is listed    *)
(* for the slot.  A record whose key is ambiguous is in no change            *)
(* (comparison/compare.ts 219-375 and 381-703).                              *)
NothingPairedByGuess ==
  step = "evaluate" =>
    LET pairs == Pairs(baseline, candidate)
        certain(a, e) == /\ InSlot(a, e.slot) = {e}
                         /\ IdentityStatus(a, e) # "ambiguous"
        gone == {e.slot : e \in Removed(baseline, candidate)}
        come == {e.slot : e \in Added(baseline, candidate)}
    IN  /\ \A p, q \in pairs : p[1] = q[1] <=> p[2] = q[2]
        /\ \A p \in pairs : /\ p[1].slot = p[2].slot
                            /\ certain(baseline, p[1]) /\ certain(candidate, p[2])
        /\ \A s \in gone \cap come :
             \E x \in EndpointAmbiguities(baseline, candidate) : x.key = SlotKey(s)
        /\ \A x \in RecordChanges(baseline, candidate), y \in RecordAmbiguities(baseline, candidate) :
             \A r \in x.before \cup x.after : r.key # y.key /\ r.id \notin y.before \cup y.after

(* No blocking rule is passed in silence.  When a job is green under a rule  *)
(* of severity error, what the rule asks for holds of the candidate: a proven*)
(* write endpoint has a proven guard or a trace without gaps, a controller   *)
(* has no proven access to a repository, an event has a handler, a diagnostic*)
(* of the severity has its key in the baseline.  Where it does not hold, the *)
(* rule is configured not to block what is unknown and the evaluation lists  *)
(* the unknown result as a gap (policy/evaluate.ts, ci-evaluation/evaluate.ts*)
(* 337-424).                                                                 *)
NoSilentPass ==
  status = "green" =>
    LET blocks(rule) == rule \in DOMAIN configuration /\ configuration[rule].severity = "error"
        listed(rule, subject) ==
          /\ configuration[rule].onUnknown = "warn"
          /\ \E g \in TheEvaluation.gaps :
               g.code = "policy_unknown" /\ g.about.rule = rule /\ g.about.subject = subject
        writing == {e \in candidate.endpoints : "resolved" \in e.writes}
        known   == {d.key : d \in baseline.diagnostics}
    IN  /\ blocks("require-guard-on-write-endpoint") =>
             \A e \in writing : \/ "resolved" \in candidate.globalGuards \cup e.guards
                               \/ listed("require-guard-on-write-endpoint", GroupKey(candidate, e))
        /\ blocks("require-complete-write-trace") =>
             \A e \in writing : \/ ~e.gap
                               \/ listed("require-complete-write-trace", GroupKey(candidate, e))
        /\ blocks("no-repository-access-in-controller") =>
             \A k \in candidate.controllers :
               \/ k.access \cap {"resolved", "unsupported"} = {}
               \/ listed("no-repository-access-in-controller", k.key)
        /\ blocks("require-local-in-process-event-handler") =>
             \A r \in candidate.records :
               \/ r.key.kind # "interaction" \/ ~r.event \/ "resolved" \in r.matches
               \/ listed("require-local-in-process-event-handler", InteractionSubject(r))
        /\ blocks("no-new-diagnostics") =>
             \A d \in candidate.diagnostics :
               \/ d.key \in known
               \/ SeverityRank[d.severity]
                    < SeverityRank[configuration["no-new-diagnostics"].minimumSeverity]
               \/ listed("no-new-diagnostics", AnalysisSubject)

(* docs/ci-evaluation.md:51-52 lists comparison ambiguity among the gaps of  *)
(* an evaluation, and exit code 10 is for documents that fail validation:    *)
(* two completed analyses of the declared revisions, with nothing refused    *)
(* from outside and a fresh directory, end in an evaluation.  Endpoints that *)
(* share a route slot make the validator reject the document instead         *)
(* (ci-evaluation/validate.ts:101).                                          *)
AmbiguityIsAGap ==
  (step = "done" /\ ~refused /\ directory = "made"
     /\ Completed(baseline) /\ Completed(candidate) /\ RevisionsMatch) =>
    exit \in {"success", "policy_violation"}
=============================================================================

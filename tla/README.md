# A verification development for api-intel

api-intel analyses a NestJS repository without running it: it extracts facts (endpoints,
methods, calls, interactions, guards, table accesses) into one canonical analysis document,
derives traces, reports, impacts and comparisons from that document, and publishes them as
files, to CI systems and over MCP. This directory models the parts of it that have state,
order, limits or failures of their own in TLA+, checks the models with TLC, and proves the
most important results with TLAPS.

- [Parts of the system](#parts-of-the-system): the inventory.
- [The modules](#the-modules): how state and actions correspond to the code.
- [The runs](#the-runs): what each checks, with which bounds, and why they are enough.
- [Fairness](#fairness), [What is proved](#what-is-proved),
  [What is only model-checked](#what-is-only-model-checked).
- [Where code and documentation differ](#where-code-and-documentation-differ).
- [What is not modelled](#what-is-not-modelled) and [Plan](#plan).

`PROJECT.json` lists components, runs, hazards, theorems, findings, the lines of source every
definition stands for, and for every property a mutated definition that breaks it. Paths below
are relative to the repository, whose program is under `src/`; `MC*.tla` and `MC*.cfg` are the
instances for TLC.

## Parts of the system

| Part | State it keeps | Operations | What is hard | What makes it correct |
|---|---|---|---|---|
| Atomic file writer (`output/atomic-files.ts`) | destinations, temporaries | stage, rename, roll back | processes that interleave, cancellation, I/O errors, death between renames | destinations whole, plan order, nothing published by a refused call, no temporary left |
| Artifact publication (`output/`, `cli/commands/scan.ts`, `report.ts`) | output directory, trace manifest, `bundle.json` | plan, commit, sweep stale traces, exit code | overlapping and repeated commands, partial commits | `bundle.json` marks completeness; traces stay tracked; the user's files are not swept |
| Endpoint and handler traces (`tracing/`) | work list, states seen, diagnostics | enqueue, visit | limits, deduplication and cycles interact | no effect invented; nothing cut off silently |
| Potential impact (`impact/`) | work list of reverse states | walk back from a table to endpoints | must agree with the forward trace | found exactly when traced |
| Module visibility (`modules/`) | exports per module, memo | rounds, memoized recursion | cycles | least fixed point; completeness justified |
| System stitching (`system-analysis/`) | correlations, consumers taken | bind realms, correlate, validate | passes that depend on earlier passes, incomplete topology | every endpoint accounted for; what a topology declares stays |
| System comparison (`system-impact/compare.ts`) | none | compare two stitched systems | artifacts missing on one side | unknown is not absent; nothing withheld silently |
| System propagation (`system-impact/propagate.ts`) | queue, paths, counters on two sides | breadth-first search | limits shared by both sides, cycles | nothing omitted silently; what is cut is the far end |
| Query kernel (`query/`) | none between requests | pages with a cursor, bounded reverse search | collections that change, limits | each item once, unless it shares its key; all paths within depth |
| Initialization (`initialization.ts`) | configuration file, temporaries | look, write, link | racing runs and the user | never overwritten, one winner, honest report |
| CI comment publisher (`ci-comment-publisher/`) | comments at the provider | list pages, create, update, leave | overlapping runs, late requests, edits between pages | at most one comment; comments of others untouched |
| Scan pipeline (`analysis/`) | facts, diagnostics | extract, merge, normalize | cancellation between stages | result state tells gaps |
| CI jobs (`ci-adapter/`, `gitlab-ci/`, `github-action/`, `action.yml`) | checkouts, publication directory, outputs | check, install, scan both sides, evaluate, publish, report a failure | failures while publishing and while reporting, torn appends, kills, wrong checkouts | green only for a published success of the declared revisions; reports agree with the end |
| MCP server (`mcp/`) | artifacts read at startup | load, answer | files replaced during startup | one consistent registry |
| Comparison, policy, CI evaluation (`comparison/`, `policy/`, `ci-evaluation/`) | none | match, classify, decide | colliding keys, incomplete inputs | nothing paired by guess; no blocking rule passed in silence |
| Guards and authorization (`guards/`, `authorization/`) | none | combine scopes | incompleteness of globals | no guard assumed |
| Extractors, index, scanner, SQL (`extractors/`, `ts-index/`, `scanner/`, `sql/`) | compiler data | read the source | size of TypeScript | facts proven by syntax |
| Reports and exports (`reporting/`, `graph-report/`, `system-report/`, `structured-exports/`, `ci-comment/`, `architecture/`) | none | render | layout | documents of a finished analysis |
| Model, evidence, diagnostics, configuration, doctor | schemas | parse, validate, probe | - | - |

How they meet. `scanRepository` runs scanner, index and extractors and yields one analysis
document. `scan` hands it to the artifact plan, which hands a list of files to the atomic file
writer and then sweeps traces. All other writers hand it one or a few files. Traces, impact, visibility and query are pure readers
of the document. Stitching correlates the documents of several services, comparison reads two
stitched systems, and propagation follows what changed. A CI job runs two scans, a comparison and the
policies and publishes through the same writer; the comment publisher
is a separate job that reads what it published. The file system, the provider's
API and the user are what concurrent actors share.

## The modules

### AtomicFiles

`writeTextFilesAtomically`, one call per element of `Calls`, in whichever process.

| TLA+ | code |
|---|---|
| `disk[p]` | what is at a destination, abstracted to who wrote it, whether wholly |
| `temp[c][i]` | the temporary of the i-th file: `none`, `partial`, `whole` |
| `pc`, `next` | where the function is, and the file its loop is at |
| `removing` | temporaries whose `rm` of the catch clause has not settled |
| `aborted`, `error` | `signal.aborted`, and the error that is thrown |
| `ThrowIfAborted`, `RefuseDuplicate`, `MkdirFails`, `StartWrite`, `CreateTemp`, `FillTemp`, `WriteFails` | the staging loop, one action per await or early exit |
| `StartCommit`, `Rename`, `RenameFails`, `Return` | the loop of renames, which does not look at the signal |
| `RemoveTemp`, `RemoveTempFails`, `Rethrow` | the catch clause; removals go on after the first failure has rejected the call |
| `Abort`, `Crash` | the user and the operating system |

`Faults` says which faults a run allows. Two calls never have the same temporary name
(a random UUID), so that `temp` is per call.

### ArtifactPublication and BundlePublication

`ArtifactPublication` extends `AtomicFiles`: every call of the writer is made by a command, a
scan or a report, and the commands add their own variables: `manifest` and `stale` (what
`readTrackedTraceFiles` found and what the trace manifest will list), `cleaning` (the removals
under way) and `exit`. `Prepare` is the plan up to the call of the writer, `WriteStep` any step of
the writer, then `RemoveStale`, `EndPublished`, `EndFailed`. `endpoints.md` and
`contracts.md` are one path, and so are `run.json` and `analysis.json`: they are always
written together. A command that is killed leaves its temporaries behind under random names; the
composed module forgets them, for nothing ever reads them again.

`serial`, chosen at the start, says whether commands on the directory come one after the other or overlap.

`BundlePublication` is the abstract specification: what a reader who trusts `bundle.json` and
checks the hashes it lists can see. It shows the bundle of one scan, keeps it while the
next command prepares, shows none while files are replaced, and then the new one (none after a
report, which replaces files that the bundle lists); a command that gives up before it replaces a
file changes nothing. `ImplementsBundlePublication` maps `Shown`
and `Progress` onto it.

### TraceFacts, EndpointTrace, ImpactPaths

`TraceFacts` holds the facts of an analysis that both directions read: calls, interactions
with their handlers, registered workers, critical sections, branches on job names. Every method
accesses one table of its own, so that a method stands for its effects.
`EndpointTrace` is the walk of `buildEndpointTrace` and `buildInteractionHandlerTrace`:
`Visit` takes a state from the work list, adds the effects and the cut-offs that are
diagnosed there, and leaves its successors in `pending`; `Enqueue` adds one of them unless it
was seen or the limit on states is reached. The order of successors of one kind is open
because identifiers are digests. What a trace should say is defined apart from the walk, as
a closure over `Stories`: ways through the facts with no limits, no deduplication and no
paths; `TrueEffects` are their effects with their causal classes.

`ImpactPaths` extends `EndpointTrace` by the reverse search `pathsFromEndpoints`: once the trace is
there, `Change` picks the method whose table has changed, and `Expand` walks one level back
towards the endpoint of the trace, so that one run compares both directions on the same facts.
The limits of the configuration are part of `facts`.

### CommentPublisher

Each run lists pages of comments (`NextPage`), decides (`LeaveAsItIs`, `Send`), and receives an
answer or gives up. The request takes effect by an action of the provider (`Create`, `Update`,
`UpdateGone`), possibly after the run gave up. `AddComment` and `DeleteComment` are users.
GitHub and GitLab differ in what is rejected as a system note, which is a comment of nobody here.
`setting`, chosen at the start, says how the runs are used: one at a time or overlapping, with
requests that outlive them, with deletions, with whose tokens. `comments` holds what a page number addresses, so that a deletion shifts pages as it does at the provider.

### ModuleVisibility

`PassOn` and `EndRound` are the rounds of `buildModuleVisibility`. The recursion `moduleComplete`
is unfolded: `stack` holds its activations, `AskImport` is a recursive call, `Succeed` a return of
true, and `Unwind` the return of false through all activations, each of which writes the memo.

### SystemStitching, SystemComparison, SystemImpact, SystemPropagation

`SystemStitching` is `stitchSystemAnalyses`. The endpoints at hand and the topology are refused or projected
(`InputRefused`, `RealmIn`, `Eligible`), each producer is correlated (`StitchProducer`, one action per
producer, in any order), and the consumers that nobody took are listed (`ListConsumers`). Two systems are
stitched, the one before a change and the one after. The validator of the finished document is
modelled with it.

`SystemComparison` is `compareSystemAnalyses` on what a caller makes of a `truth`: the services and
bindings there really are. `sight` says which artifacts are missing, whether the manifest is at hand, and
whether the system was stitched with it. So reports are compared with what has really changed.

`SystemPropagation` is `propagateConditionalSystemImpact`: `Take` takes a state from the queue, `Visit` one consumer of its
correlations, `PassOver`, `SkipRoute` and `StopAtStateLimit` are the exits that limits cause,
`EndSide` goes on to the side after with what is left of the limits. Traces of
handlers are inputs (`onward`, `effects`); `limits` is chosen at the start.

`SystemImpact` composes the three: `Begin` derives the seeds and the routes of both sides from what was stitched
and compared, and the search follows.

### SymbolDependents and QueryPages

`SymbolDependents` is the bounded reverse search `findSymbolDependentPaths`. `QueryPages` extends it to
`getSymbolDependents`, which pages what the search found, and to the other paged operations:
`paginateQueryItems` with a client that follows cursors, and artifacts that are replaced between
requests (`Change`). Endpoints, impacts, candidates and policy results have keys of their own (`operation = "listing"`): identifiers,
or keys that the validators of their documents keep apart (`impact/validate.ts:167`, `policy/validate.ts:117`). The changes
of a comparison do not: an endpoint change has the key of its route slot, of which there may be several
(`comparison/validate.ts:268` tells them apart by the endpoint, too). So items are numbered in the order of the sort and have a `Key`. A page with two
items of one key is refused by the schema of the response (`Refuse`), and the client may ask with a lower limit.

### ConfigurationInit

`initializeProject`: look, write under a temporary name, `link` to the configuration's name,
unlink the temporary. `Edit` is the user. Whether preflight blocks is open.

### AnalysisComparison, PolicyEvaluation, CiEvaluation, CiJob

`AnalysisComparison` is `compareAnalysisDocuments`, pure operators on two analyses: endpoints by exact
key and then by route slot, every other record by its semantic key, and the ambiguities. `PolicyEvaluation` has
the eight rules of `evaluatePolicies`; `CiEvaluation` makes the outcome and the gaps of a merge request from them, and
the check for repeated records that may reject the finished document.

`CiJob` is the state machine around them, on either platform:

| TLA+ | code |
|---|---|
| `step` | the next thing the job does, from checking inputs to the end |
| `Refuse`, `CommandFails`, `RefuseExistingDirectory` | the checks and commands that end a job early, by their exit code |
| `LoadConfiguration`, `ScanBaseline`, `ScanCandidate` | the trusted configuration and the two scans; a checkout may be at another revision than declared (`BaselineHeads`, `CandidateHeads`) |
| `RefuseFailedAnalysis`, `RejectEvaluation`, `Evaluate` | the evaluation, with the check of revisions after it |
| `Stage`, `CommitFile`, `CommitFails` | the atomic file writer, one action per rename; its temporaries are the subject of `AtomicFiles` |
| `AppendSummary`, `AppendOutputs`, `AppendFails` | GitHub: appends to the files of the step, which may be torn |
| `Upload`, `Enforce` | the steps of `action.yml` after the program |
| `StageFailureFiles`, `CommitFailureFile`, `RefuseFailureFiles`, `FailureFilesFail`, `AppendFailure`, `AppendFailureFails` | the report of a failure, which can fail too |
| `Kill` | the platform ends the job at any moment |
| `refused` | history: something outside the program refused |

Outcomes stand for exit codes, which are one-to-one. All documents of a bundle are one file, `documents`. The outcome
`canceled` cannot be reached: no signal is given to the scans of a job. The provenance of the artifacts of one
job always agrees, so that comparison is left out.

## The runs

All runs finish within minutes on two workers. Every action fires in a passing run.

| Run | Result | What it shows |
|---|---|---|
| `atomic_files` (`MCAtomicFiles.cfg`) | passes | Two interleaved calls that may be canceled, fail at any file operation or be killed: destinations stay whole, refused calls publish nothing, files appear in plan order, no temporary is left behind, a begun commit is not canceled, and every call ends. Properties: `DestinationsWhole`, `RefusalPublishesNothing`, `PlanOrder`, `NoTemporaryLeft`, `CommitIgnoresCancellation`, `CallsEnd`. |
| `publication` (`MCArtifactPublication.cfg`) | passes | Two scans that overlap, with renames that fail and processes that die: bundle.json never stands beside a listed file that nobody accounts for. And two scans and a report one after the other in any order, that may be interrupted, die or fail to clean up, and a user who adds files: what a reader of bundle.json sees refines BundlePublication, no trace is orphaned, and no scan sweeps the files of the user. Properties: `MarkerAccounted`, `MarkerLostForAReason`, `TracesTracked`, `ScansNeverSweepUnrelated`, `ImplementsBundlePublication`. |
| `traces` (`MCImpactPaths.cfg`) | passes | Six families of small analyses (calls and interactions under tight and ample bounds, critical sections, workers that dispatch on job names, two in a chain), each traced forwards and then searched backwards: no effect is invented, what bounds cut off is said, and trace and search agree where they are meant to. Properties: `EffectsProven`, `NothingSilentlyCut`, `TracedIsFound`, `FoundIsTraced`. |
| `comments` (`MCCommentPublisher.cfg`) | passes | Three runs one at a time, overlapping runs with late requests, and the same with deletions and a stray token, while users add comments and copy the marker: one comment of the bot, a success means that it says so, and no comment of anybody else is changed. Properties: `AtMostOneOwned`, `SuccessShown`, `OthersUntouched`. |
| `visibility` (`MCModuleVisibility.cfg`) | passes | All ways three modules can re-export one another, and all ways they can import one another with any of them unresolved, cycles included: the rounds end with the least fixed point, a module is said incomplete for a reason only, and complete only when it is if no imports form a cycle. Properties: `ExportsLeast`, `IncompleteForAReason`, `CompleteWithoutCycles`, `Resolves`. |
| `system_impact` (`MCSystemImpact.cfg`) | passes | Pairs of small systems, of which artifacts may be missing on one side, are stitched, compared and searched; and every small arrangement of producers and consumers is searched under ample and tight limits. No endpoint is lost, what is missing never shows as a change and never hides one in silence, and the search reports what it leaves out. Properties: `EveryEndpointAccounted`, `MoreTopologyKeepsCandidates`, `ValidatorAccepts`, `ChangesAreReal`, `NothingWithheldSilently`, `SpreadIsRealOrUnknown`, `NothingSilent`, `PrefixesKept`. |
| `system_unknown` (`MCSystemImpact_unknown.cfg`) | violation | A topology is missing on one side, whose system was stitched without it: every endpoint that the other side binds to a realm is reported as modified. Properties: `UnknownIsNotAbsent`. |
| `query` (`MCQueryPages.cfg`) | passes | Every call graph of three methods and an endpoint, searched to depth two and with five states, and the answer paged; and pages of any size over a listing that changes between requests: exactly the chains of calls that meet nothing twice, the nearest when it is cut off, and every item once, except for further changes of a route slot in a comparison. Properties: `DependentsFound`, `EveryItemOnce`. |
| `query_shared` (`MCQueryPages_shared.cfg`) | violation | Of the changes of one route slot the first is sent with a next cursor, which is above none of the others: the next page is empty, and they are never sent. Properties: `NextCursorLeadsOn`. |
| `init` (`MCConfigurationInit.cfg`) | passes | Three racing runs, and a user who edits and removes the file: one run creates it, whole, only that run says so, and no step of a run changes a file that is there. Properties: `WholeFile`, `HonestReport`, `OneWinner`, `NeverOverwritten`. |
| `ci` (`MCCiJob.cfg`) | passes | A merge-request job on either platform over pairs of analyses, three configurations and wrong checkouts, with refusals, torn appends and kills at every step: green only for a published success of the declared revisions, reports that agree with the end, no guessed pairs, no blocking rule passed in silence. Properties: `GreenMeansEvaluated`, `ReportedOutcomeAgrees`, `NothingPairedByGuess`, `NoSilentPass`. |
| `ci_ambiguous` (`MCCiJob_ambiguous.cfg`) | violation | Two endpoints in one route slot: the comparison lists them as an ambiguity, and the evaluation document that contains them is rejected as invalid input. Properties: `AmbiguityIsAGap`. |

Bounds, and why they are enough.

- *AtomicFiles.* Two calls that share two destinations, plans of up to two files with repetitions, and
  every fault. What two calls can do to one another they do at one destination; two files are a
  first and a last. The proofs are for any calls, plans and faults.
- *ArtifactPublication.* One run, in which `serial` chooses whether commands overlap. One trace name beside a scan's other destinations. Overlapping commands
  need two scans; the sweep needs commands in sequence (write, deselect, sweep). The directory
  is empty at the start and everything in it is the work of the commands and the user. Scans are
  interchangeable, and the properties of the series are safety properties, so that symmetry is sound.
  Overlapping scans fail among the renames or die; commands in sequence are interrupted or
  die, where a death among the renames leaves the directory as a failed rename would (`FaultBound`).
  In both, the removal of a stale trace may fail (`CleanupFails`).
- *Traces.* Three methods give every shape of a diamond, cycle or shortcut, two interactions a
  chain. Six families of analyses: calls and interactions under tight limits (`Tight`: four
  states, one hop, one handler) and ample ones (`Ample`), calls at depth one (`CallsAlone`), critical
  sections (`Locked`), a worker that dispatches on job names (`Dispatching`), and two in a chain (`Chained`).
- *CommentPublisher.* Two comments to a page and two pages, five comments ever: a full last page, a
  shifted page and the ceiling all happen. Three runs, the third with the verdict of the first.
- *ModuleVisibility.* All re-exports and all imports on three modules: a chain of two re-exports
  against the order, and cycles of two and three.
- *SystemImpact.* Two sets of initial states. Systems: up to four endpoints in three services, jobs, events and requests,
  dynamic and unusable endpoints, bound by record or by contract, all, some, in two realms or wrongly; one of the two moments is any
  such version and the other one of three, and on one of them a service, the manifest or everything may be
  missing. Arrangements, as no stitched system of that size has them: three producers, two consumers, two hops: a cycle, a fork and
  a cut. Under two of the three limits the side before can use up what the side after needs.
- *QueryPages.* Pages of up to two of six items, three of which share a key, so that a page can end among them, after them
  or hold two of them, and two changes of the collection; three methods and
  a caller that is not one, to depth two, or with five states.
- *CiJob.* About thirty analyses of either side: no endpoint, one, two in one slot or in two, handled by methods of which two share a
  key; guards and writes proven, ambiguous or missing; diagnostics of each severity, also two with one key; assertions,
  interactions and controllers, also two with one key. Three configurations: everything blocks, what is unknown only warns, and two rules
  only. The baseline is at the declared revision or at the candidate's; the candidate at the declared one, at another, or no repository. All refusals, torn appends and kills at every step.
- *ConfigurationInit.* Three runs and two edits: two racing runs, and one that comes after a removal.

Deadlock checking is off where the modelled program ends.

## Fairness

Safety is checked without fairness. Two liveness properties need it:

- `AtomicFiles` assumes weak fairness of each call's own steps (`FairSpec`): the
  file system answers every operation, and Node resumes the awaiting function. Nothing is assumed of
  the user (`Abort`), of `Crash` or of other calls. `CommitIgnoresCancellation` says that a call that has
  begun its commit ends well or for a reason that is no cancellation: an I/O error or the death of the process.
- `ModuleVisibility` assumes weak fairness of `Next`: the code is sequential and deterministic, so
  that this only says that it runs.

## What is proved

TLAPS checks all proofs, for every value of the constants that satisfies the named assumptions
in the modules. These say what the code takes for granted: plans are lists of destinations of bounded length (`PlansAssumption`), the
marks for contents differ (`ContentsAssumption`, `NullAssumption`), a command is a scan or a report and artifacts have different names
(`CommandsAssumption`, `NamesAssumption`), every module is listed (`OrderAssumption`), pages hold at least one comment
(`PagesAssumption`), comments are numbered (`SettingsAssumption`), and graphs, analyses, configurations and systems are
well formed (`GraphsAssumption`, `AnalysesAssumption`, `ConfigurationsAssumption`, `TruthsAssumption`, `SystemsAssumption`), that limits are positive
(`LimitsAssumption`), that the endpoints of a system are among those that its handlers are known for (`ImpactAssumption`), and that an
analysis has finitely many methods and interactions (`FiniteAssumption`) and that no method is the mark for no target (`NoTargetAssumption`). No theorem fixes the number of processes, runs, files, comments, pages,
modules, endpoints or analyses.

- `ArtifactPublication_proofs`, first part: the writer. `Inv`, defined in `AtomicFiles` and also checked by TLC, has two parts. `WriterInv` holds whoever
  else writes to the destinations: the loop stays within the plan (`LoopWithinPlan`), everything from `next` on is staged
  (`StagedWhole`), nothing is published before the commit (`UnpublishedBeforeCommit`), and of each temporary it is said who will still
  remove it (`TemporariesAccounted`). `OrderInv` needs the calls alone at the destinations: those that the commit has passed
  hold some call's content (`CommittedPrefix`). One lemma per action, one step per conjunct. Theorems:
  `TypeCorrect`, `WholeDestinations`, `RefusedCallsPublishNothing`, `PublishedInPlanOrder`,
  `NoTemporaryOutlivesItsCall`, for any number of calls, any plans and any set of faults.
- `ArtifactPublication_proofs`, second part, uses `WriterInv` for the writer under the commands and adds `PublicationInv`:
  where a command can be (`Ends`, `NotYet`), that it has made its plan (`PlansMade`), that in a series it is alone (`Alone`), that what
  lies in the directory is some command's (`Own`), what a commit has replaced so far (`CommitAccounted`), who left
  `bundle.json` as it is (`MarkerKept`), and which traces are written, tracked or about to be
  (`TracesKept`, `TracesExpected`, `TrackedAreWritten`). Each is needed: `MarkerAccounted`, for one, says nothing of a commit
  that is under way, whose next rename would break it. A lemma for each kind of step says what it changes (its shape), and the
  parts are shown to survive every shape. Theorems: `BundleFilesAccounted`, `BundleLostForAReason`,
  `WrittenTracesTracked`, `UnrelatedFilesKept`, and the refinement `WholeBundlesShown`, which is `ImplementsBundlePublication`:
  for commands in a series `Prepare` is `Start`, a failure before the first rename `GiveUp`, the first rename
  `Replace`, the last `Publish`, a failure or death between them `BreakOff`, and every other step a stutter.
- `CommentPublisher_proofs`. `GeneralInv` holds in every setting: an identifier is that of one comment (`Identified`), and what
  a run has found or asked for stays the bot's (`Targets`), though it may be gone. From it, `OthersKeepTheirs`. `ListingInv`
  holds unless comments are deleted: a run has found all comments of the bot on the pages that it has read (`Covered`), which
  rests on pages being windows of a list that only grows (`PageIsWindow`), so that a request to create that can still take
  effect meets none (`FirstOnly`). Under runs one at a time (`SerialInv`) what was found is fresh and a
  request is aimed at the only comment. From these, `OneComment` and `SuccessIsShown`.
- `ModuleVisibility_proofs`. The exports are below every closed family throughout (each
  `PassOn` preserves it), and when a round ends unchanged they are closed: for this the
  invariant `ExportsInv` relates `changed` and `cursor` to the modules already passed. `RecursionInv` is about the recursion:
  an activation waits for one of its imports (`Activations`), so that a closed set of modules that holds an activation holds
  those above it (`Waiting`, stated for sets, as it needs no induction along the stack), and without
  cycles no import is passed over for being visited (`Asked`). Theorems: `TypeCorrect`, `ExportsAreLeast`,
  `IncompleteIsJustified` and `CompleteIsJustified`, for every graph and every order of the modules.
- `ConfigurationInit_proofs`. `Progress` relates `pc`, `result`, `temporary` and `created`;
  `Paid` says that the creations so far are paid for by removals of the user, plus the file that
  is there. From them: `TypeCorrect`, `AlwaysWhole`, `ReportsHonestly`, `RaceHasOneWinner`, and the action property
  `NeverOverwrites`, for every finite set of runs.
- `CiJob_proofs`. The first part is about operators, for any two analyses and any configuration: endpoints that are paired are certain
  and paired once, nothing with an ambiguous key is reported as changed, what is unmatched is listed, and a blocking rule that lets a change
  through has proof or a listed gap. The second adds the state machine: its invariant follows a job from the checks to
  the end (nothing published or reported before the evaluation, what lies in the publication directory in every step of the
  commit and of the report of a failure, what the outputs say). From both: `GreenMeansEvaluated`, `ReportedOutcomeAgrees`,
  `NothingPairedByGuess` and `NoSilentPass`, on either platform and with kills, torn appends and failures at any step.
- `QueryPages_proofs`. `Ordered` lists any finite set of items in ascending order: the rank of an item, the number of
  items up to it, grows with the item (`RankGrows`), and takes every value up to the size of the set (`RankOnto`), as an injection between sets of one
  size. The invariant says that the collection stays finite (`Collection`), that the cursor is the key of the last item sent (`CursorIsLast`), that what was
  sent ascends (`Ascending`), and that of every lasting item up to the cursor, it or one before it with the same key was sent (`Delivered`).
  Keys follow the order of items (`KeysFollow`), so that a page starts after all items up to the cursor (`AfterCursor`). Where no key is
  shared the item itself was sent, and no page is refused (`RefuseKeeps`). `PagesAreComplete`
  follows at the page that has no cursor.
  The reverse search is proved for every call graph and every limit. `SearchInv` says that it goes level by level (`Levels`): the
  state being expanded is no deeper than those queued, these at most one step deeper, and no path is longer. So no state is expanded
  twice and no path ahead has been found before (`Distinct`; the code's test of `pathKeys`, `operations.ts:462`, therefore never
  holds), each state is the end of a chain of calls and what it has seen is what that chain meets (`Trails`), and a path that is
  not found is ahead of a queued state or of a caller left (`Found`). The lemmas `NothingMetAhead`, `AheadOfChild` and `OneCallMore` are the
  three cases of a caller: it was met, the search goes on from it, or the path ends there. `DependentsAreFound` follows. It uses that an
  identifier is that of one assertion and an assertion has one object (`AnalysisOK`).
- `SystemImpact_proofs` is about the whole chain from two systems to what a change reaches, and each part of it.
  - Stitching and comparison. For any input, what the stitcher makes is valid (`StitchedIsValid`), accounts for every endpoint once
    (`StitchedAccounts`), and a declared candidate stays under a larger topology (`DeclaredStays`). The invariant
    `Inv` says that the two systems are stitched from what is seen of the truth (`Observed`), that the stitching in
    progress agrees with the finished one on the producers done (`StitchInv`), and that the report is the comparison of both
    (`Reported`). `OnlyRealChanges` follows as what is reported is a difference of what was seen, and `AllCovered` as a
    difference of the truths is seen on both sides, or an artifact that is missing on one is listed.
  - The search. Its operators are folds. `NatSetInduction` obtains induction as a fact about sets, from the library's theorem that strict inclusion of
    finite sets is well founded; `FoldExists` then gives the recursive function under `FoldLeft` a value, and `AddToSteps`,
    `OnlySome` and `Flattened` say what adding paths, filtering and flattening return for sequences of any length.
    `Only` is a fold for this reason.
  - `SearchInv` says that what leads to a queued state is reported, or there is no room for further paths (`Reached`): a path that is
    dropped leaves the others without a way there, unless nothing can be added any more. From it, `FarEndIsCut` (`PrefixesKept`).
  - `SearchedInv` says that each state holds a trail from a seed (`Trail`), that what is reported can happen (`Sound`), and, while nothing is
    counted as omitted, that what can happen is reported or lies ahead of a queued state or of the state being expanded (`Complete`, `Pending`).
    From it, `NothingIsSilent` (`NothingSilent`), for any graph, cycles included, and any limits.
  - `ImpactInv` composes both with `Inv`: a search waits until the systems are compared (`Waiting`), and then searches
    sides made of them (`Searching`), which are finite and so can be listed (`RoutesTyped`, `SideOfOK`). A hop is then a declared candidate, and a report
    that is complete knows all of them: `CompleteSpreadIsReal` (`SpreadIsRealOrUnknown`). As the search changes nothing of
    the comparison (`SearchingComparesToo`), all theorems about `ComparisonSpec` hold of `ImpactSpec` too.
- `ImpactPaths_proofs` compares a search with closures: what a trace finds with the stories that the facts tell, and what
  is walked back with what is walked forward.
  - `Closure` and `Below` are recursive functions on sets. Over a finite set such a function has one value, the least closed set
    (`RecursionExists`, `RecursionIsLeast`: of the arguments for which it had another, one would have the smallest rest). So `Reachable` is the least set
    of stories with the beginnings that is closed under `Told` (`ReachableIsLeast`).
  - `Explained`: every state that is queued or pending has a story that explains it (`Explains`), in which all that the state looks at
    happens, under the class of the state, and all of a critical section, if the state leads into one. The three kinds of successor keep this
    (`SectionExplained`, `CallExplained`, `EntryExplained`: the last is where classes cross an interaction and branches are selected). It gives
    `EffectsAreProven`.
  - `Accounted`: as long as nothing was diagnosed, a visited state cut nothing off and its successors are pending or seen. `Trodden`: a method on
    the path of a state leads to the state, and was entered without restriction unless it dispatches on job names. So a call that is
    dropped since the callee is on the path loses nothing, unless `DispatcherRecurs`, and what was visited covers every story (`CleanCovers`): `NothingIsSilentlyCut`.
  - `LeadsBack`: if a set of search states is closed under steps back and one of them fits a state of the trace (same method, no other method of the path met,
    enough left of both bounds), the set has a state at an entry. Nothing is said of the order in which the search works. It gives `TracedAreFound`; `DepthAmple` is where the bound
    on calls is enough, because methods on a path of the search are distinct.
  - `FoundInv`: a story at the method of a search state that is compatible with the branches met leads to the target (`Reaches`). In `CompatibleHappens`
    the branch that allows a job is one of the same worker by `BranchNamesApart`, and there is one by `BranchesCover`. With `NothingIsSilentlyCut` it gives `FoundAreTraced`.

## What is only model-checked

Liveness under fairness (`CommitIgnoresCancellation`, `CallsEnd`, `Resolves`) is beyond the prover. Every other property of a
passing run is stated by a theorem. The three properties that are found violated have counterexamples instead.

## Where code and documentation differ

Three of them are runs that TLC finds violated, quoted in `PROJECT.json`:

- `UnknownIsNotAbsent` (run `system_unknown`). With the topology of one side missing and its system stitched without it, which prepareSide accepts, endpoints that did not change are reported as modified with broker_binding_changed, and the producers among them become seeds of the propagation. compare.ts:887 says of that side: "The topology artifact is unavailable; realm and binding facts are unknown, not absent." docs/system-impact.md:32-34 says: "Missing or incompatible coverage produces `completed_with_unknowns`, records a typed uncertainty, and withholds facts that would otherwise turn unavailable input into a false removal."
- `NextCursorLeadsOn` (run `query_shared`). compareAnalyses pages endpoint changes by the key of their route slot (operations.ts:190), which all changes of an ambiguous slot share (test/unit/comparison/compare.test.ts:179 expects "added", "added", "removed"). A page that ends among them has nextCursor and says that items remain, but the next request resumes at the first key above the cursor: if nothing follows, that page is empty, and in any case the other changes of the slot are skipped. docs/query-kernel.md:79-81 says: "Their page metadata distinguishes the total filtered collection, records skipped entries, and provides `nextCursor` only when another bounded page exists."
- `AmbiguityIsAGap` (run `ci_ambiguous`). The validator rejects an evaluation with two endpoint changes of one kind in one route slot, and compareEndpoints (src/src/comparison/compare.ts:348-367) reports every endpoint of an ambiguous slot as removed or added (test/unit/comparison/compare.test.ts:179 expects "added, added, removed" for one slot). A merge request whose baseline or candidate has two endpoints with one method and path therefore ends as invalid_input, exit 10. docs/ci-evaluation.md:51-52 says: "Explicit gap records cover analyses completed with gaps, unavailable repository revisions, comparison ambiguity", and :65 keeps exit 10 for "A supplied document fails schema or integrity validation".

The others show in the properties as conditions under which they hold; dropping a condition, on an
instance that breaks it, gives a counterexample.

- `ScansNeverSweepUnrelated` needs that no report was run in the directory: a report publishes the
  pending trace manifest, which goes on listing traces that are gone, and a later scan then removes a file of
  that name that the user has put there (docs/selected-scan-bundles.md:42: "unrelated files are never swept").
- `isCancellation` (`cli/cancellation.ts:3`) takes any error for a cancellation once the signal is aborted, so that
  a command that was interrupted while it renamed, and then failed, says that nothing was published though files were.
- `MarkerLostForAReason` names two reasons. A commit that breaks off among its renames leaves the
  previous `bundle.json` in place beside files that it no longer describes.
- `EffectsProven` needs an endpoint as the root, or no branches: a trace rooted at a handler enters the next worker
  without selecting branches (`interaction-handler-trace.ts:373`; docs/model-contract.md:518-519: "Exact producer jobs
  traverse only matching, common, or supported unmatched branch effects").
- `NothingSilentlyCut` needs that a worker that dispatches on job names is not called by anything it leads to, directly
  or through further interactions (`DispatcherRecurs`): the call is skipped as on the path already, though the path entered
  it restricted to a branch. For the same reason a worker
  that is also called directly on the way to its producer is listed as synchronous only
  (docs/bullmq-interactions.md:105).
- `TracedIsFound` needs that no worker dispatches on job names, and that the limit on calls is ample for the
  whole path: the reverse search counts calls along the whole path where the trace counts from the last
  interaction (docs/in-process-events.md:100-101), and it lets a branch of a deeper worker rule out the job of an earlier one.
  `FoundIsTraced` needs job names that workers do not share, for the same check also lets an
  incompatible job through (docs/bullmq-interactions.md:124), and that branches cover what a dispatching worker does
  (`BranchesCover`: the extractor makes branches, too, of what precedes and follows the dispatch), for the search lets every job through to what lies in none.
- The other reason of `MarkerLostForAReason`: a report into the directory of a scan replaces `endpoints.md`, `contracts.md` and traces that
  `bundle.json` lists by hash, and leaves `bundle.json` as it was (`report.ts:52`), though docs/architecture.md:270 takes its
  presence for the completeness of the bundle.
- `AtMostOneOwned` needs, besides serialized runs and at most one comment of the bot to begin with, that no request outlives its run: one that was given up on may create its
  comment after the next run has listed none. It also needs that no comment is deleted while a run lists: comments are listed by page number, so
  a deletion on an earlier page moves the comment of the bot to a page already read, and a second one is created
  (`github.ts:100`; docs/ci-comment-publisher.md:33 and 43-44).
- `EveryItemOnce` promises a comparison less than the other collections: of the changes of one route slot only the first is certain to be
  sent (the violation above shows why), and a page that would hold two of them is refused by the check of the response
  (`operations-schemas.ts:338`), so that only a page that ends after the first of them gets through.
- `CompleteWithoutCycles` needs that no imports form a cycle. In one, a module that is being visited counts as complete (`visibility.ts:91`), and the
  memo keeps what rests on this: of two modules that import each other, where the first also imports one with unresolved
  metadata, the second is said to be complete, and whether it is depends on the order of the modules.
- `ChangesAreReal` needs that a system whose topology is missing was stitched with it (the violation above shows why).
- docs/system-analysis-contract.md:67 says of job consumers and realms more than the code does: an ambiguous group of job
  consumers is resolved by no topology, and consumers in other realms end as `realm_mismatch` and not as
  conflicting candidates. A manifest that binds services that are not at hand is refused, so that it must be cut down first.
- `ReportedOutcomeAgrees` excepts a publication directory that was there before a GitLab job: the job refuses it with exit
  code 10 and leaves the process result of whoever made it.
- The recipe that a CI job publishes is verified against values the job has just put into it (`ci-adapter/runner.ts:359`, 446-473):
  lockfiles that the installation rewrites are not noticed by it.
- `MarkerAccounted` says that a listed file is in place or is the work of another command, not that this command came later. With overlapping commands
  an older `bundle.json` can stand beside newer files; what a series of commands promises is said by `MarkerLostForAReason` and the refinement.
- `SpreadIsRealOrUnknown` speaks of documents that count as complete. Where something is missing, hops that the systems do not
  have may be reported, and nothing is said of these.
- Left out of `SystemComparison` are changes of the attributes of a broker realm (`system-impact/compare.ts:965`; realms appear as what
  bindings name). Of the check that document and manifest have the same realms (`compare.ts:222-236`) only
  what it says of the endpoints at hand is kept (`Agrees`), so that more is compared in the model than in the code. Left out of `AnalysisComparison` are the ambiguities of
  colliding keys (`comparison/compare.ts:80-103`) of records other than methods and controllers.
- The counter `pathsOmitted` of `SystemPropagation` grows by one for a queued state or a whole correlation once the limit on
  states is reached, and so is smaller than the number of paths that are missing; `NothingSilent` only relies on its not
  being zero.

## What is not modelled

- *artifact publication* (in part): The publication half of scan and report: plan, trace manifest, commit, sweep of stale traces, exit. Path checks of the plan and the optional reporters of a scan are not told apart; writePolicyArtifact and the graph, controls, OpenAPI writers reuse the same file writer.
- *endpoint and interaction-handler traces* (in part): The walk of both traces with its bounds, deduplication, critical sections, job branches and diagnostics. Guards, validation, request-response and dynamic interactions, and the ordering of the output are left out.
- *potential-impact search* (in part): pathsFromEndpoints beside the forward trace of the same facts; the shaping of the report around it is not modelled.
- *query kernel* (in part): Paging with a cursor over requests and restarts, for collections with keys of their own and for comparisons, whose items may share keys, with the check that refuses a page; and the bounded reverse search. The registry of artifacts, selectors and the projections of the other operations are lookups and not modelled.
- *repository evaluation in CI* (in part): The sequence of checks, installs, scans, evaluation, revision check and publication, with every refusal. Commands and paths are verdicts; the recipe manifest, whose verification repeats values the runner has just put into it, and the texts are left out.
- *CI evaluation* (in part): Outcome, gaps and the rejection of repeated records. Evidence locations, summary counts, identifiers, the scan recipe and Markdown are conversions and are left out, as are the gaps of the impact search.
- *comparison of analyses* (in part): Identity of endpoints, pairs, ambiguities and changes of every kind of record. How a key and a body are put together from an analysis is left out, as are the schema versions of the document.
- *policy evaluation* (in part): All eight rules, with the severities of their results. The parsing of the configuration, the texts, and the lists of evidence and identifiers of a result are left out.
- *effective guards* (in part): Guards and guard state of an endpoint from direct and global guards. What authorization metadata is enforced by is an input.
- *preliminary call trace*: A bounded search of direct calls, of a shape with the endpoint trace, that only tests and no command of the program call.
- *scan pipeline*: A fixed sequence of pure stages whose results are merged once at the end; the signal is only looked at between stages and nothing is written before the last. The result state is modelled in CiEvaluation, the publication in ArtifactPublication; what the stages find is an input of every other module.
- *MCP server and artifact registry*: Artifacts are read one after the other at startup, each path once, and never again; the tools are thin calls of the query kernel, whose paging is modelled in QueryPages, on data that no longer changes.
- *command line*: scan and report are modelled under artifact publication; the other commands parse options, call one component once and map its error to an exit code.
- *extractors*: Static analysis of TypeScript syntax trees: pure functions of compiler data structures whose state is the tree; what they yield enters the models as arbitrary facts.
- *TypeScript index*: A wrapper around the compiler: program, symbols and decorators. No protocol or order of its own.
- *repository scanner*: Walk of the file system with exclusions, and git metadata: I/O and pattern matching.
- *SQL analysis*: Pure reading of SQL text by a parser library.
- *analysis document model*: Zod schemas and types of the documents; the models take valid documents as their inputs.
- *evidence*: Locations, snippets and redaction: conversions of text, no state.
- *diagnostics catalogue*: A table of texts by code.
- *configuration*: Parsing and validation of the configuration file; a function of its contents.
- *doctor*: A list of independent read-only probes of the environment; no interaction between them.
- *reporting*: Markdown and HTML of a finished analysis: wording and layout.
- *structured exports*: CSV and OpenAPI projections of a finished analysis.
- *graph report*: Projection of a finished analysis to a graph page: layout and browser script.
- *system report*: Projection of a stitched system to Markdown and HTML.
- *architecture overview*: A summary grouped by module of a finished analysis.
- *CI comment rendering*: The text of the comment from a finished evaluation; in CommentPublisher a comment body is a verdict.
- *distribution bundles*: Generated code: the bundled CI entry points.
- *scripts and packaging*: Build, audit and release tooling around the program.
- *tests, examples and documents*: Read as reference for findings; not part of the program.
- *other artifact writers*: Each makes a plan of one or a few files and hands it to the atomic file writer, which is modelled; nothing else happens in them.
- *version*: One constant.
- *system documents*: Types, schemas, stable identifiers and canonical order of the stitched system and of its impact document: conversions without state. Keys that can collide are modelled where they are compared.

## Plan

Done: the writer under every artifact, and the publication that composes it with an abstract
specification; the algorithms on the analysis document with their limits; the parts that race
(comments, initialization); the chain of system analyses; the CI jobs with comparison, policies and evaluation.
What is left of the program is listed above with the reasons. The number of runs and properties is kept to what can be checked within
minutes; a further one would be `ProvenanceTraversal` and `CriticalSections` in `extractors/`, the two bounded searches
among the extractors.

No proof of a safety property is left to do.

-------------------------- MODULE ArtifactPublication --------------------------
(***************************************************************************)
(* How `scan` and `report` publish into an output directory                *)
(* (src/src/output/): the tracked-trace manifest is read, the list of      *)
(* artifacts is made, the atomic file writer commits it, and the traces    *)
(* that are no longer selected are removed.  `scan` ends its list with     *)
(* bundle.json; `report`, which by default writes to the directory of the  *)
(* analysis it reads, does not touch bundle.json.                          *)
(*                                                                         *)
(* endpoints.md and contracts.md are one path here (Catalogue), and so are *)
(* run.json and analysis.json (Analysis): they are always written          *)
(* together, in this place of the list.  A report is taken to select other *)
(* endpoints than the scan did, so that its files differ from the scan's.  *)
(***************************************************************************)
EXTENDS AtomicFiles, SequencesExt

CONSTANTS
  Scans, Reports,            (* The calls made by each command.            *)
  Catalogue, TraceManifest,  (* The fixed names in the output directory,   *)
  Analysis, Bundle,
  Traces,                    (* and those under traces/.                   *)
  CleanupFails               (* Whether removing a stale trace may fail.   *)

ASSUME CommandsAssumption ==
  /\ Calls = Scans \cup Reports /\ Scans \cap Reports = {}
  /\ Paths = Traces \cup {Catalogue, TraceManifest, Analysis, Bundle}
  /\ CleanupFails \in BOOLEAN

(* The names are different, and a plan with all of them is not too long.    *)
ASSUME NamesAssumption ==
  /\ Traces \cap {Catalogue, TraceManifest, Analysis, Bundle} = {}
  /\ Catalogue \notin {TraceManifest, Analysis, Bundle}
  /\ TraceManifest \notin {Analysis, Bundle} /\ Analysis # Bundle
  /\ IsFiniteSet(Traces) /\ Cardinality(Traces) + 4 <= MaxFiles

VARIABLES
  serial,    (* Whether commands on the directory come one after the other; *)
             (* chosen at the start, it never changes.                      *)
  manifest,  (* manifest[c]: the trace files that c's trace manifest lists. *)
  stale,     (* stale[c]: the tracked traces that c did not select again.   *)
  cleaning,  (* cleaning[c]: stale traces whose removal has not settled.    *)
  exit       (* exit[c]: how the command that made the call ended.          *)

pubVars == <<vars, serial, manifest, stale, cleaning, exit>>

(* The directory is new; the user may add files to it at any time.         *)
PublicationInit ==
  /\ Init
  /\ serial \in BOOLEAN
  /\ \A p \in Paths : disk[p] = Absent
  /\ manifest = [c \in Calls |-> {}]
  /\ stale    = [c \in Calls |-> {}]
  /\ cleaning = [c \in Calls |-> {}]
  /\ exit     = [c \in Calls |-> "none"]

-----------------------------------------------------------------------------
(* Mutant of TrackedTraces: whatever is found under traces/ is tracked.    *)
TrackedTraces_AllFiles == {t \in Traces : disk[t] # Absent}

(* readTrackedTraceFiles: nothing is tracked by a missing or alien file.   *)
TrackedTraces ==
  IF disk[TraceManifest] \in Calls THEN manifest[disk[TraceManifest]] ELSE {}

(* Mutant of ArtifactsOf: the bundle manifest goes first.                  *)
ArtifactsOf_BundleFirst(c, selected) ==
  LET reports == <<Catalogue>> \o SetToSeq(selected) \o <<TraceManifest>>
  IN  IF c \in Scans THEN <<Bundle>> \o reports \o <<Analysis>> ELSE reports

(* The list of destinations: prepareAnalysisArtifacts and, for a scan,     *)
(* prepareArtifactPublication; writeMarkdownReportArtifacts for a report.  *)
ArtifactsOf(c, selected) ==
  LET reports == <<Catalogue>> \o SetToSeq(selected) \o <<TraceManifest>>
  IN  IF c \in Scans THEN reports \o <<Analysis, Bundle>> ELSE reports

(* A scan publishes finalContents of the trace manifest, a report          *)
(* pendingContents.                                                        *)
ListedTraces(c, selected, old) ==
  IF c \in Scans THEN selected ELSE selected \cup old

Started(c) == pc[c] # "idle"
Settled(c) == exit[c] # "none" /\ removing[c] = {} /\ cleaning[c] = {}

(* A report first loads the analysis, and publishes nothing without one.   *)
Prepare(c, selected) ==
  LET old == TrackedTraces \ selected
  IN  /\ exit[c] = "none"
      /\ c \in Reports => disk[Analysis] \in Calls
      /\ serial => \A d \in Calls : Started(d) => Settled(d)
      /\ Begin(c, ArtifactsOf(c, selected))
      /\ stale'    = [stale EXCEPT ![c] = old]
      /\ cleaning' = [cleaning EXCEPT ![c] = old]
      /\ manifest' = [manifest EXCEPT ![c] = ListedTraces(c, selected, old)]
      /\ UNCHANGED <<serial, exit>>

WriteStep(c) == Step(c) /\ UNCHANGED <<serial, manifest, stale, cleaning, exit>>

-----------------------------------------------------------------------------
(* cleanupStaleTraceArtifacts: the stale traces are removed in parallel,   *)
(* by name, after the writer has returned.                                 *)

(* The catch clause of the command: how an error is reported depends on    *)
(* the signal at that time, not only on the error.                         *)
ReportedAs(c) == IF aborted[c] \/ error[c] = "canceled" THEN "canceled" ELSE "internal"

(* Mutant of RemoveStale: the traces are removed while files are staged.   *)
RemoveStale_BeforeCommit(c) ==
  /\ pc[c] \in {"stage", "ok"}
  /\ \E t \in cleaning[c] :
       /\ disk'     = [disk EXCEPT ![t] = Absent]
       /\ cleaning' = [cleaning EXCEPT ![c] = @ \ {t}]
  /\ UNCHANGED <<temp, pc, plan, next, removing, aborted, error, serial, manifest, stale, exit>>

RemoveStale(c) ==
  /\ pc[c] = "ok" /\ exit[c] # "killed"
  /\ \E t \in cleaning[c] :
       /\ disk'     = [disk EXCEPT ![t] = Absent]
       /\ cleaning' = [cleaning EXCEPT ![c] = @ \ {t}]
  /\ UNCHANGED <<temp, pc, plan, next, removing, aborted, error, serial, manifest, stale, exit>>

(* The first removal that fails rejects Promise.all and ends the command,  *)
(* while the other removals still run.                                     *)
RemoveStaleFails(c) ==
  /\ CleanupFails
  /\ pc[c] = "ok" /\ exit[c] # "killed"
  /\ \E t \in cleaning[c] : cleaning' = [cleaning EXCEPT ![c] = @ \ {t}]
  /\ exit' = [exit EXCEPT ![c] = IF @ = "none" THEN ReportedAs(c) ELSE @]
  /\ UNCHANGED <<vars, serial, manifest, stale>>

(* Mutant of EndPublished: the removals are not awaited.                    *)
EndPublished_WithoutCleanup(c) ==
  /\ pc[c] = "ok" /\ exit[c] = "none"
  /\ exit'     = [exit EXCEPT ![c] = "published"]
  /\ cleaning' = [cleaning EXCEPT ![c] = {}]
  /\ UNCHANGED <<vars, serial, manifest, stale>>

EndPublished(c) ==
  /\ pc[c] = "ok" /\ exit[c] = "none"
  /\ cleaning[c] = {}
  /\ exit' = [exit EXCEPT ![c] = "published"]
  /\ UNCHANGED <<vars, serial, manifest, stale, cleaning>>

(* The writer threw; nothing is cleaned up.                                *)
EndFailed(c) ==
  /\ pc[c] = "failed" /\ exit[c] = "none"
  /\ exit'     = [exit EXCEPT ![c] = ReportedAs(c)]
  /\ cleaning' = [cleaning EXCEPT ![c] = {}]
  /\ UNCHANGED <<vars, serial, manifest, stale>>

-----------------------------------------------------------------------------
(* The environment: SIGINT, a killed process, and the user's own files.    *)

AllRenamed(c) == pc[c] = "commit" /\ next[c] > Len(plan[c])

Interrupt(c) ==
  /\ "abort" \in Faults
  /\ Started(c) /\ exit[c] = "none" /\ ~aborted[c]
  /\ aborted' = [aborted EXCEPT ![c] = TRUE]
  /\ UNCHANGED <<disk, temp, pc, plan, next, removing, error>>
  /\ UNCHANGED <<serial, manifest, stale, cleaning, exit>>

(* What the process leaves beside the destinations is forgotten here:      *)
(* nobody ever looks at the temporary files of another process.  To die    *)
(* between the last rename and the return is to die just after it.         *)
Kill(c) ==
  /\ "crash" \in Faults
  /\ Started(c) /\ exit[c] = "none"
  /\ pc'       = [pc EXCEPT ![c] = IF AllRenamed(c) \/ @ = "ok" THEN "ok" ELSE "crashed"]
  /\ temp'     = [temp EXCEPT ![c] = [i \in 1..MaxFiles |-> "none"]]
  /\ removing' = [removing EXCEPT ![c] = {}]
  /\ cleaning' = [cleaning EXCEPT ![c] = {}]
  /\ exit'     = [exit EXCEPT ![c] = "killed"]
  /\ UNCHANGED <<disk, plan, next, aborted, error, serial, manifest, stale>>

UserAddsFile(t) ==
  /\ disk[t] = Absent
  /\ disk' = [disk EXCEPT ![t] = Foreign]
  /\ UNCHANGED <<temp, pc, plan, next, removing, aborted, error>>
  /\ UNCHANGED <<serial, manifest, stale, cleaning, exit>>

-----------------------------------------------------------------------------
PublicationNext ==
  \/ \E c \in Calls :
       \/ \E selected \in SUBSET Traces : Prepare(c, selected)
       \/ WriteStep(c)
       \/ RemoveStale(c) \/ RemoveStaleFails(c)
       \/ EndPublished(c) \/ EndFailed(c)
       \/ Interrupt(c) \/ Kill(c)
  \/ \E t \in Traces : UserAddsFile(t)

PublicationSpec == PublicationInit /\ [][PublicationNext]_pubVars

-----------------------------------------------------------------------------
(* Properties.                                                             *)

(* What bundle.json lists: every artifact of the plan but itself.          *)
Listed(c) == {plan[c][i] : i \in DOMAIN plan[c]} \ {Bundle}

Intact(c) == \A p \in Listed(c) : disk[p] = c

(* Whoever finds bundle.json finds the files it lists, except for those    *)
(* that another command has replaced, or has removed as stale, since.      *)
(* This holds for overlapping commands and whatever fails.                 *)
MarkerAccounted ==
  \A c \in Scans : disk[Bundle] = c =>
    \A p \in Listed(c) :
      \/ disk[p] = c
      \/ \E d \in Calls \ {c} :
           \/ disk[p] = d
           \/ p \in stale[d] /\ pc[d] = "ok" /\ disk[p] \in {Absent, Foreign}

Quiet == \A c \in Calls : Started(c) => Settled(c)

(* As long as commands do not overlap, and nobody is at work, bundle.json  *)
(* marks a complete bundle, and stops doing so for two reasons             *)
(* only: a command broke off among its renames, or a report went to the    *)
(* same directory.  Cancellation and failing removals are no such reasons. *)
MarkerLostForAReason ==
  serial /\ Quiet /\ (\A c \in Calls : pc[c] \in {"failed", "crashed"} => error[c] = "canceled") =>
    \A c \in Scans : disk[Bundle] = c =>
      Intact(c) \/ \E p \in Listed(c) : disk[p] \in Reports

(* Every trace that the tool wrote and that is still there is tracked by   *)
(* the manifest once the command has ended, so that a later command can    *)
(* remove it: cancellation orphans no trace, wherever it comes.            *)
TracesTracked ==
  serial /\ Quiet /\ (\A c \in Calls : Started(c) => exit[c] = "published" \/ error[c] = "canceled") =>
    \A t \in Traces : disk[t] \in Calls => t \in TrackedTraces

(* "Unrelated files are never swept" (docs/selected-scan-bundles.md): a    *)
(* file that the user put among the traces is not removed by the clean-up  *)
(* of stale traces, whatever fails, as long as nobody ran a report there,  *)
(* which leaves a pending manifest that goes on listing what is gone.      *)
ScansNeverSweepUnrelated ==
  [][serial /\ (\A d \in Reports : ~Started(d)) =>
       \A t \in Traces : disk[t] = Foreign => disk'[t] # Absent]_pubVars

-----------------------------------------------------------------------------
(* Commands one after the other implement BundlePublication.               *)

Shown ==
  IF serial /\ disk[Bundle] \in Scans /\ Intact(disk[Bundle]) THEN disk[Bundle] ELSE Absent

Progress(c) ==
  CASE ~serial \/ pc[c] = "idle" -> "waiting"
    [] serial /\ pc[c] \in {"stage", "write"} -> "preparing"
    [] serial /\ pc[c] = "commit" /\ next[c] = 1 -> "preparing"
    [] serial /\ pc[c] = "commit" /\ next[c] \in 2..Len(plan[c]) -> "replacing"
    [] serial /\ (AllRenamed(c) \/ pc[c] = "ok") -> "published"
    [] OTHER -> "ended"

Promise ==
  INSTANCE BundlePublication WITH
    Bundlers  <- Scans,
    Rewriters <- Reports,
    NoBundle  <- Absent,
    current   <- Shown,
    state     <- [c \in Calls |-> Progress(c)]

(* The directory shows whole bundles only: what the reader of bundle.json  *)
(* can see changes as BundlePublication says, in particular it keeps       *)
(* showing the previous bundle until the first rename of the next one.     *)
ImplementsBundlePublication == Promise!AbstractSpec
=============================================================================

------------------------------ MODULE AtomicFiles ------------------------------
(***************************************************************************)
(* The multi-file writer behind every artifact that api-intel publishes:   *)
(* writeTextFilesAtomically (src/src/output/atomic-files.ts).              *)
(*                                                                         *)
(* A call stages every file of its plan under a unique temporary name      *)
(* beside the destination and then renames the files in plan order.  Each  *)
(* rename is atomic, the sequence of renames is not.  Calls of several     *)
(* processes interleave; a process may be canceled, may meet an error of   *)
(* the file system at any operation, and may be killed between any two.    *)
(*                                                                         *)
(* The content of a file is abstracted to the call that wrote it: what the *)
(* properties tell apart is who wrote a destination and whether wholly.    *)
(* Directories made by mkdir are not recorded: nothing depends on them.    *)
(***************************************************************************)
EXTENDS Naturals, Sequences

CONSTANTS
  Calls,     (* Calls of the writer, by whichever process.                  *)
  Paths,     (* Resolved destination paths.                                 *)
  Foreign,   (* The content of a file that no call wrote.                   *)
  Absent,    (* What is found at a path without a file.                     *)
  Torn,      (* A destination that holds only part of some call's content.  *)
  MaxFiles,  (* Bound on the length of a plan.                              *)
  Plans,     (* The lists of destinations a call may be given.              *)
  Faults     (* The faults that may happen: see FaultKinds.                 *)

FaultKinds == {"abort", "mkdir", "write", "rename", "remove", "crash"}

ASSUME PlansAssumption ==
  /\ MaxFiles \in Nat
  /\ Plans \subseteq {plan \in Seq(Paths) : Len(plan) <= MaxFiles}

ASSUME ContentsAssumption ==
  /\ Foreign \notin Calls /\ Absent \notin Calls /\ Torn \notin Calls
  /\ Foreign # Absent /\ Foreign # Torn /\ Absent # Torn

ASSUME FaultsAssumption == Faults \subseteq FaultKinds

VARIABLES
  disk,      (* disk[p]: the content at destination p.                      *)
  temp,      (* temp[c][i]: the temporary file of the i-th file of call c.  *)
  pc,        (* pc[c]: where call c is in the function.                     *)
  plan,      (* plan[c]: the destinations call c was given, in order.       *)
  next,      (* next[c]: the file of the plan that the loop is at.          *)
  removing,  (* removing[c]: files whose temporary is still to be removed.  *)
  aborted,   (* aborted[c]: signal.aborted of the signal call c was given.  *)
  error      (* error[c]: the kind of error call c failed with.             *)

vars == <<disk, temp, pc, plan, next, removing, aborted, error>>

Contents   == Calls \cup {Foreign, Absent, Torn}
TempStates == {"none", "partial", "whole"}
Running    == {"stage", "write", "commit", "rollback"}
Finished   == {"ok", "failed", "crashed"}
Errors     == {"none", "canceled", "duplicate", "io"}

TypeOK ==
  /\ disk     \in [Paths -> Contents]
  /\ temp     \in [Calls -> [1..MaxFiles -> TempStates]]
  /\ pc       \in [Calls -> {"idle"} \cup Running \cup Finished]
  /\ plan     \in [Calls -> {p \in Seq(Paths) : Len(p) <= MaxFiles}]
  /\ next     \in [Calls -> 1..(MaxFiles + 1)]
  /\ removing \in [Calls -> SUBSET (1..MaxFiles)]
  /\ aborted  \in [Calls -> BOOLEAN]
  /\ error    \in [Calls -> Errors]

Init ==
  /\ disk     \in [Paths -> {Absent, Foreign}]
  /\ temp     = [c \in Calls |-> [i \in 1..MaxFiles |-> "none"]]
  /\ pc       = [c \in Calls |-> "idle"]
  /\ plan     = [c \in Calls |-> <<>>]
  /\ next     = [c \in Calls |-> 1]
  /\ removing = [c \in Calls |-> {}]
  /\ aborted  = [c \in Calls |-> FALSE]
  /\ error    = [c \in Calls |-> "none"]

-----------------------------------------------------------------------------
(* Helpers of the actions.                                                 *)

GoTo(c, label) == pc' = [pc EXCEPT ![c] = label]

(* The catch clause is entered with the error and with the temporaries of  *)
(* the first `prepared` files, which it is going to remove.                *)
Throw(c, kind, prepared) ==
  /\ GoTo(c, "rollback")
  /\ error'    = [error EXCEPT ![c] = kind]
  /\ removing' = [removing EXCEPT ![c] = 1..prepared]

RepeatsDestination(c) == \E i \in 1..(next[c] - 1) : plan[c][i] = plan[c][next[c]]

Staging(c) == pc[c] = "stage" /\ next[c] <= Len(plan[c])
AllStaged(c) == pc[c] = "stage" /\ next[c] > Len(plan[c])

-----------------------------------------------------------------------------
(* The call, and the loop that stages the files of the plan.               *)

Begin(c, files) ==
  /\ pc[c] = "idle"
  /\ plan' = [plan EXCEPT ![c] = files]
  /\ GoTo(c, "stage")
  /\ UNCHANGED <<disk, temp, next, removing, aborted, error>>

(* signal?.throwIfAborted() at the head of the loop and before the commit.  *)
ThrowIfAborted(c) ==
  /\ pc[c] = "stage"
  /\ aborted[c]
  /\ Throw(c, "canceled", next[c] - 1)
  /\ UNCHANGED <<disk, temp, plan, next, aborted>>

RefuseDuplicate(c) ==
  /\ Staging(c) /\ ~aborted[c]
  /\ RepeatsDestination(c)
  /\ Throw(c, "duplicate", next[c] - 1)
  /\ UNCHANGED <<disk, temp, plan, next, aborted>>

MkdirFails(c) ==
  /\ "mkdir" \in Faults
  /\ Staging(c) /\ ~aborted[c]
  /\ ~RepeatsDestination(c)
  /\ Throw(c, "io", next[c] - 1)
  /\ UNCHANGED <<disk, temp, plan, next, aborted>>

(* The directory is there and the file is pushed on `prepared`.             *)
StartWrite(c) ==
  /\ Staging(c) /\ ~aborted[c]
  /\ ~RepeatsDestination(c)
  /\ GoTo(c, "write")
  /\ UNCHANGED <<disk, temp, plan, next, removing, aborted, error>>

(* writeFile first creates the temporary file and then fills it.            *)
CreateTemp(c) ==
  /\ pc[c] = "write"
  /\ temp[c][next[c]] = "none"
  /\ temp' = [temp EXCEPT ![c][next[c]] = "partial"]
  /\ UNCHANGED <<disk, pc, plan, next, removing, aborted, error>>

FillTemp(c) ==
  /\ pc[c] = "write"
  /\ temp[c][next[c]] = "partial"
  /\ temp' = [temp EXCEPT ![c][next[c]] = "whole"]
  /\ next' = [next EXCEPT ![c] = @ + 1]
  /\ GoTo(c, "stage")
  /\ UNCHANGED <<disk, plan, removing, aborted, error>>

(* Mutant of WriteFails: the file is pushed on `prepared` after the write.  *)
WriteFails_NotYetPushed(c) ==
  /\ pc[c] = "write"
  /\ \/ aborted[c] /\ Throw(c, "canceled", next[c] - 1)
     \/ "write" \in Faults /\ Throw(c, "io", next[c] - 1)
  /\ UNCHANGED <<disk, temp, plan, next, aborted>>

(* writeFile is given the signal: an abort may stop it at any point.        *)
WriteFails(c) ==
  /\ pc[c] = "write"
  /\ \/ aborted[c] /\ Throw(c, "canceled", next[c])
     \/ "write" \in Faults /\ Throw(c, "io", next[c])
  /\ UNCHANGED <<disk, temp, plan, next, aborted>>

-----------------------------------------------------------------------------
(* The commit: renames in plan order, without a look at the signal.        *)

(* Mutant of StartCommit: the last write is not awaited.                   *)
StartCommit_WithoutAwait(c) ==
  /\ AllStaged(c) \/ (pc[c] = "write" /\ next[c] = Len(plan[c]))
  /\ ~aborted[c]
  /\ GoTo(c, "commit")
  /\ next' = [next EXCEPT ![c] = 1]
  /\ UNCHANGED <<disk, temp, plan, removing, aborted, error>>

StartCommit(c) ==
  /\ AllStaged(c) /\ ~aborted[c]
  /\ GoTo(c, "commit")
  /\ next' = [next EXCEPT ![c] = 1]
  /\ UNCHANGED <<disk, temp, plan, removing, aborted, error>>

(* Mutant of Rename: the loop goes through the plan from its end.           *)
Rename_LastFirst(c) ==
  LET i == Len(plan[c]) + 1 - next[c]
  IN  /\ pc[c] = "commit"
      /\ next[c] <= Len(plan[c])
      /\ temp[c][i] # "none"
      /\ disk' = [disk EXCEPT ![plan[c][i]] = IF temp[c][i] = "whole" THEN c ELSE Torn]
      /\ temp' = [temp EXCEPT ![c][i] = "none"]
      /\ next' = [next EXCEPT ![c] = @ + 1]
      /\ UNCHANGED <<pc, plan, removing, aborted, error>>

(* Mutant of Rename: the signal is still looked at between two renames.     *)
Rename_Cancelable(c) ==
  /\ pc[c] = "commit"
  /\ next[c] <= Len(plan[c])
  /\ temp[c][next[c]] # "none"
  /\ \/ /\ aborted[c]
        /\ Throw(c, "canceled", Len(plan[c]))
        /\ UNCHANGED <<disk, temp, next>>
     \/ /\ ~aborted[c]
        /\ disk' = [disk EXCEPT ![plan[c][next[c]]] =
                      IF temp[c][next[c]] = "whole" THEN c ELSE Torn]
        /\ temp' = [temp EXCEPT ![c][next[c]] = "none"]
        /\ next' = [next EXCEPT ![c] = @ + 1]
        /\ UNCHANGED <<pc, removing, error>>
  /\ UNCHANGED <<plan, aborted>>

Rename(c) ==
  /\ pc[c] = "commit"
  /\ next[c] <= Len(plan[c])
  /\ temp[c][next[c]] # "none"
  /\ disk' = [disk EXCEPT ![plan[c][next[c]]] =
                IF temp[c][next[c]] = "whole" THEN c ELSE Torn]
  /\ temp' = [temp EXCEPT ![c][next[c]] = "none"]
  /\ next' = [next EXCEPT ![c] = @ + 1]
  /\ UNCHANGED <<pc, plan, removing, aborted, error>>

RenameFails(c) ==
  /\ "rename" \in Faults
  /\ pc[c] = "commit"
  /\ next[c] <= Len(plan[c])
  /\ Throw(c, "io", Len(plan[c]))
  /\ UNCHANGED <<disk, temp, plan, next, aborted>>

Return(c) ==
  /\ pc[c] = "commit"
  /\ next[c] > Len(plan[c])
  /\ GoTo(c, "ok")
  /\ UNCHANGED <<disk, temp, plan, next, removing, aborted, error>>

-----------------------------------------------------------------------------
(* The catch clause: all temporaries are removed in parallel.  The first   *)
(* removal that fails rejects Promise.all, and with it the call, while the *)
(* other removals still run.                                               *)

RemoveTemp(c) ==
  /\ pc[c] \in {"rollback", "failed"}
  /\ \E i \in removing[c] :
       /\ temp'     = [temp EXCEPT ![c][i] = "none"]
       /\ removing' = [removing EXCEPT ![c] = @ \ {i}]
  /\ UNCHANGED <<disk, pc, plan, next, aborted, error>>

RemoveTempFails(c) ==
  /\ "remove" \in Faults
  /\ pc[c] \in {"rollback", "failed"}
  /\ \E i \in removing[c] : removing' = [removing EXCEPT ![c] = @ \ {i}]
  /\ error' = [error EXCEPT ![c] = IF pc[c] = "rollback" THEN "io" ELSE @]
  /\ GoTo(c, "failed")
  /\ UNCHANGED <<disk, temp, plan, next, aborted>>

(* Mutant of Rethrow: a cancellation is swallowed and the promise dropped.  *)
Rethrow_Swallowed(c) ==
  /\ pc[c] = "rollback"
  /\ removing[c] = {}
  /\ error[c] # "canceled"
  /\ GoTo(c, "failed")
  /\ UNCHANGED <<disk, temp, plan, next, removing, aborted, error>>

Rethrow(c) ==
  /\ pc[c] = "rollback"
  /\ removing[c] = {}
  /\ GoTo(c, "failed")
  /\ UNCHANGED <<disk, temp, plan, next, removing, aborted, error>>

-----------------------------------------------------------------------------
(* The environment: an interruption by the user, and a process that dies.  *)

Abort(c) ==
  /\ "abort" \in Faults
  /\ pc[c] \in {"idle"} \cup Running
  /\ ~aborted[c]
  /\ aborted' = [aborted EXCEPT ![c] = TRUE]
  /\ UNCHANGED <<disk, temp, pc, plan, next, removing, error>>

Crash(c) ==
  /\ "crash" \in Faults
  /\ pc[c] \in Running
  /\ GoTo(c, "crashed")
  /\ UNCHANGED <<disk, temp, plan, next, removing, aborted, error>>

-----------------------------------------------------------------------------
Stage(c) ==
  \/ ThrowIfAborted(c) \/ RefuseDuplicate(c) \/ MkdirFails(c) \/ StartWrite(c)
  \/ CreateTemp(c) \/ FillTemp(c) \/ WriteFails(c)

Commit(c) == StartCommit(c) \/ Rename(c) \/ RenameFails(c) \/ Return(c)

Rollback(c) == RemoveTemp(c) \/ RemoveTempFails(c) \/ Rethrow(c)

(* The steps of the function itself, once called.                          *)
Step(c) == Stage(c) \/ Commit(c) \/ Rollback(c)

Next ==
  \E c \in Calls :
    \/ \E files \in Plans : Begin(c, files)
    \/ Step(c)
    \/ Abort(c)
    \/ Crash(c)

Spec == Init /\ [][Next]_vars

(* The file system answers every operation it is asked, so that a call     *)
(* that was made runs to its end unless its process dies.                  *)
FairSpec == Spec /\ \A c \in Calls : WF_vars(Step(c))

-----------------------------------------------------------------------------
(* Properties.                                                             *)

(* No reader ever finds part of a file at a destination: what a rename     *)
(* moves there was written to its end.  ("Each new file is fully staged    *)
(* beside its destination", docs/cli-workflow.md.)                         *)
DestinationsWhole == \A p \in Paths : disk[p] # Torn

(* A call that was canceled or refused never reached a destination, not    *)
(* even for a moment that another call has overwritten since: nothing it   *)
(* wrote is found, whatever else failed while it was cleaning up.          *)
RefusalPublishesNothing ==
  \A c \in Calls : error[c] \in {"canceled", "duplicate"}
                      => \A p \in Paths : disk[p] # c

(* A file of the plan is never seen published before the files the plan    *)
(* names first: where a later file is the call's own, every earlier        *)
(* destination has been published by this call, or by one that came after. *)
(* This is what makes the last file of a plan a marker for the others.     *)
PlanOrder ==
  \A c \in Calls : \A j \in DOMAIN plan[c] :
    disk[plan[c][j]] = c => \A i \in 1..j : disk[plan[c][i]] \in Calls

(* A call that returns, or that throws, leaves no temporary file beside a  *)
(* destination, at whichever operation it was stopped; where removals may  *)
(* fail, this is sure of a call that was canceled or refused, for a failed *)
(* removal replaces its error.                                             *)
NoTemporaryLeft ==
  \A c \in Calls :
    /\ pc[c] \in {"ok", "failed"}
    /\ "remove" \in Faults => error[c] # "io"
    => \A i \in 1..MaxFiles : temp[c][i] = "none"

(* Once the commit began, cancellation no longer matters: the call returns *)
(* normally, with every prepared file at its destination, unless the file  *)
(* system refuses a rename or the process dies.                            *)
CommitIgnoresCancellation ==
  \A c \in Calls :
    pc[c] = "commit" ~> \/ pc[c] \in {"ok", "crashed"}
                        \/ pc[c] = "failed" /\ error[c] = "io"

(* A call ends, whatever file operation fails and whenever it is canceled. *)
CallsEnd == \A c \in Calls : pc[c] \in Running ~> pc[c] \in Finished

-----------------------------------------------------------------------------
(* The inductive invariant from which the safety properties follow.        *)

(* A file is being written only while the loop is inside the plan, and the *)
(* loop starts at the first file.                                          *)
LoopWithinPlan ==
  \A c \in Calls : /\ pc[c] = "stage" => next[c] <= Len(plan[c]) + 1
                   /\ pc[c] = "write" => next[c] <= Len(plan[c])
                   /\ pc[c] = "idle"  => next[c] = 1

(* The files the staging loop has passed, and those the commit has still   *)
(* to rename, are whole in their temporary files.                          *)
StagedWhole ==
  \A c \in Calls :
    /\ pc[c] \in {"stage", "write"} => \A i \in 1..(next[c] - 1) : temp[c][i] = "whole"
    /\ pc[c] = "commit" => \A i \in next[c]..Len(plan[c]) : temp[c][i] = "whole"

(* No destination is passed twice by the staging loop.                     *)
DistinctDestinations ==
  \A c \in Calls :
    /\ pc[c] = "stage" => \A j \in 1..(next[c] - 1) : \A i \in 1..(j - 1) : plan[c][i] # plan[c][j]
    /\ pc[c] = "write" => \A j \in 1..next[c] : \A i \in 1..(j - 1) : plan[c][i] # plan[c][j]
    /\ pc[c] = "commit" => \A j \in 1..Len(plan[c]) : \A i \in 1..(j - 1) : plan[c][i] # plan[c][j]

(* Nothing of a call is published before its commit.                       *)
UnpublishedBeforeCommit ==
  \A c \in Calls :
    /\ pc[c] \in {"idle", "stage", "write"} => \A p \in Paths : disk[p] # c
    /\ error[c] # "none" => pc[c] \in {"rollback", "failed", "crashed"}

(* The destinations the commit has passed hold the content of some call.   *)
CommittedPrefix ==
  \A c \in Calls :
    pc[c] = "commit" =>
      \A i \in 1..(next[c] - 1) : i <= Len(plan[c]) => disk[plan[c][i]] \in Calls

(* Removals go on after the call has failed only if one of them has made   *)
(* it fail.                                                                *)
LateRemovals ==
  \A c \in Calls :
    pc[c] = "failed" /\ removing[c] # {} => error[c] = "io" /\ "remove" \in Faults

(* A temporary file is one that the call will still rename or remove, or   *)
(* one of a call that failed to remove some, or of a process that died.    *)
TemporariesAccounted ==
  \A c \in Calls : \A i \in 1..MaxFiles :
    temp[c][i] # "none" =>
      \/ pc[c] = "stage" /\ i < next[c]
      \/ pc[c] = "write" /\ i <= next[c]
      \/ pc[c] = "commit" /\ next[c] <= i /\ i <= Len(plan[c])
      \/ pc[c] = "rollback" /\ i \in removing[c]
      \/ pc[c] = "failed" /\ error[c] = "io" /\ "remove" \in Faults
      \/ pc[c] = "crashed"

(* Of the writer itself; holds whoever else changes a destination.          *)
WriterInv ==
  /\ LoopWithinPlan
  /\ StagedWhole
  /\ DistinctDestinations
  /\ UnpublishedBeforeCommit
  /\ LateRemovals
  /\ TemporariesAccounted
  /\ DestinationsWhole
  /\ RefusalPublishesNothing

(* Holds as long as only calls of the writer change them.                   *)
OrderInv == CommittedPrefix /\ PlanOrder

(* What every reachable state satisfies and every step preserves.          *)
Inv == WriterInv /\ OrderInv
=============================================================================

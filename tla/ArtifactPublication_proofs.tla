------------------------ MODULE ArtifactPublication_proofs ------------------------
(***************************************************************************)
(* Proofs about AtomicFiles, for every set of calls, paths and plans and   *)
(* whichever faults may happen, and then about ArtifactPublication, for any*)
(* number of scans and reports into one directory, whatever traces they    *)
(* select and whatever fails.                                              *)
(*                                                                         *)
(* Of the writer, TypeOK /\ Inv is inductive: one lemma per action shows   *)
(* that the action preserves WriterInv, which does not depend on who else  *)
(* changes a destination, and one of them the order.                       *)
(***************************************************************************)
EXTENDS ArtifactPublication, FiniteSetTheorems, TLAPS

-----------------------------------------------------------------------------
(* The writer of files.                                                     *)

LEMMA InitEstablishes == Init => TypeOK /\ Inv
<1> SUFFICES ASSUME Init PROVE TypeOK /\ Inv
  OBVIOUS
<1>1. <<>> \in {p \in Seq(Paths) : Len(p) <= MaxFiles}
  BY PlansAssumption
<1>2. TypeOK
  BY <1>1, PlansAssumption DEF Init, TypeOK, Running, Finished, TempStates, Errors, Contents
<1>3. Inv
  BY ContentsAssumption, PlansAssumption
     DEF Init, Inv, WriterInv, OrderInv, LoopWithinPlan, StagedWhole, DistinctDestinations,
         UnpublishedBeforeCommit, CommittedPrefix, LateRemovals, TemporariesAccounted,
         DestinationsWhole, RefusalPublishesNothing, PlanOrder
<1> QED
  BY <1>2, <1>3

LEMMA BeginStep ==
  ASSUME TypeOK, WriterInv, NEW c \in Calls, NEW files \in {p \in Seq(Paths) : Len(p) <= MaxFiles},
         Begin(c, files)
  PROVE  TypeOK' /\ WriterInv'
<1>1. files \in {p \in Seq(Paths) : Len(p) <= MaxFiles}
  OBVIOUS
<1>2. TypeOK'
  BY <1>1, PlansAssumption DEF Begin, GoTo, TypeOK, Running
<1>3. WriterInv'
  BY PlansAssumption
     DEF Begin, GoTo, TypeOK, WriterInv, LoopWithinPlan, StagedWhole, DistinctDestinations,
         UnpublishedBeforeCommit, LateRemovals, TemporariesAccounted,
         DestinationsWhole, RefusalPublishesNothing
<1> QED
  BY <1>2, <1>3

LEMMA ThrowIfAbortedStep ==
  ASSUME TypeOK, WriterInv, NEW c \in Calls, ThrowIfAborted(c)
  PROVE  TypeOK' /\ WriterInv'
<1>1. TypeOK'
  BY PlansAssumption
     DEF ThrowIfAborted, Throw, GoTo, TypeOK, WriterInv, LoopWithinPlan, Running,
         Finished, TempStates, Errors, Contents
<1>2. WriterInv'
  BY PlansAssumption
     DEF ThrowIfAborted, Throw, GoTo, TypeOK, WriterInv, LoopWithinPlan,
         StagedWhole, DistinctDestinations, UnpublishedBeforeCommit,
         LateRemovals, TemporariesAccounted, DestinationsWhole,
         RefusalPublishesNothing
<1> QED
  BY <1>1, <1>2

LEMMA RefuseDuplicateStep ==
  ASSUME TypeOK, WriterInv, NEW c \in Calls, RefuseDuplicate(c)
  PROVE  TypeOK' /\ WriterInv'
<1>1. TypeOK'
  BY PlansAssumption
     DEF RefuseDuplicate, Throw, GoTo, Staging, TypeOK, WriterInv, LoopWithinPlan,
         Running, Finished, TempStates, Errors, Contents
<1>2. WriterInv'
  BY PlansAssumption
     DEF RefuseDuplicate, Throw, GoTo, Staging, TypeOK, WriterInv, LoopWithinPlan,
         StagedWhole, DistinctDestinations, UnpublishedBeforeCommit,
         LateRemovals, TemporariesAccounted, DestinationsWhole,
         RefusalPublishesNothing
<1> QED
  BY <1>1, <1>2

LEMMA MkdirFailsStep ==
  ASSUME TypeOK, WriterInv, NEW c \in Calls, MkdirFails(c)
  PROVE  TypeOK' /\ WriterInv'
<1>1. TypeOK'
  BY PlansAssumption
     DEF MkdirFails, Throw, GoTo, Staging, TypeOK, WriterInv, LoopWithinPlan,
         Running, Finished, TempStates, Errors, Contents
<1>2. WriterInv'
  BY PlansAssumption
     DEF MkdirFails, Throw, GoTo, Staging, TypeOK, WriterInv, LoopWithinPlan,
         StagedWhole, DistinctDestinations, UnpublishedBeforeCommit,
         LateRemovals, TemporariesAccounted, DestinationsWhole,
         RefusalPublishesNothing
<1> QED
  BY <1>1, <1>2

LEMMA StartWriteStep ==
  ASSUME TypeOK, WriterInv, NEW c \in Calls, StartWrite(c)
  PROVE  TypeOK' /\ WriterInv'
<1>1. TypeOK'
  BY PlansAssumption DEF StartWrite, GoTo, TypeOK, Running
<1>2. DistinctDestinations'
  <2>1. \A j \in 1..next[c] : \A i \in 1..(j - 1) : plan[c][i] # plan[c][j]
    <3> SUFFICES ASSUME NEW j \in 1..next[c], NEW i \in 1..(j - 1)
                 PROVE  plan[c][i] # plan[c][j]
      OBVIOUS
    <3>0. next[c] \in Nat
      BY PlansAssumption DEF TypeOK
    <3>1. CASE j = next[c]
      BY <3>1 DEF StartWrite, RepeatsDestination
    <3>2. CASE j # next[c]
      BY <3>0, <3>2 DEF StartWrite, Staging, WriterInv, DistinctDestinations
    <3> QED
      BY <3>1, <3>2
  <2> QED
    BY <2>1 DEF StartWrite, GoTo, TypeOK, WriterInv, DistinctDestinations
<1>3. StagedWhole' /\ LoopWithinPlan' /\ (LateRemovals /\ TemporariesAccounted)'
  BY PlansAssumption
     DEF StartWrite, GoTo, Staging, TypeOK, WriterInv, LoopWithinPlan, StagedWhole,
         LateRemovals, TemporariesAccounted
<1>4. UnpublishedBeforeCommit'
  BY PlansAssumption
     DEF StartWrite, GoTo, Staging, TypeOK, WriterInv, UnpublishedBeforeCommit
<1>5. DestinationsWhole' /\ RefusalPublishesNothing'
  BY DEF StartWrite, WriterInv, DestinationsWhole, RefusalPublishesNothing
<1> QED
  BY <1>1, <1>2, <1>3, <1>4, <1>5 DEF WriterInv

LEMMA CreateTempStep ==
  ASSUME TypeOK, WriterInv, NEW c \in Calls, CreateTemp(c)
  PROVE  TypeOK' /\ WriterInv'
<1>1. TypeOK'
  BY PlansAssumption
     DEF CreateTemp, TypeOK, WriterInv, LoopWithinPlan, Running, Finished,
         TempStates, Errors, Contents
<1>2. WriterInv'
  BY PlansAssumption
     DEF CreateTemp, TypeOK, WriterInv, LoopWithinPlan, StagedWhole,
         DistinctDestinations, UnpublishedBeforeCommit,
         LateRemovals, TemporariesAccounted, DestinationsWhole, RefusalPublishesNothing
<1> QED
  BY <1>1, <1>2

LEMMA FillTempStep ==
  ASSUME TypeOK, WriterInv, NEW c \in Calls, FillTemp(c)
  PROVE  TypeOK' /\ WriterInv'
<1>1. /\ pc[c] = "write" /\ pc' = [pc EXCEPT ![c] = "stage"]
      /\ temp' = [temp EXCEPT ![c][next[c]] = "whole"]
      /\ next' = [next EXCEPT ![c] = next[c] + 1]
      /\ UNCHANGED <<disk, plan, removing, aborted, error>>
  BY DEF FillTemp, GoTo
<1>2. next[c] \in 1..MaxFiles /\ next[c] <= Len(plan[c]) /\ Len(plan[c]) \in Nat
  BY <1>1, PlansAssumption DEF TypeOK, WriterInv, LoopWithinPlan
<1>3. TypeOK'
  BY <1>1, <1>2, PlansAssumption DEF TypeOK, TempStates, Running
<1>4. LoopWithinPlan' /\ DistinctDestinations'
  BY <1>1, <1>2 DEF TypeOK, WriterInv, LoopWithinPlan, DistinctDestinations
<1>5. StagedWhole' /\ (LateRemovals /\ TemporariesAccounted)'
  BY <1>1, <1>2, PlansAssumption DEF TypeOK, WriterInv, StagedWhole, LateRemovals, TemporariesAccounted
<1>6. UnpublishedBeforeCommit'
  BY <1>1 DEF TypeOK, WriterInv, UnpublishedBeforeCommit
<1>7. DestinationsWhole' /\ RefusalPublishesNothing'
  BY <1>1 DEF WriterInv, DestinationsWhole, RefusalPublishesNothing
<1> QED
  BY <1>3, <1>4, <1>5, <1>6, <1>7 DEF WriterInv

LEMMA WriteFailsStep ==
  ASSUME TypeOK, WriterInv, NEW c \in Calls, WriteFails(c)
  PROVE  TypeOK' /\ WriterInv'
<1>1. PICK kind \in {"canceled", "io"} : Throw(c, kind, next[c])
  BY DEF WriteFails
<1>2. /\ pc[c] = "write" /\ next[c] \in 1..MaxFiles
      /\ UNCHANGED <<disk, temp, plan, next, aborted>>
  BY PlansAssumption DEF WriteFails, TypeOK, WriterInv, LoopWithinPlan
<1>3. 1..next[c] \subseteq 1..MaxFiles
  BY <1>2, PlansAssumption
<1>4. TypeOK'
  BY <1>1, <1>2, <1>3 DEF Throw, GoTo, TypeOK, Running, Errors
<1>5. LoopWithinPlan' /\ StagedWhole' /\ DistinctDestinations'
  BY <1>1, <1>2
     DEF Throw, GoTo, TypeOK, WriterInv, LoopWithinPlan, StagedWhole, DistinctDestinations
<1>6. UnpublishedBeforeCommit' /\ RefusalPublishesNothing'
  BY <1>1, <1>2
     DEF Throw, GoTo, TypeOK, WriterInv, UnpublishedBeforeCommit, RefusalPublishesNothing
<1>7. (LateRemovals /\ TemporariesAccounted)'
  BY <1>1, <1>2, PlansAssumption DEF Throw, GoTo, TypeOK, WriterInv, LateRemovals, TemporariesAccounted
<1>8. DestinationsWhole'
  BY <1>2 DEF WriterInv, DestinationsWhole
<1> QED
  BY <1>4, <1>5, <1>6, <1>7, <1>8 DEF WriterInv

LEMMA StartCommitStep ==
  ASSUME TypeOK, WriterInv, NEW c \in Calls, StartCommit(c)
  PROVE  TypeOK' /\ WriterInv'
<1>1. TypeOK'
  BY PlansAssumption DEF StartCommit, GoTo, TypeOK, Running
<1>2. /\ pc[c] = "stage" /\ pc' = [pc EXCEPT ![c] = "commit"]
      /\ next' = [next EXCEPT ![c] = 1]
      /\ UNCHANGED <<disk, temp, plan, removing, aborted, error>>
  BY DEF StartCommit, AllStaged, GoTo
<1>3. Len(plan[c]) \in Nat /\ next[c] \in Nat /\ next[c] > Len(plan[c])
  BY PlansAssumption DEF StartCommit, AllStaged, TypeOK
<1>4. 1..Len(plan[c]) \subseteq 1..(next[c] - 1)
  BY <1>3
<1>5. StagedWhole'
  BY <1>2, <1>3, <1>4 DEF TypeOK, WriterInv, StagedWhole
<1>6. DistinctDestinations'
  BY <1>2, <1>3, <1>4 DEF TypeOK, WriterInv, DistinctDestinations
<1>7. (LateRemovals /\ TemporariesAccounted)'
  BY <1>2, <1>3, PlansAssumption
     DEF TypeOK, WriterInv, LoopWithinPlan, LateRemovals, TemporariesAccounted
<1>8. LoopWithinPlan' /\ UnpublishedBeforeCommit'
  BY <1>2 DEF TypeOK, WriterInv, LoopWithinPlan, UnpublishedBeforeCommit
<1>9. DestinationsWhole' /\ RefusalPublishesNothing'
  BY <1>2 DEF WriterInv, DestinationsWhole, RefusalPublishesNothing
<1> QED
  BY <1>1, <1>5, <1>6, <1>7, <1>8, <1>9 DEF WriterInv

(* The step that changes a destination: what moves there is whole, it is   *)
(* the call's own, and the plan names the destination only once.           *)
LEMMA RenameFacts ==
  ASSUME TypeOK, WriterInv, NEW c \in Calls, Rename(c)
  PROVE  /\ pc[c] = "commit"
         /\ next[c] \in 1..Len(plan[c]) /\ next[c] \in 1..MaxFiles
         /\ plan[c][next[c]] \in Paths
         /\ plan[c] \in Seq(Paths) /\ Len(plan[c]) <= MaxFiles /\ Len(plan[c]) \in Nat
         /\ disk' = [disk EXCEPT ![plan[c][next[c]]] = c]
         /\ temp' = [temp EXCEPT ![c][next[c]] = "none"]
         /\ next' = [next EXCEPT ![c] = next[c] + 1]
         /\ UNCHANGED <<pc, plan, removing, aborted, error>>
         /\ disk'[plan[c][next[c]]] = c
         /\ \A p \in Paths : p # plan[c][next[c]] => disk'[p] = disk[p]
<1>1. /\ pc[c] = "commit"
      /\ next[c] \in 1..Len(plan[c]) /\ next[c] \in 1..MaxFiles
      /\ plan[c][next[c]] \in Paths
      /\ plan[c] \in Seq(Paths) /\ Len(plan[c]) <= MaxFiles /\ Len(plan[c]) \in Nat
  BY PlansAssumption DEF Rename, TypeOK
<1>2. temp[c][next[c]] = "whole"
  BY <1>1 DEF WriterInv, StagedWhole
<1>3. /\ disk' = [disk EXCEPT ![plan[c][next[c]]] = c]
      /\ temp' = [temp EXCEPT ![c][next[c]] = "none"]
      /\ next' = [next EXCEPT ![c] = next[c] + 1]
      /\ UNCHANGED <<pc, plan, removing, aborted, error>>
  BY <1>2 DEF Rename
<1>4. /\ disk'[plan[c][next[c]]] = c
      /\ \A p \in Paths : p # plan[c][next[c]] => disk'[p] = disk[p]
  BY <1>1, <1>3 DEF TypeOK
<1> QED
  BY <1>1, <1>3, <1>4

LEMMA RenameStep ==
  ASSUME TypeOK, WriterInv, NEW c \in Calls, Rename(c)
  PROVE  TypeOK' /\ WriterInv'
<1> DEFINE here == next[c]
           to   == plan[c][here]
<1>1. /\ pc[c] = "commit"
      /\ here \in 1..Len(plan[c]) /\ here \in 1..MaxFiles /\ to \in Paths
      /\ plan[c] \in Seq(Paths) /\ Len(plan[c]) <= MaxFiles /\ Len(plan[c]) \in Nat
  BY RenameFacts
<1>3. /\ disk' = [disk EXCEPT ![to] = c]
      /\ temp' = [temp EXCEPT ![c][here] = "none"]
      /\ next' = [next EXCEPT ![c] = here + 1]
      /\ UNCHANGED <<pc, plan, removing, aborted, error>>
  BY RenameFacts
<1>4. /\ disk'[to] = c
      /\ \A p \in Paths : p # to => disk'[p] = disk[p]
  BY RenameFacts
<1> HIDE DEF here, to
<1>5. TypeOK'
  BY <1>1, <1>3, PlansAssumption DEF TypeOK, Contents, TempStates
<1>6. LoopWithinPlan' /\ DistinctDestinations'
  BY <1>1, <1>3 DEF TypeOK, WriterInv, LoopWithinPlan, DistinctDestinations
<1>7. StagedWhole'
  BY <1>1, <1>3, PlansAssumption DEF TypeOK, WriterInv, StagedWhole, here
<1>8. UnpublishedBeforeCommit' /\ RefusalPublishesNothing'
  BY <1>1, <1>3, <1>4 DEF TypeOK, WriterInv, UnpublishedBeforeCommit, RefusalPublishesNothing
<1>9. (LateRemovals /\ TemporariesAccounted)'
  BY <1>1, <1>3, PlansAssumption DEF TypeOK, WriterInv, LateRemovals, TemporariesAccounted, here
<1>10. DestinationsWhole'
  BY <1>4, ContentsAssumption DEF WriterInv, DestinationsWhole
<1> QED
  BY <1>5, <1>6, <1>7, <1>8, <1>9, <1>10 DEF WriterInv

LEMMA RenameFailsStep ==
  ASSUME TypeOK, WriterInv, NEW c \in Calls, RenameFails(c)
  PROVE  TypeOK' /\ WriterInv'
<1>1. TypeOK'
  BY PlansAssumption
     DEF RenameFails, Throw, GoTo, TypeOK, WriterInv, LoopWithinPlan, Running,
         Finished, TempStates, Errors, Contents
<1>2. WriterInv'
  BY PlansAssumption
     DEF RenameFails, Throw, GoTo, TypeOK, WriterInv, LoopWithinPlan, StagedWhole,
         DistinctDestinations, UnpublishedBeforeCommit,
         LateRemovals, TemporariesAccounted, DestinationsWhole, RefusalPublishesNothing
<1> QED
  BY <1>1, <1>2

LEMMA ReturnStep ==
  ASSUME TypeOK, WriterInv, NEW c \in Calls, Return(c)
  PROVE  TypeOK' /\ WriterInv'
<1>1. TypeOK'
  BY PlansAssumption
     DEF Return, GoTo, TypeOK, WriterInv, LoopWithinPlan, Running, Finished,
         TempStates, Errors, Contents
<1>2. LoopWithinPlan' /\ StagedWhole' /\ DistinctDestinations'
  BY DEF Return, GoTo, TypeOK, WriterInv, LoopWithinPlan, StagedWhole, DistinctDestinations
<1>3. UnpublishedBeforeCommit' /\ LateRemovals'
  BY DEF Return, GoTo, TypeOK, WriterInv, UnpublishedBeforeCommit, LateRemovals
<1>4. TemporariesAccounted'
  BY PlansAssumption DEF Return, GoTo, TypeOK, WriterInv, TemporariesAccounted
<1>5. DestinationsWhole' /\ RefusalPublishesNothing'
  BY DEF Return, WriterInv, DestinationsWhole, RefusalPublishesNothing
<1> QED
  BY <1>1, <1>2, <1>3, <1>4, <1>5 DEF WriterInv

LEMMA RemoveTempStep ==
  ASSUME TypeOK, WriterInv, NEW c \in Calls, RemoveTemp(c)
  PROVE  TypeOK' /\ WriterInv'
<1>1. TypeOK'
  BY PlansAssumption
     DEF RemoveTemp, TypeOK, WriterInv, LoopWithinPlan, Running, Finished,
         TempStates, Errors, Contents
<1>2. WriterInv'
  BY PlansAssumption
     DEF RemoveTemp, TypeOK, WriterInv, LoopWithinPlan, StagedWhole,
         DistinctDestinations, UnpublishedBeforeCommit,
         LateRemovals, TemporariesAccounted, DestinationsWhole, RefusalPublishesNothing
<1> QED
  BY <1>1, <1>2

LEMMA RemoveTempFailsStep ==
  ASSUME TypeOK, WriterInv, NEW c \in Calls, RemoveTempFails(c)
  PROVE  TypeOK' /\ WriterInv'
<1>1. TypeOK'
  BY PlansAssumption
     DEF RemoveTempFails, GoTo, TypeOK, WriterInv, LoopWithinPlan, Running,
         Finished, TempStates, Errors, Contents
<1>2. WriterInv'
  BY PlansAssumption
     DEF RemoveTempFails, GoTo, TypeOK, WriterInv, LoopWithinPlan, StagedWhole,
         DistinctDestinations, UnpublishedBeforeCommit,
         LateRemovals, TemporariesAccounted, DestinationsWhole, RefusalPublishesNothing
<1> QED
  BY <1>1, <1>2

LEMMA RethrowStep ==
  ASSUME TypeOK, WriterInv, NEW c \in Calls, Rethrow(c)
  PROVE  TypeOK' /\ WriterInv'
<1>1. TypeOK'
  BY PlansAssumption
     DEF Rethrow, GoTo, TypeOK, WriterInv, LoopWithinPlan, Running, Finished,
         TempStates, Errors, Contents
<1>2. WriterInv'
  BY PlansAssumption
     DEF Rethrow, GoTo, TypeOK, WriterInv, LoopWithinPlan, StagedWhole,
         DistinctDestinations, UnpublishedBeforeCommit,
         LateRemovals, TemporariesAccounted, DestinationsWhole, RefusalPublishesNothing
<1> QED
  BY <1>1, <1>2

LEMMA AbortStep ==
  ASSUME TypeOK, WriterInv, NEW c \in Calls, Abort(c)
  PROVE  TypeOK' /\ WriterInv'
<1>1. TypeOK'
  BY PlansAssumption
     DEF Abort, TypeOK, WriterInv, LoopWithinPlan, Running, Finished, TempStates,
         Errors, Contents
<1>2. WriterInv'
  BY PlansAssumption
     DEF Abort, TypeOK, WriterInv, LoopWithinPlan, StagedWhole,
         DistinctDestinations, UnpublishedBeforeCommit,
         LateRemovals, TemporariesAccounted, DestinationsWhole, RefusalPublishesNothing
<1> QED
  BY <1>1, <1>2

LEMMA CrashStep ==
  ASSUME TypeOK, WriterInv, NEW c \in Calls, Crash(c)
  PROVE  TypeOK' /\ WriterInv'
<1>1. TypeOK'
  BY PlansAssumption
     DEF Crash, GoTo, TypeOK, WriterInv, LoopWithinPlan, Running, Finished,
         TempStates, Errors, Contents
<1>2. WriterInv'
  BY PlansAssumption
     DEF Crash, GoTo, TypeOK, WriterInv, LoopWithinPlan, StagedWhole,
         DistinctDestinations, UnpublishedBeforeCommit,
         LateRemovals, TemporariesAccounted, DestinationsWhole, RefusalPublishesNothing
<1> QED
  BY <1>1, <1>2

(* The order of publication: of the steps of a call, only a rename matters. *)
LEMMA OrderKept ==
  ASSUME TypeOK, OrderInv, disk' = disk, plan' = plan,
         \A d \in Calls : pc'[d] = "commit" =>
           next'[d] = 1 \/ (pc[d] = "commit" /\ next'[d] = next[d])
  PROVE  OrderInv'
<1>1. CommittedPrefix'
  <2> SUFFICES ASSUME NEW d \in Calls, pc'[d] = "commit",
                      NEW i \in 1..(next'[d] - 1), i <= Len(plan[d])
               PROVE  disk[plan[d][i]] \in Calls
    BY DEF CommittedPrefix
  <2>1. next'[d] # 1
    OBVIOUS
  <2>2. pc[d] = "commit" /\ next'[d] = next[d]
    BY <2>1
  <2> QED
    BY <2>2 DEF OrderInv, CommittedPrefix
<1>2. PlanOrder'
  BY DEF OrderInv, PlanOrder
<1> QED
  BY <1>1, <1>2 DEF OrderInv

LEMMA BeginOrder ==
  ASSUME TypeOK, WriterInv, OrderInv, NEW c \in Calls,
         NEW files \in {p \in Seq(Paths) : Len(p) <= MaxFiles}, Begin(c, files)
  PROVE  OrderInv'
<1>1. CommittedPrefix'
  BY DEF Begin, GoTo, TypeOK, OrderInv, CommittedPrefix
<1>2. PlanOrder'
  <2> SUFFICES ASSUME NEW d \in Calls, NEW j \in DOMAIN plan'[d], disk'[plan'[d][j]] = d,
                      NEW i \in 1..j
               PROVE  disk'[plan'[d][i]] \in Calls
    BY DEF PlanOrder
  <2>1. CASE d = c
    <3>1. plan'[c] = files /\ pc[c] = "idle" /\ disk' = disk
      BY DEF Begin, TypeOK
    <3>2. files[j] \in Paths
      BY <2>1, <3>1
    <3> QED
      BY <2>1, <3>1, <3>2 DEF WriterInv, UnpublishedBeforeCommit
  <2>2. CASE d # c
    BY <2>2 DEF Begin, TypeOK, OrderInv, PlanOrder
  <2> QED
    BY <2>1, <2>2
<1> QED
  BY <1>1, <1>2 DEF OrderInv

LEMMA RenameOrder ==
  ASSUME TypeOK, WriterInv, OrderInv, NEW c \in Calls, Rename(c)
  PROVE  OrderInv'
<1> DEFINE here == next[c]
           to   == plan[c][here]
<1>1. /\ pc[c] = "commit"
      /\ here \in 1..Len(plan[c]) /\ here \in 1..MaxFiles /\ to \in Paths
      /\ plan[c] \in Seq(Paths) /\ Len(plan[c]) <= MaxFiles /\ Len(plan[c]) \in Nat
  BY RenameFacts
<1>2. /\ next' = [next EXCEPT ![c] = here + 1]
      /\ UNCHANGED <<pc, plan, removing, aborted, error>>
  BY RenameFacts
<1>4. /\ disk'[to] = c
      /\ \A p \in Paths : p # to => disk'[p] = disk[p]
  BY RenameFacts
<1> HIDE DEF here, to
<1>3. CommittedPrefix'
  <2> SUFFICES ASSUME NEW d \in Calls, pc[d] = "commit",
                      NEW i \in 1..(next'[d] - 1), i <= Len(plan[d])
               PROVE  disk'[plan[d][i]] \in Calls
    BY <1>2 DEF CommittedPrefix
  <2>1. plan[d][i] \in Paths
    BY PlansAssumption DEF TypeOK
  <2>2. CASE d = c /\ i = here
    BY <2>2, <1>4 DEF to
  <2>3. CASE ~(d = c /\ i = here)
    <3>1. i \in 1..(next[d] - 1)
      BY <2>3, <1>1, <1>2 DEF TypeOK, here
    <3>2. disk[plan[d][i]] \in Calls
      BY <3>1 DEF OrderInv, CommittedPrefix
    <3> QED
      BY <2>1, <3>2, <1>4
  <2> QED
    BY <2>2, <2>3
<1>5. PlanOrder'
  <2> SUFFICES ASSUME NEW d \in Calls, NEW j \in DOMAIN plan[d], disk'[plan[d][j]] = d,
                      NEW i \in 1..j
               PROVE  disk'[plan[d][i]] \in Calls
    BY <1>2 DEF PlanOrder
  <2>1. /\ plan[d] \in Seq(Paths) /\ j \in 1..Len(plan[d]) /\ i \in 1..Len(plan[d])
        /\ plan[d][i] \in Paths /\ plan[d][j] \in Paths
    BY DEF TypeOK
  <2>2. CASE disk[plan[d][j]] = d
    <3>1. disk[plan[d][i]] \in Calls
      BY <2>2 DEF OrderInv, PlanOrder
    <3> QED
      BY <2>1, <3>1, <1>4
  <2>3. CASE disk[plan[d][j]] # d
    <3>1. d = c /\ plan[c][j] = to
      BY <2>1, <2>3, <1>4
    <3>2. j = here
      BY <2>1, <3>1, <1>1 DEF WriterInv, DistinctDestinations, to
    <3>3. CASE i = here
      BY <3>1, <3>3, <1>4 DEF to
    <3>4. CASE i # here
      <4>1. i \in 1..(next[c] - 1) /\ i <= Len(plan[c])
        BY <2>1, <3>1, <3>2, <3>4, <1>1 DEF here
      <4>2. disk[plan[c][i]] \in Calls
        BY <4>1, <1>1 DEF OrderInv, CommittedPrefix
      <4> QED
        BY <2>1, <3>1, <4>2, <1>4
    <3> QED
      BY <3>3, <3>4
  <2> QED
    BY <2>2, <2>3
<1> QED
  BY <1>3, <1>5 DEF OrderInv

(* The inductive step.                                                     *)
LEMMA StepKeeps ==
  ASSUME TypeOK, WriterInv, NEW c \in Calls, Step(c)
  PROVE  TypeOK' /\ WriterInv'
BY ThrowIfAbortedStep, RefuseDuplicateStep, MkdirFailsStep, StartWriteStep,
   CreateTempStep, FillTempStep, WriteFailsStep, StartCommitStep, RenameStep, RenameFailsStep,
   ReturnStep, RemoveTempStep, RemoveTempFailsStep, RethrowStep DEF Step, Stage, Commit, Rollback

LEMMA StepOrder ==
  ASSUME TypeOK, WriterInv, OrderInv, NEW c \in Calls, Step(c)
  PROVE  OrderInv'
<1>1. CASE Stage(c)
  BY <1>1, OrderKept
     DEF Stage, ThrowIfAborted, RefuseDuplicate, MkdirFails, StartWrite, CreateTemp, FillTemp,
         WriteFails, Throw, GoTo, Staging, TypeOK
<1>2. CASE Rename(c)
  BY <1>2, RenameOrder
<1>3. CASE StartCommit(c) \/ RenameFails(c) \/ Return(c)
  BY <1>3, OrderKept DEF StartCommit, RenameFails, Return, AllStaged, Throw, GoTo, TypeOK
<1>4. CASE Rollback(c)
  BY <1>4, OrderKept DEF Rollback, RemoveTemp, RemoveTempFails, Rethrow, GoTo, TypeOK
<1> QED
  BY <1>1, <1>2, <1>3, <1>4 DEF Step, Commit

LEMMA Inductive == TypeOK /\ Inv /\ [Next]_vars => TypeOK' /\ Inv'
<1> SUFFICES ASSUME TypeOK, Inv, [Next]_vars PROVE TypeOK' /\ Inv'
  OBVIOUS
<1> USE DEF Inv
<1>1. CASE UNCHANGED vars
  BY <1>1
     DEF vars, TypeOK, WriterInv, OrderInv, LoopWithinPlan, StagedWhole, DistinctDestinations,
         UnpublishedBeforeCommit, CommittedPrefix, LateRemovals, TemporariesAccounted,
         DestinationsWhole, RefusalPublishesNothing, PlanOrder
<1>2. ASSUME NEW c \in Calls, NEW files \in Plans, Begin(c, files)
      PROVE  TypeOK' /\ Inv'
  <2>1. files \in {p \in Seq(Paths) : Len(p) <= MaxFiles}
    BY PlansAssumption
  <2> QED
    BY <1>2, <2>1, BeginStep, BeginOrder
<1>3. ASSUME NEW c \in Calls, Step(c) PROVE TypeOK' /\ Inv'
  BY <1>3, StepKeeps, StepOrder
<1>4. ASSUME NEW c \in Calls, Abort(c) \/ Crash(c) PROVE TypeOK' /\ Inv'
  <2>1. OrderInv'
    BY <1>4, OrderKept DEF Abort, Crash, GoTo, TypeOK
  <2> QED
    BY <1>4, <2>1, AbortStep, CrashStep
<1> QED
  BY <1>1, <1>2, <1>3, <1>4 DEF Next

THEOREM Invariance == Spec => [](TypeOK /\ Inv)
BY InitEstablishes, Inductive, PTL DEF Spec

(* Type correctness of the writer's state, for every instance.             *)
THEOREM TypeCorrect == Spec => []TypeOK
BY Invariance, PTL

(* No destination ever holds part of a file: writeTextFilesAtomically only *)
(* renames temporaries whose writeFile was awaited.                        *)
THEOREM WholeDestinations == Spec => []DestinationsWhole
<1>1. Inv => DestinationsWhole
  BY DEF Inv, WriterInv
<1> QED
  BY <1>1, Invariance, PTL

(* A canceled or refused call has published nothing, whatever the other    *)
(* calls do and whichever of its own clean-up steps fail.                  *)
THEOREM RefusedCallsPublishNothing == Spec => []RefusalPublishesNothing
<1>1. Inv => RefusalPublishesNothing
  BY DEF Inv, WriterInv
<1> QED
  BY <1>1, Invariance, PTL

(* Files are published in plan order: the last file of a plan, bundle.json *)
(* in a scan, is never there before the files it stands for.               *)
THEOREM PublishedInPlanOrder == Spec => []PlanOrder
<1>1. Inv => PlanOrder
  BY DEF Inv, OrderInv
<1> QED
  BY <1>1, Invariance, PTL

(* No temporary file outlives a call that ended, at whichever file         *)
(* operation it was stopped, unless one of its own removals failed.        *)
THEOREM NoTemporaryOutlivesItsCall == Spec => []NoTemporaryLeft
<1>1. Inv => NoTemporaryLeft
  BY DEF Inv, WriterInv, LateRemovals, TemporariesAccounted, NoTemporaryLeft
<1> QED
  BY <1>1, Invariance, PTL

-----------------------------------------------------------------------------
(* The inductive invariant of publication.                                  *)

Exits == {"none", "published", "canceled", "internal", "killed"}

PublicationType ==
  /\ TypeOK /\ serial \in BOOLEAN
  /\ manifest \in [Calls -> SUBSET Traces]
  /\ stale    \in [Calls -> SUBSET Traces]
  /\ cleaning \in [Calls -> SUBSET Traces]
  /\ exit     \in [Calls -> Exits]

Destinations(c) == {plan[c][i] : i \in 1..Len(plan[c])}

(* What the commands rely on in their lists of destinations.                *)
PlanMade(c) ==
  /\ Len(plan[c]) >= 2 /\ plan[c][1] = Catalogue /\ TraceManifest \in Destinations(c)
  /\ c \in Scans => plan[c][Len(plan[c])] = Bundle
  /\ c \in Reports => Bundle \notin Destinations(c)
  /\ \A i, j \in 1..Len(plan[c]) :
       plan[c][i] \in Traces /\ plan[c][j] = TraceManifest => i < j
  /\ stale[c] \cap Destinations(c) = {}
  /\ manifest[c] = (Destinations(c) \cap Traces) \cup (IF c \in Scans THEN {} ELSE stale[c])

PlansMade == \A c \in Calls : Started(c) => PlanMade(c)

Ends ==
  \A c \in Calls :
    /\ exit[c] # "none" => pc[c] \in Finished
    /\ pc[c] = "ok" => next[c] > Len(plan[c])
    /\ removing[c] # {} => pc[c] \in {"rollback", "failed"}
    /\ cleaning[c] \subseteq stale[c]
    /\ ~Started(c) => cleaning[c] = {} /\ exit[c] = "none"
    /\ exit[c] = "published" => pc[c] = "ok"
    /\ pc[c] = "crashed" => exit[c] = "killed"

(* With commands one after the other, one of them is at work.               *)
Alone ==
  serial => \A c, d \in Calls : c # d /\ Started(c) /\ Started(d) => Settled(c) \/ Settled(d)

(* A file that a scan has renamed and what may have become of it.            *)
Accounted(c, p) ==
  \/ disk[p] = c
  \/ \E d \in Calls \ {c} :
       \/ disk[p] = d
       \/ p \in stale[d] /\ pc[d] = "ok" /\ disk[p] \in {Absent, Foreign}

CommitAccounted ==
  \A c \in Calls : pc[c] = "commit" =>
    \A i \in 1..Len(plan[c]) : i < next[c] => Accounted(c, plan[c][i])

NotYet ==
  \A c \in Calls : pc[c] = "commit" =>
    \A i \in 1..Len(plan[c]) : next[c] <= i => disk[plan[c][i]] # c

(* Alone, a command finds what it has renamed as it was.                     *)
Own ==
  serial => \A c \in Calls : pc[c] \in {"commit", "ok"} /\ ~Settled(c) =>
    \A i \in 1..Len(plan[c]) : i < next[c] => disk[plan[c][i]] = c

Unbroken == \A c \in Calls : pc[c] \in {"failed", "crashed"} => error[c] = "canceled"

Breaking(c) ==
  \/ pc[c] = "commit" /\ next[c] \in 2..Len(plan[c])
  \/ pc[c] = "rollback" /\ error[c] # "canceled"

MarkerKept ==
  serial /\ Unbroken => \A c \in Scans : disk[Bundle] = c =>
    Intact(c) \/ disk[Catalogue] \in Reports \/ \E e \in Calls : Breaking(e)

Regular ==
  \A c \in Calls : Started(c) => exit[c] \in {"none", "published"} \/ error[c] = "canceled"

Working(c) ==
  exit[c] = "none" /\ \/ pc[c] \in {"commit", "ok"} /\ next[c] >= 2
                      \/ pc[c] \in {"rollback", "failed"} /\ error[c] # "canceled"

TracesKept ==
  serial /\ Regular => \A t \in Traces : disk[t] \in Calls =>
    t \in TrackedTraces \/ \E e \in Calls : Working(e)

(* The traces there are those that a command publishes or will remove.      *)
TracesExpected ==
  serial /\ Regular =>
    \A c \in Calls : exit[c] = "none" /\ pc[c] \in {"stage", "write", "commit", "ok"} =>
      \A t \in Traces : disk[t] \in Calls => t \in Destinations(c) \cup cleaning[c]

NoReports == \A d \in Reports : ~Started(d)

TrackedAreWritten ==
  serial /\ NoReports =>
    /\ \A t \in TrackedTraces : disk[t] \in Calls
    /\ \A c \in Calls : \A t \in cleaning[c] : disk[t] \in Calls

PublicationInv ==
  /\ PublicationType /\ WriterInv
  /\ PlansMade /\ Ends /\ Alone /\ NotYet /\ Own
  /\ CommitAccounted /\ MarkerAccounted
  /\ MarkerKept /\ TracesKept /\ TracesExpected /\ TrackedAreWritten

-----------------------------------------------------------------------------
(* The list of destinations.                                                *)

LEMMA SelectedListed ==
  ASSUME NEW selected \in SUBSET Traces
  PROVE  LET s == SetToSeq(selected)
         IN  /\ s \in Seq(selected) /\ Len(s) \in Nat /\ Len(s) + 4 <= MaxFiles
             /\ {s[i] : i \in 1..Len(s)} = selected
<1> DEFINE n == Cardinality(selected)
           s == SetToSeq(selected)
<1>1. IsFiniteSet(selected) /\ n \in Nat /\ n <= Cardinality(Traces) /\ Cardinality(Traces) \in Nat
  BY NamesAssumption, FS_Subset, FS_CardinalityType
<1>2. PICK f \in [1..n -> selected] : IsInjective(f)
  BY <1>1, FS_CardinalityType DEF ExistsBijection, Bijection, Injection
<1>3. s \in [1..n -> selected] /\ IsInjective(s)
  BY <1>2 DEF SetToSeq
<1>4. Cardinality(1..n) = n
  BY <1>1, FS_Interval
<1> HIDE DEF n, s
<1>5. s \in Injection(1..n, selected)
  BY <1>3 DEF Injection
<1>6. s \in Surjection(1..n, selected)
  BY <1>1, <1>4, <1>5, FS_Injection DEF n
<1>7. {s[i] : i \in 1..n} = selected
  BY <1>3, <1>6 DEF Surjection
<1>8. s \in Seq(selected) /\ Len(s) = n
  BY <1>1, <1>3
<1>9. n + 4 <= MaxFiles
  BY <1>1, NamesAssumption, PlansAssumption
<1>10. QED
  BY <1>1, <1>7, <1>8, <1>9 DEF s

(* The list of a command as the later steps see it.                          *)
LEMMA ArtifactsMean ==
  ASSUME NEW c \in Calls, NEW selected \in SUBSET Traces, NEW files,
         files = ArtifactsOf(c, selected)
  PROVE  /\ files \in Seq(Paths) /\ Len(files) \in 2..MaxFiles /\ files[1] = Catalogue
         /\ \E i \in 1..Len(files) : files[i] = TraceManifest
         /\ c \in Scans => files[Len(files)] = Bundle
         /\ c \in Reports => \A i \in 1..Len(files) : files[i] # Bundle
         /\ \A i, j \in 1..Len(files) : files[i] \in Traces /\ files[j] = TraceManifest => i < j
         /\ \A t \in Traces : t \in selected <=> \E i \in 1..Len(files) : files[i] = t
<1> DEFINE s == SetToSeq(selected)
           n == Len(s)
           reports == <<Catalogue>> \o s \o <<TraceManifest>>
<1>1. /\ s \in Seq(selected) /\ n \in Nat /\ n + 4 <= MaxFiles
      /\ {s[i] : i \in 1..n} = selected
  BY SelectedListed
<1>2. /\ Catalogue \in Paths /\ TraceManifest \in Paths /\ Analysis \in Paths /\ Bundle \in Paths
      /\ selected \subseteq Paths /\ MaxFiles \in Nat
      /\ c \in Scans \cup Reports /\ Scans \cap Reports = {}
  BY CommandsAssumption, PlansAssumption
<1> HIDE DEF s
<1>3. s \in Seq(Paths)
  BY <1>1, <1>2
<1>4. /\ reports \in Seq(Paths) /\ Len(reports) = n + 2
      /\ reports[1] = Catalogue /\ reports[n + 2] = TraceManifest
      /\ \A i \in 2..(n + 1) : reports[i] = s[i - 1]
  BY <1>1, <1>2, <1>3
<1> DEFINE m == IF c \in Scans THEN n + 4 ELSE n + 2
<1> HIDE DEF reports, n
<1>5. /\ files \in Seq(Paths) /\ Len(files) = m
      /\ \A i \in 1..(n + 2) : files[i] = reports[i]
      /\ c \in Scans => files[n + 3] = Analysis /\ files[n + 4] = Bundle
  <2>1. CASE c \in Scans
    <3>1. files = reports \o <<Analysis, Bundle>>
      BY <2>1 DEF ArtifactsOf, reports, s
    <3>2. QED
      BY <1>1, <1>2, <1>4, <2>1, <3>1
  <2>2. CASE c \notin Scans
    <3>1. files = reports
      BY <2>2 DEF ArtifactsOf, reports, s
    <3>2. QED
      BY <1>1, <1>4, <2>2, <3>1
  <2>3. QED
    BY <2>1, <2>2
<1>6. /\ files[1] = Catalogue /\ files[n + 2] = TraceManifest
      /\ \A i \in 2..(n + 1) : files[i] = s[i - 1]
  <2>1. 1 \in 1..(n + 2) /\ n + 2 \in 1..(n + 2) /\ \A i \in 2..(n + 1) : i \in 1..(n + 2)
    BY <1>1 DEF n
  <2>2. QED
    BY <1>4, <1>5, <2>1
<1>7. /\ \A i \in 2..(n + 1) : files[i] \in Traces
      /\ \A i \in 1..m : files[i] \in Traces => i \in 2..(n + 1)
      /\ \A i \in 1..m : files[i] = TraceManifest => i = n + 2
  <2>1. \A i \in 2..(n + 1) : i - 1 \in 1..n
    BY <1>1
  <2>2. \A i \in 2..(n + 1) : files[i] \in Traces
    BY <1>1, <1>6, <2>1
  <2>3. \A i \in 1..m : i = 1 \/ i \in 2..(n + 1) \/ i = n + 2
                        \/ (c \in Scans /\ (i = n + 3 \/ i = n + 4))
    BY <1>1
  <2>4. QED
    BY <1>5, <1>6, <2>2, <2>3, NamesAssumption
<1>8. c \in Reports => \A i \in 1..m : files[i] # Bundle
  <2>1. c \in Reports => c \notin Scans
    BY <1>2
  <2>2. \A i \in 1..(n + 2) : i = 1 \/ i \in 2..(n + 1) \/ i = n + 2
    BY <1>1
  <2>3. QED
    BY <1>6, <1>7, <2>1, <2>2, NamesAssumption
<1>9. \A t \in Traces : t \in selected <=> \E i \in 1..m : files[i] = t
  <2>1. ASSUME NEW t \in selected PROVE \E i \in 1..m : files[i] = t
    <3>1. PICK k \in 1..n : s[k] = t
      BY <1>1
    <3>2. k + 1 \in 2..(n + 1) /\ (k + 1) - 1 = k /\ k + 1 \in 1..m
      BY <1>1
    <3>3. QED
      BY <1>6, <3>1, <3>2
  <2>2. ASSUME NEW i \in 1..m, files[i] \in Traces PROVE files[i] \in selected
    <3>1. i \in 2..(n + 1) /\ i - 1 \in 1..n
      BY <1>1, <1>7, <2>2
    <3>2. QED
      BY <1>1, <1>6, <3>1
  <2>3. QED
    BY <2>1, <2>2
<1>10. m \in 2..MaxFiles /\ n + 2 \in 1..m /\ (c \in Scans => m = n + 4)
  BY <1>1, <1>2
<1>11. \A i, j \in 1..m : files[i] \in Traces /\ files[j] = TraceManifest => i < j
  BY <1>1, <1>7
<1> HIDE DEF m
<1>12. QED
  BY <1>5, <1>6, <1>8, <1>9, <1>10, <1>11

-----------------------------------------------------------------------------
LEMMA PublicationInitInv == PublicationInit => PublicationInv
<1> SUFFICES ASSUME PublicationInit PROVE PublicationInv
  OBVIOUS
<1>1. TypeOK /\ WriterInv
  BY InitEstablishes DEF PublicationInit, Inv
<1>2. /\ \A c \in Calls : /\ pc[c] = "idle" /\ removing[c] = {} /\ cleaning[c] = {}
                          /\ exit[c] = "none"
      /\ \A p \in Paths : disk[p] = Absent
  BY DEF PublicationInit, Init
<1>3. PublicationType
  BY <1>1 DEF PublicationInit, PublicationType, Exits
<1>4. PlansMade /\ Alone /\ NotYet /\ Own /\ CommitAccounted /\ TracesExpected
  BY <1>2 DEF PlansMade, Started, Alone, NotYet, Own, CommitAccounted, TracesExpected
<1>5. Ends
  BY <1>2 DEF Ends, Started
<1>6. MarkerAccounted /\ MarkerKept /\ TracesKept /\ TrackedAreWritten
  <2>1. Bundle \in Paths /\ TraceManifest \in Paths /\ Traces \subseteq Paths
    BY CommandsAssumption
  <2>2. Scans \subseteq Calls /\ Absent \notin Calls
    BY CommandsAssumption, ContentsAssumption
  <2>3. TrackedTraces = {}
    BY <1>2, <2>1, <2>2 DEF TrackedTraces
  <2>4. QED
    BY <1>2, <2>1, <2>2, <2>3 DEF MarkerAccounted, MarkerKept, TracesKept, TrackedAreWritten
<1>7. QED
  BY <1>1, <1>3, <1>4, <1>5, <1>6 DEF PublicationInv

-----------------------------------------------------------------------------
(* The steps of the writer that change no destination.                      *)

QuietStep(c) == Stage(c) \/ StartCommit(c) \/ RenameFails(c) \/ Return(c) \/ Rollback(c)

LEMMA QuietShape ==
  ASSUME TypeOK, NEW c \in Calls, QuietStep(c)
  PROVE  /\ disk' = disk /\ plan' = plan
         /\ \A d \in Calls \ {c} : /\ pc'[d] = pc[d] /\ next'[d] = next[d]
                                   /\ error'[d] = error[d] /\ removing'[d] = removing[d]
         /\ \/ /\ pc[c] \in {"stage", "write"} /\ pc'[c] \in {"stage", "write"}
               /\ error'[c] = error[c] /\ removing'[c] = removing[c]
            \/ pc[c] \in {"stage", "write"} /\ pc'[c] = "rollback"
            \/ /\ pc[c] = "stage" /\ pc'[c] = "commit" /\ next'[c] = 1
               /\ error'[c] = error[c] /\ removing'[c] = removing[c]
            \/ /\ pc[c] = "commit" /\ next[c] <= Len(plan[c]) /\ pc'[c] = "rollback"
               /\ error'[c] = "io"
            \/ /\ pc[c] = "commit" /\ next[c] > Len(plan[c]) /\ pc'[c] = "ok"
               /\ next'[c] = next[c] /\ error'[c] = error[c] /\ removing'[c] = removing[c]
            \/ /\ pc[c] = "rollback" /\ pc'[c] \in {"rollback", "failed"}
               /\ error'[c] \in {error[c], "io"} /\ removing'[c] \subseteq removing[c]
               /\ next'[c] = next[c]
            \/ /\ pc[c] = "failed" /\ pc'[c] = "failed" /\ next'[c] = next[c]
               /\ error'[c] = error[c] /\ removing'[c] \subseteq removing[c]
<1>1. CASE ThrowIfAborted(c) \/ RefuseDuplicate(c) \/ MkdirFails(c) \/ WriteFails(c)
  BY <1>1 DEF ThrowIfAborted, RefuseDuplicate, MkdirFails, WriteFails, Throw, GoTo, Staging, TypeOK
<1>2. CASE StartWrite(c) \/ CreateTemp(c) \/ FillTemp(c)
  BY <1>2 DEF StartWrite, CreateTemp, FillTemp, GoTo, Staging, TypeOK
<1>3. CASE StartCommit(c) \/ RenameFails(c) \/ Return(c)
  BY <1>3 DEF StartCommit, RenameFails, Return, AllStaged, Throw, GoTo, TypeOK
<1>4. CASE Rollback(c)
  BY <1>4 DEF Rollback, RemoveTemp, RemoveTempFails, Rethrow, GoTo, TypeOK
<1>5. QED
  BY <1>1, <1>2, <1>3, <1>4 DEF QuietStep, Stage

(* An accounted file stays so when nobody changes it or a call replaces it,  *)
(* or when a call whose clean-up it was removes it.                         *)
LEMMA AccountedKept ==
  ASSUME NEW c \in Calls, NEW p, Accounted(c, p),
         \/ disk'[p] = disk[p] \/ disk'[p] \in Calls
         \/ disk[p] = Absent /\ disk'[p] = Foreign
         \/ \E d \in Calls \ {c} : p \in stale[d] /\ pc[d] = "ok" /\ disk'[p] = Absent,
         \A d \in Calls : pc[d] = "ok" => pc'[d] = "ok" /\ stale'[d] = stale[d]
  PROVE  Accounted(c, p)'
BY ContentsAssumption DEF Accounted

LEMMA SamePlans ==
  ASSUME plan' = plan, UNCHANGED <<manifest, stale>>
  PROVE  /\ \A c \in Calls : PlanMade(c) => PlanMade(c)'
         /\ \A c \in Calls : Listed(c)' = Listed(c) /\ Destinations(c)' = Destinations(c)
<1>1. \A c \in Calls : Listed(c)' = Listed(c) /\ Destinations(c)' = Destinations(c)
  BY DEF Listed, Destinations
<1>2. \A c \in Calls : PlanMade(c) => PlanMade(c)'
  BY <1>1 DEF PlanMade
<1>3. QED
  BY <1>1, <1>2

(* What bundle.json stands for, in the terms of the invariant.              *)
LEMMA MarkerMeans ==
  MarkerAccounted <=>
    \A c \in Scans : disk[Bundle] = c => \A p \in Listed(c) : Accounted(c, p)
BY DEF MarkerAccounted, Accounted

LEMMA MarkerMeansNext ==
  MarkerAccounted' <=>
    \A c \in Scans : disk'[Bundle] = c => \A p \in Listed(c)' : Accounted(c, p)'
BY DEF MarkerAccounted, Accounted

LEMMA QuietKeeps ==
  ASSUME PublicationInv, NEW c \in Calls, QuietStep(c),
         UNCHANGED <<serial, manifest, stale, cleaning, exit>>
  PROVE  PublicationInv'
<1>1. PublicationType' /\ WriterInv'
  <2>1. TypeOK' /\ WriterInv'
    BY StepKeeps DEF PublicationInv, PublicationType, QuietStep, Step, Commit
  <2>2. QED
    BY <2>1 DEF PublicationInv, PublicationType
<1>2. TypeOK
  BY DEF PublicationInv, PublicationType
<1>3. PlansMade'
  <2>1. \A d \in Calls : Started(d)' => Started(d)
    BY <1>2, QuietShape DEF Started
  <2>2. plan' = plan
    BY <1>2, QuietShape
  <2>3. \A d \in Calls : PlanMade(d) => PlanMade(d)'
    BY <2>2, SamePlans
  <2>4. QED
    BY <2>1, <2>3 DEF PublicationInv, PlansMade
<1>4. Ends'
  BY <1>2, QuietShape DEF PublicationInv, Ends, Finished, Started
<1>5. \A d \in Calls : /\ Started(d)' <=> Started(d)
                       /\ Settled(d) => Settled(d)'
  BY <1>2, QuietShape DEF PublicationInv, Ends, Started, Settled, Finished
<1>6. Alone'
  BY <1>5 DEF PublicationInv, Alone
<1>7. NotYet'
  <2>1. \A d \in Calls : pc'[d] = "commit" =>
          \/ pc[d] = "commit" /\ next'[d] = next[d]
          \/ pc[d] = "stage" /\ next'[d] = 1
    BY <1>2, QuietShape
  <2>2. \A d \in Calls : pc[d] = "stage" => \A i \in 1..Len(plan[d]) : disk[plan[d][i]] # d
    BY <1>2 DEF PublicationInv, WriterInv, UnpublishedBeforeCommit, TypeOK
  <2>3. disk' = disk /\ plan' = plan
    BY <1>2, QuietShape
  <2>4. QED
    BY <2>1, <2>2, <2>3 DEF PublicationInv, NotYet
<1>8. Own' /\ CommitAccounted'
  <2>1. \A d \in Calls : pc'[d] \in {"commit", "ok"} =>
          /\ \/ /\ pc[d] \in {"commit", "ok"} /\ next'[d] = next[d]
                /\ pc'[d] = "commit" => pc[d] = "commit"
             \/ next'[d] = 1
          /\ Settled(d) => Settled(d)'
    BY <1>2, <1>5, QuietShape
  <2>2. disk' = disk /\ plan' = plan
    BY <1>2, QuietShape
  <2>4. \A d \in Calls : \A i \in 1..Len(plan[d]) : ~(i < 1)
    OBVIOUS
  <2>5. Own'
    BY <2>1, <2>2, <2>4 DEF PublicationInv, Own
  <2>6. \A d \in Calls : pc[d] = "ok" => pc'[d] = "ok" /\ stale'[d] = stale[d]
    BY <1>2, QuietShape
  <2>7. \A d \in Calls : \A p : Accounted(d, p) => Accounted(d, p)'
    BY <2>2, <2>6, AccountedKept
  <2>8. CommitAccounted'
    BY <2>1, <2>2, <2>4, <2>7 DEF PublicationInv, CommitAccounted
  <2>9. QED
    BY <2>5, <2>8
<1>9. /\ disk' = disk /\ plan' = plan
      /\ \A d \in Calls : Listed(d)' = Listed(d) /\ Destinations(d)' = Destinations(d)
  BY <1>2, QuietShape, SamePlans
<1>10. MarkerAccounted'
  <2>1. \A d \in Calls : pc[d] = "ok" => pc'[d] = "ok" /\ stale'[d] = stale[d]
    BY <1>2, QuietShape
  <2>2. \A d \in Calls : \A p : Accounted(d, p) => Accounted(d, p)'
    BY <1>9, <2>1, AccountedKept
  <2>3. QED
    BY <1>9, <2>2, MarkerMeans, MarkerMeansNext, CommandsAssumption DEF PublicationInv
<1>11. MarkerKept'
  <2>1. Unbroken' => Unbroken
    BY <1>2, QuietShape DEF Unbroken
  <2>2. Unbroken' => \A e \in Calls : Breaking(e) => Breaking(e)'
    BY <1>2, QuietShape DEF Unbroken, Breaking
  <2>3. \A d \in Calls : Intact(d) => Intact(d)'
    BY <1>9 DEF Intact
  <2>4. QED
    BY <1>9, <2>1, <2>2, <2>3, CommandsAssumption DEF PublicationInv, MarkerKept
<1>12. TrackedTraces' = TrackedTraces
  BY <1>9 DEF TrackedTraces
<1>13. Regular' => Regular
  <2>1. \A d \in Calls : exit[d] \notin {"none", "published"} => error'[d] = error[d]
    BY <1>2, QuietShape DEF PublicationInv, Ends, Finished
  <2>2. QED
    BY <1>5, <2>1 DEF Regular
<1>14. TracesKept'
  <2>1. \A e \in Calls : Working(e) => Working(e)'
    <3>1. SUFFICES ASSUME NEW e \in Calls, Working(e) PROVE Working(e)'
      OBVIOUS
    <3>2. next[e] \in Nat /\ Len(plan[e]) \in Nat
      BY <1>2, PlansAssumption DEF TypeOK
    <3>3. QED
      BY <1>2, <3>1, <3>2, QuietShape DEF Working
  <2>2. QED
    BY <1>9, <1>12, <1>13, <2>1 DEF PublicationInv, TracesKept
<1>15. TracesExpected'
  <2>1. \A d \in Calls : pc'[d] \in {"stage", "write", "commit", "ok"} =>
          pc[d] \in {"stage", "write", "commit", "ok"}
    BY <1>2, QuietShape
  <2>2. QED
    BY <1>9, <1>13, <2>1 DEF PublicationInv, TracesExpected
<1>16. TrackedAreWritten'
  <2>1. NoReports' => NoReports
    BY <1>5, CommandsAssumption DEF NoReports
  <2>2. QED
    BY <1>9, <1>12, <2>1 DEF PublicationInv, TrackedAreWritten
<1>17. QED
  BY <1>1, <1>3, <1>4, <1>6, <1>7, <1>8, <1>10, <1>11, <1>14, <1>15, <1>16 DEF PublicationInv

-----------------------------------------------------------------------------
(* The steps by which a command ends, which move no file.                   *)

EndStep(c) == RemoveStaleFails(c) \/ EndPublished(c) \/ EndFailed(c) \/ Interrupt(c)

LEMMA EndShape ==
  ASSUME PublicationType, Ends, NEW c \in Calls, EndStep(c)
  PROVE  /\ UNCHANGED <<disk, temp, pc, plan, next, removing, error, serial, manifest, stale>>
         /\ aborted' \in [Calls -> BOOLEAN]
         /\ exit' \in [Calls -> Exits] /\ cleaning' \in [Calls -> SUBSET Traces]
         /\ \A d \in Calls : /\ cleaning'[d] \subseteq cleaning[d]
                             /\ exit[d] # "none" => exit'[d] = exit[d]
                             /\ exit'[d] = "none" => cleaning'[d] = cleaning[d]
                             /\ d # c => exit'[d] = exit[d]
         /\ \/ exit'[c] = exit[c]
            \/ pc[c] = "ok" /\ exit[c] = "none" /\ exit'[c] \in {"canceled", "internal"}
            \/ pc[c] = "ok" /\ exit[c] = "none" /\ exit'[c] = "published" /\ cleaning[c] = {}
            \/ pc[c] = "failed" /\ exit[c] = "none" /\ exit'[c] \in {"canceled", "internal"}
<1>1. CASE RemoveStaleFails(c)
  BY <1>1 DEF RemoveStaleFails, ReportedAs, vars, PublicationType, TypeOK, Exits
<1>2. CASE EndPublished(c)
  BY <1>2 DEF EndPublished, vars, PublicationType, TypeOK, Exits
<1>3. CASE EndFailed(c)
  BY <1>3 DEF EndFailed, ReportedAs, vars, PublicationType, TypeOK, Exits
<1>4. CASE Interrupt(c)
  BY <1>4 DEF Interrupt, PublicationType, TypeOK, Exits
<1>5. QED
  BY <1>1, <1>2, <1>3, <1>4 DEF EndStep

LEMMA EndKeeps ==
  ASSUME PublicationInv, NEW c \in Calls, EndStep(c)
  PROVE  PublicationInv'
<1>1. PublicationType /\ Ends
  BY DEF PublicationInv
<1>2. UNCHANGED <<disk, temp, pc, plan, next, removing, error, serial, manifest, stale>>
  BY <1>1, EndShape
<1>3. PublicationType' /\ WriterInv'
  <2>1. TypeOK'
    BY <1>1, <1>2, EndShape DEF PublicationType, TypeOK
  <2>2. WriterInv'
    BY <1>2
       DEF PublicationInv, WriterInv, LoopWithinPlan, StagedWhole, DistinctDestinations,
         UnpublishedBeforeCommit, LateRemovals, TemporariesAccounted, DestinationsWhole,
         RefusalPublishesNothing
  <2>3. QED
    BY <1>1, <1>2, <2>1, <2>2, EndShape DEF PublicationType
<1>4. /\ \A d \in Calls : Started(d)' <=> Started(d)
      /\ \A d \in Calls : Settled(d) => Settled(d)'
      /\ \A d \in Calls : Listed(d)' = Listed(d) /\ Destinations(d)' = Destinations(d)
      /\ TrackedTraces' = TrackedTraces
  BY <1>1, <1>2, EndShape, SamePlans DEF Started, Settled, TrackedTraces
<1>5. PlansMade'
  BY <1>2, <1>4, SamePlans DEF PublicationInv, PlansMade
<1>6. Ends'
  BY <1>1, <1>2, <1>4, EndShape DEF Ends, Finished, Started
<1>7. Alone' /\ NotYet' /\ Own'
  BY <1>2, <1>4 DEF PublicationInv, Alone, NotYet, Own
<1>8. CommitAccounted' /\ MarkerAccounted' /\ MarkerKept'
  <2>1. \A d : \A p : Accounted(d, p)' <=> Accounted(d, p)
    BY <1>2 DEF Accounted
  <2>2. (Unbroken' <=> Unbroken) /\ \A d \in Calls : Breaking(d)' <=> Breaking(d)
    BY <1>2 DEF Unbroken, Breaking
  <2>3. \A d \in Calls : Intact(d)' <=> Intact(d)
    BY <1>2, <1>4 DEF Intact
  <2>4. MarkerAccounted'
    BY <1>2, <1>4, <2>1, MarkerMeans, MarkerMeansNext, CommandsAssumption DEF PublicationInv
  <2>5. CommitAccounted'
    BY <1>2, <2>1 DEF PublicationInv, CommitAccounted
  <2>6. MarkerKept'
    BY <1>2, <2>2, <2>3, CommandsAssumption DEF PublicationInv, MarkerKept
  <2>7. QED
    BY <2>4, <2>5, <2>6
<1>9. Regular' => Regular
  BY <1>1, <1>2, <1>4, EndShape DEF Regular
<1>10. TracesKept'
  <2>1. SUFFICES ASSUME serial, Regular', NEW t \in Traces, disk[t] \in Calls
                 PROVE  t \in TrackedTraces \/ \E e \in Calls : Working(e)'
    BY <1>2, <1>4 DEF TracesKept
  <2>2. t \in TrackedTraces \/ \E e \in Calls : Working(e)
    BY <1>9, <2>1 DEF PublicationInv, TracesKept
  <2>3. CASE exit'[c] = exit[c]
    <3>1. \A e \in Calls : Working(e) => Working(e)'
      BY <1>1, <1>2, <2>3, EndShape DEF Working
    <3>2. QED
      BY <2>2, <3>1
  <2>4. CASE pc[c] = "ok" /\ exit[c] = "none" /\ exit'[c] = "published" /\ cleaning[c] = {}
    <3>1. t \in Destinations(c)
      BY <1>9, <2>1, <2>4 DEF PublicationInv, TracesExpected
    <3>2. PlanMade(c)
      BY <2>4 DEF PublicationInv, PlansMade, Started
    <3>3. t \in manifest[c]
      BY <3>1, <3>2 DEF PlanMade
    <3>4. disk[TraceManifest] = c
      <4>1. PICK i \in 1..Len(plan[c]) : plan[c][i] = TraceManifest
        BY <3>2 DEF PlanMade, Destinations
      <4>2. i < next[c]
        BY <1>1, <2>4, PlansAssumption DEF Ends, PublicationType, TypeOK
      <4>3. ~Settled(c)
        BY <2>4 DEF Settled
      <4>4. QED
        BY <2>1, <2>4, <4>1, <4>2, <4>3 DEF PublicationInv, Own
    <3>5. QED
      BY <3>3, <3>4 DEF TrackedTraces
  <2>5. CASE \/ pc[c] = "ok" /\ exit[c] = "none" /\ exit'[c] \in {"canceled", "internal"}
             \/ pc[c] = "failed" /\ exit[c] = "none" /\ exit'[c] \in {"canceled", "internal"}
    <3>1. error[c] = "canceled"
      BY <1>2, <2>1, <2>5 DEF Regular, Started
    <3>2. pc[c] = "failed"
      BY <2>5, <3>1 DEF PublicationInv, WriterInv, UnpublishedBeforeCommit
    <3>3. \A e \in Calls : Working(e) => Working(e)'
      BY <1>1, <1>2, <3>1, <3>2, EndShape DEF Working
    <3>4. QED
      BY <2>2, <3>3
  <2>6. QED
    BY <1>1, <2>3, <2>4, <2>5, EndShape
<1>11. TracesExpected'
  BY <1>1, <1>2, <1>4, <1>9, EndShape DEF PublicationInv, TracesExpected
<1>12. TrackedAreWritten'
  <2>1. NoReports' <=> NoReports
    BY <1>4, CommandsAssumption DEF NoReports
  <2>2. QED
    BY <1>1, <1>2, <1>4, <2>1, EndShape DEF PublicationInv, TrackedAreWritten
<1>13. QED
  BY <1>3, <1>5, <1>6, <1>7, <1>8, <1>10, <1>11, <1>12 DEF PublicationInv

-----------------------------------------------------------------------------
(* A rename.                                                                *)

LEMMA RenameShape ==
  ASSUME PublicationInv, NEW c \in Calls, Rename(c),
         UNCHANGED <<serial, manifest, stale, cleaning, exit>>
  PROVE  /\ pc[c] = "commit" /\ next[c] \in 1..Len(plan[c]) /\ Len(plan[c]) \in Nat
         /\ plan[c][next[c]] \in Paths /\ disk'[plan[c][next[c]]] = c
         /\ \A p \in Paths : p # plan[c][next[c]] => disk'[p] = disk[p]
         /\ next'[c] = next[c] + 1 /\ \A d \in Calls \ {c} : next'[d] = next[d]
         /\ UNCHANGED <<pc, plan, removing, aborted, error>>
         /\ \A i, j \in 1..Len(plan[c]) : i # j => plan[c][i] # plan[c][j]
         /\ \A d \in Calls : \A i \in 1..Len(plan[d]) : plan[d][i] \in Paths
         /\ PlanMade(c) /\ Started(c) /\ ~Settled(c) /\ exit[c] = "none"
<1>1. TypeOK /\ WriterInv
  BY DEF PublicationInv, PublicationType
<1>2. /\ pc[c] = "commit" /\ next[c] \in 1..Len(plan[c]) /\ Len(plan[c]) \in Nat
      /\ plan[c][next[c]] \in Paths /\ disk'[plan[c][next[c]]] = c
      /\ \A p \in Paths : p # plan[c][next[c]] => disk'[p] = disk[p]
      /\ next' = [next EXCEPT ![c] = next[c] + 1]
      /\ UNCHANGED <<pc, plan, removing, aborted, error>>
  BY <1>1, RenameFacts
<1>3. next'[c] = next[c] + 1 /\ \A d \in Calls \ {c} : next'[d] = next[d]
  BY <1>1, <1>2 DEF TypeOK
<1>4. \A d \in Calls : \A i \in 1..Len(plan[d]) : plan[d][i] \in Paths
  BY <1>1 DEF TypeOK
<1>5. \A i, j \in 1..Len(plan[c]) : i < j => plan[c][i] # plan[c][j]
  <2>1. \A j \in 1..Len(plan[c]) : \A i \in 1..(j - 1) : plan[c][i] # plan[c][j]
    BY <1>1, <1>2 DEF WriterInv, DistinctDestinations
  <2>2. \A i, j \in 1..Len(plan[c]) : i < j => i \in 1..(j - 1)
    BY <1>2
  <2>3. QED
    BY <2>1, <2>2
<1>6. \A i, j \in 1..Len(plan[c]) : i # j => plan[c][i] # plan[c][j]
  <2>1. \A i, j \in 1..Len(plan[c]) : i # j => i < j \/ j < i
    BY <1>2
  <2>2. QED
    BY <1>5, <2>1
<1>7. Started(c) /\ exit[c] = "none" /\ ~Settled(c)
  BY <1>2 DEF PublicationInv, Ends, Finished, Started, Settled
<1>8. PlanMade(c)
  BY <1>7 DEF PublicationInv, PlansMade
<1>9. QED
  BY <1>2, <1>3, <1>4, <1>6, <1>7, <1>8

LEMMA RenameKeeps ==
  ASSUME PublicationInv, NEW c \in Calls, Rename(c),
         UNCHANGED <<serial, manifest, stale, cleaning, exit>>
  PROVE  PublicationInv'
<1> DEFINE here == next[c]
           to   == plan[c][here]
           last == Len(plan[c])
<1>1. /\ pc[c] = "commit" /\ here \in 1..last /\ last \in Nat
      /\ to \in Paths /\ disk'[to] = c
      /\ \A p \in Paths : p # to => disk'[p] = disk[p]
      /\ next'[c] = here + 1 /\ \A d \in Calls \ {c} : next'[d] = next[d]
      /\ UNCHANGED <<pc, plan, removing, aborted, error>>
  BY RenameShape
<1>2. /\ \A i, j \in 1..last : i # j => plan[c][i] # plan[c][j]
      /\ \A d \in Calls : \A i \in 1..Len(plan[d]) : plan[d][i] \in Paths
      /\ PlanMade(c) /\ Started(c) /\ ~Settled(c) /\ exit[c] = "none"
  BY RenameShape
<1>3. \A i \in 1..last : i < here + 1 => i < here \/ i = here
  BY <1>1
<1>4. \A i \in 1..last : here + 1 <= i => here <= i /\ i # here
  BY <1>1
<1> HIDE DEF here, last
<1>5. PublicationType' /\ WriterInv'
  <2>1. TypeOK' /\ WriterInv'
    BY StepKeeps DEF PublicationInv, PublicationType, Step, Commit
  <2>2. QED
    BY <2>1 DEF PublicationInv, PublicationType
<1>6. /\ \A d \in Calls : (Started(d)' <=> Started(d)) /\ (Settled(d)' <=> Settled(d))
      /\ \A d \in Calls : Listed(d)' = Listed(d) /\ Destinations(d)' = Destinations(d)
      /\ \A d \in Calls : PlanMade(d) => PlanMade(d)'
  BY <1>1, SamePlans DEF Started, Settled
<1>7. PlansMade' /\ Alone'
  BY <1>6 DEF PublicationInv, PlansMade, Alone
<1>8. Ends'
  <2>1. pc[c] # "ok"
    BY <1>1
  <2>2. QED
    BY <1>1, <2>1 DEF PublicationInv, Ends, Started, Finished
<1>9. NotYet'
  <2>1. SUFFICES ASSUME NEW d \in Calls, pc[d] = "commit",
                        NEW i \in 1..Len(plan[d]), next'[d] <= i
                 PROVE  disk'[plan[d][i]] # d
    BY <1>1 DEF NotYet
  <2>2. CASE d = c
    <3>1. here <= i /\ i # here
      BY <1>1, <1>4, <2>1, <2>2 DEF last
    <3>2. plan[c][i] # to /\ plan[c][i] \in Paths
      BY <1>1, <1>2, <2>1, <2>2, <3>1 DEF last
    <3>3. QED
      BY <1>1, <2>1, <2>2, <3>1, <3>2 DEF PublicationInv, NotYet, here
  <2>3. CASE d # c
    <3>1. next[d] <= i /\ plan[d][i] \in Paths
      BY <1>1, <1>2, <2>1, <2>3
    <3>2. QED
      BY <1>1, <2>1, <2>3, <3>1 DEF PublicationInv, NotYet
  <2>4. QED
    BY <2>2, <2>3
(* With commands one after the other.                                       *)
<1>10. serial => \A i \in 1..last : i < here => disk[plan[c][i]] = c /\ disk'[plan[c][i]] = c
  <2>1. serial => \A i \in 1..last : i < here => disk[plan[c][i]] = c
    BY <1>1, <1>2 DEF PublicationInv, Own, here, last
  <2>2. QED
    BY <1>1, <1>2, <2>1 DEF last
<1>11. serial => \A d \in Calls : d # c /\ Started(d) => Settled(d)
  BY <1>2 DEF PublicationInv, Alone
<1>12. Own'
  <2>1. SUFFICES ASSUME serial, NEW d \in Calls, pc[d] \in {"commit", "ok"}, ~Settled(d),
                        NEW i \in 1..Len(plan[d]), i < next'[d]
                 PROVE  disk'[plan[d][i]] = d
    BY <1>1, <1>6 DEF Own
  <2>2. d = c
    BY <1>11, <2>1 DEF Started
  <2>3. i \in 1..last /\ (i < here \/ i = here)
    BY <1>1, <1>3, <2>1, <2>2 DEF last
  <2>4. QED
    BY <1>1, <1>10, <2>1, <2>2, <2>3
<1>13. \A d \in Calls : \A p \in Paths : Accounted(d, p) => Accounted(d, p)'
  <2>1. \A p \in Paths : disk'[p] = disk[p] \/ disk'[p] \in Calls
    BY <1>1
  <2>2. \A d \in Calls : pc[d] = "ok" => pc'[d] = "ok" /\ stale'[d] = stale[d]
    BY <1>1
  <2>3. QED
    BY <2>1, <2>2, AccountedKept
<1>14. CommitAccounted'
  <2>1. SUFFICES ASSUME NEW d \in Calls, pc[d] = "commit",
                        NEW i \in 1..Len(plan[d]), i < next'[d]
                 PROVE  Accounted(d, plan[d][i])'
    BY <1>1 DEF CommitAccounted
  <2>2. CASE d = c /\ i = here
    BY <1>1, <2>2 DEF Accounted
  <2>3. CASE ~(d = c /\ i = here)
    <3>1. i < next[d]
      BY <1>1, <1>3, <2>1, <2>3 DEF here, last
    <3>2. Accounted(d, plan[d][i]) /\ plan[d][i] \in Paths
      BY <1>2, <2>1, <3>1 DEF PublicationInv, CommitAccounted
    <3>3. QED
      BY <1>1, <1>13, <3>2 DEF Accounted
  <2>4. QED
    BY <2>2, <2>3
<1>15. Bundle \in Paths /\ Catalogue \in Paths /\ TraceManifest \in Paths /\ Traces \subseteq Paths
  BY CommandsAssumption
<1>16. /\ \A d \in Calls : \A p \in Listed(d) : p \in Paths /\ p # Bundle
       /\ \A p \in Listed(c) : \E i \in 1..last : p = plan[c][i]
  <2>1. \A d \in Calls : DOMAIN plan[d] = 1..Len(plan[d])
    BY DEF PublicationInv, PublicationType, TypeOK
  <2>2. QED
    BY <1>2, <2>1 DEF Listed, last
(* When the last file of a scan has been renamed.                           *)
<1>17. to = Bundle => c \in Scans /\ here = last /\ plan[c][last] = Bundle
  <2>1. SUFFICES ASSUME to = Bundle PROVE c \in Scans /\ here = last /\ plan[c][last] = Bundle
    OBVIOUS
  <2>2. Bundle \in Destinations(c)
    BY <1>1, <2>1 DEF Destinations, last
  <2>3. c \in Scans
    BY <1>2, <2>2, CommandsAssumption DEF PlanMade
  <2>4. plan[c][last] = Bundle
    BY <1>2, <2>3 DEF PlanMade, last
  <2>5. last \in 1..last
    BY <1>1
  <2>6. QED
    BY <1>1, <1>2, <2>1, <2>3, <2>4, <2>5
<1>18. to = Bundle => \A p \in Listed(c) : \E i \in 1..last : p = plan[c][i] /\ i < here
  <2>1. \A i \in 1..last : i # last => i < last
    BY <1>1
  <2>2. QED
    BY <1>16, <1>17, <2>1
<1>19. MarkerAccounted'
  <2>1. SUFFICES ASSUME NEW s \in Scans, disk'[Bundle] = s, NEW p \in Listed(s)
                 PROVE  Accounted(s, p)'
    BY <1>6, MarkerMeansNext, CommandsAssumption
  <2>2. Accounted(s, p)
    <3>1. CASE to = Bundle
      <4>1. s = c
        BY <1>1, <2>1, <3>1
      <4>2. PICK i \in 1..last : p = plan[c][i] /\ i < here
        BY <1>18, <2>1, <3>1, <4>1
      <4>3. QED
        BY <1>1, <4>1, <4>2 DEF PublicationInv, CommitAccounted, here, last
    <3>2. CASE to # Bundle
      BY <1>1, <1>15, <2>1, <3>2, MarkerMeans DEF PublicationInv
    <3>3. QED
      BY <3>1, <3>2
  <2>3. QED
    BY <1>13, <1>16, <2>1, <2>2, CommandsAssumption
<1>20. MarkerKept'
  <2>1. SUFFICES ASSUME serial, NEW s \in Scans, disk'[Bundle] = s
                 PROVE  Intact(s)' \/ disk'[Catalogue] \in Reports \/ \E e \in Calls : Breaking(e)'
    BY <1>1 DEF MarkerKept
  <2>2. CASE here # last
    <3>1. here + 1 \in 2..last
      BY <1>1, <2>2
    <3>2. Breaking(c)'
      BY <1>1, <3>1 DEF Breaking, last
    <3>3. QED
      BY <3>2
  <2>3. CASE here = last /\ c \in Scans
    <3>1. to = Bundle /\ s = c
      BY <1>1, <1>2, <2>1, <2>3 DEF PlanMade, last
    <3>2. Intact(c)'
      BY <1>6, <1>10, <1>18, <2>1, <3>1 DEF Intact
    <3>3. QED
      BY <3>1, <3>2
  <2>4. CASE here = last /\ c \in Reports
    <3>1. 1 \in 1..last /\ 1 < last /\ plan[c][1] = Catalogue
      BY <1>1, <1>2 DEF PlanMade, last
    <3>2. disk'[Catalogue] = c
      BY <1>10, <2>1, <2>4, <3>1
    <3>3. QED
      BY <2>4, <3>2
  <2>5. QED
    BY <2>2, <2>3, <2>4, CommandsAssumption
<1>21. TracesKept'
  <2>1. here + 1 >= 2
    BY <1>1
  <2>2. Working(c)'
    BY <1>1, <1>2, <2>1 DEF Working
  <2>3. QED
    BY <2>2 DEF TracesKept
<1>22. TracesExpected'
  <2>1. SUFFICES ASSUME serial, Regular, NEW d \in Calls, exit[d] = "none",
                        pc[d] \in {"stage", "write", "commit", "ok"},
                        NEW t \in Traces, disk'[t] \in Calls
                 PROVE  t \in Destinations(d) \cup cleaning[d]
    BY <1>1, <1>6 DEF TracesExpected, Regular
  <2>2. d = c
    BY <1>11, <2>1 DEF Started, Settled
  <2>3. CASE t = to
    BY <1>1, <2>2, <2>3 DEF Destinations, last
  <2>4. CASE t # to
    <3>1. disk[t] \in Calls
      BY <1>1, <1>15, <2>1, <2>4
    <3>2. QED
      BY <2>1, <3>1 DEF PublicationInv, TracesExpected
  <2>5. QED
    BY <2>3, <2>4
<1>23. TrackedAreWritten'
  <2>1. SUFFICES ASSUME serial, NoReports
                 PROVE  /\ \A t \in TrackedTraces' : disk'[t] \in Calls
                        /\ \A d \in Calls : \A t \in cleaning[d] : disk'[t] \in Calls
    BY <1>6, CommandsAssumption DEF TrackedAreWritten, NoReports
  <2>2. \A p \in Paths : disk[p] \in Calls => disk'[p] \in Calls
    BY <1>1
  <2>3. /\ \A t \in TrackedTraces : disk[t] \in Calls
        /\ \A d \in Calls : \A t \in cleaning[d] : disk[t] \in Calls
    BY <2>1 DEF PublicationInv, TrackedAreWritten
  <2>4. /\ TrackedTraces \subseteq Traces
        /\ \A d \in Calls : cleaning[d] \subseteq Traces
    BY DEF PublicationInv, PublicationType, TrackedTraces
  <2>5. \A t \in TrackedTraces' : disk'[t] \in Calls
    <3>1. CASE to = TraceManifest
      <4>1. TrackedTraces' = manifest[c]
        BY <1>1, <3>1 DEF TrackedTraces
      <4>2. c \in Scans
        BY <1>2, <2>1, CommandsAssumption DEF NoReports
      <4>3. manifest[c] = Destinations(c) \cap Traces
        BY <1>2, <4>2 DEF PlanMade
      <4>4. ASSUME NEW t \in Destinations(c), t \in Traces PROVE disk'[t] \in Calls
        <5>1. PICK i \in 1..last : plan[c][i] = t
          BY DEF Destinations, last
        <5>2. i < here
          BY <1>1, <1>2, <3>1, <4>4, <5>1 DEF PlanMade, last
        <5>3. QED
          BY <1>10, <2>1, <5>1, <5>2
      <4>5. QED
        BY <4>1, <4>3, <4>4
    <3>2. CASE to # TraceManifest
      <4>1. TrackedTraces' = TrackedTraces
        BY <1>1, <1>15, <3>2 DEF TrackedTraces
      <4>2. QED
        BY <1>15, <2>2, <2>3, <2>4, <4>1
    <3>3. QED
      BY <3>1, <3>2
  <2>6. QED
    BY <1>15, <2>2, <2>3, <2>4, <2>5
<1>24. QED
  BY <1>5, <1>7, <1>8, <1>9, <1>12, <1>14, <1>19, <1>20, <1>21, <1>22, <1>23 DEF PublicationInv

-----------------------------------------------------------------------------
(* The steps that touch a trace and nothing of the writer: the user adds a   *)
(* file, or a stale trace is removed.                                       *)

LEMMA TraceTouched ==
  ASSUME PublicationInv, NEW t \in Traces, NEW new \in {Absent, Foreign},
         disk' = [disk EXCEPT ![t] = new],
         UNCHANGED <<temp, pc, plan, next, removing, aborted, error, serial, manifest, stale, exit>>
  PROVE  /\ TypeOK' /\ WriterInv'
         /\ disk'[t] = new /\ \A p \in Paths : p # t => disk'[p] = disk[p]
         /\ disk'[Bundle] = disk[Bundle] /\ disk'[Catalogue] = disk[Catalogue]
         /\ disk'[TraceManifest] = disk[TraceManifest] /\ TrackedTraces' = TrackedTraces
         /\ \A d \in Calls : \A p \in Paths : disk'[p] = d => disk[p] = d
         /\ new \notin Calls
         /\ \A d \in Calls : Started(d)' <=> Started(d)
         /\ \A d \in Calls : \A i \in 1..Len(plan[d]) : plan[d][i] \in Paths
         /\ \A d \in Calls : Listed(d) = {plan[d][i] : i \in 1..Len(plan[d])} \ {Bundle}
<1>1. /\ Traces \subseteq Paths /\ Bundle \in Paths \ Traces
      /\ Catalogue \in Paths \ Traces /\ TraceManifest \in Paths \ Traces
  BY CommandsAssumption, NamesAssumption
<1>2. TypeOK /\ WriterInv
  BY DEF PublicationInv, PublicationType
<1>3. new \notin Calls /\ new # Torn /\ new \in Contents
  BY ContentsAssumption DEF Contents
<1>4. disk'[t] = new /\ \A p \in Paths : p # t => disk'[p] = disk[p]
  BY <1>1, <1>2 DEF TypeOK
<1>5. \A d \in Calls : \A p \in Paths : disk'[p] = d => disk[p] = d
  BY <1>3, <1>4
<1>6. TypeOK'
  BY <1>1, <1>2, <1>3 DEF TypeOK
<1>7. WriterInv'
  <2>1. (UnpublishedBeforeCommit /\ RefusalPublishesNothing)'
    BY <1>2, <1>5 DEF WriterInv, UnpublishedBeforeCommit, RefusalPublishesNothing
  <2>2. DestinationsWhole'
    BY <1>2, <1>3, <1>4 DEF WriterInv, DestinationsWhole
  <2>3. (LoopWithinPlan /\ StagedWhole /\ DistinctDestinations /\ LateRemovals
         /\ TemporariesAccounted)'
    BY <1>2
       DEF WriterInv, LoopWithinPlan, StagedWhole, DistinctDestinations, LateRemovals,
         TemporariesAccounted
  <2>4. QED
    BY <2>1, <2>2, <2>3 DEF WriterInv
<1>8. /\ disk'[Bundle] = disk[Bundle] /\ disk'[Catalogue] = disk[Catalogue]
      /\ disk'[TraceManifest] = disk[TraceManifest]
  BY <1>1, <1>4
<1>9. TrackedTraces' = TrackedTraces
  BY <1>8 DEF TrackedTraces
<1>10. \A d \in Calls : \A i \in 1..Len(plan[d]) : plan[d][i] \in Paths
  BY <1>2 DEF TypeOK
<1>11. \A d \in Calls : Listed(d) = {plan[d][i] : i \in 1..Len(plan[d])} \ {Bundle}
  BY <1>2 DEF TypeOK, Listed
<1>12. \A d \in Calls : Started(d)' <=> Started(d)
  BY DEF Started
<1>13. QED
  BY <1>3, <1>4, <1>5, <1>6, <1>7, <1>8, <1>9, <1>10, <1>11, <1>12

LEMMA UserAddsFileKeeps ==
  ASSUME PublicationInv, NEW t \in Traces, UserAddsFile(t)
  PROVE  PublicationInv'
<1>1. /\ disk[t] = Absent /\ disk' = [disk EXCEPT ![t] = Foreign]
      /\ UNCHANGED <<temp, pc, plan, next, removing, aborted, error, serial, manifest, stale,
                     cleaning, exit>>
  BY DEF UserAddsFile
<1>2. /\ TypeOK' /\ WriterInv'
      /\ disk'[t] = Foreign /\ \A p \in Paths : p # t => disk'[p] = disk[p]
      /\ disk'[Bundle] = disk[Bundle] /\ disk'[Catalogue] = disk[Catalogue]
      /\ disk'[TraceManifest] = disk[TraceManifest] /\ TrackedTraces' = TrackedTraces
      /\ \A d \in Calls : \A p \in Paths : disk'[p] = d => disk[p] = d
      /\ \A d \in Calls : Started(d)' <=> Started(d)
      /\ \A d \in Calls : \A i \in 1..Len(plan[d]) : plan[d][i] \in Paths
      /\ \A d \in Calls : Listed(d) = {plan[d][i] : i \in 1..Len(plan[d])} \ {Bundle}
  BY <1>1, TraceTouched
<1>3. \A d \in Calls : \A p \in Paths : disk[p] = d => disk'[p] = d
  BY <1>1, <1>2, ContentsAssumption
<1>4. Traces \subseteq Paths
  BY CommandsAssumption
<1>5. /\ \A d \in Calls : Settled(d)' <=> Settled(d)
      /\ \A d \in Calls : Listed(d)' = Listed(d) /\ Destinations(d)' = Destinations(d)
      /\ \A d \in Calls : PlanMade(d) => PlanMade(d)'
  BY <1>1, SamePlans DEF Settled
<1>6. PublicationType'
  BY <1>1, <1>2 DEF PublicationInv, PublicationType
<1>7. PlansMade' /\ Alone'
  BY <1>2, <1>5, <1>1 DEF PublicationInv, PlansMade, Alone
<1>8. Ends'
  BY <1>1, <1>2 DEF PublicationInv, Ends
<1>9. NotYet' /\ Own'
  <2>1. NotYet'
    BY <1>1, <1>2 DEF PublicationInv, NotYet
  <2>2. Own'
    BY <1>1, <1>2, <1>3, <1>5 DEF PublicationInv, Own
  <2>3. QED
    BY <2>1, <2>2
<1>10. \A d \in Calls : \A p \in Paths : Accounted(d, p) => Accounted(d, p)'
  <2>1. \A p \in Paths : disk'[p] = disk[p] \/ (disk[p] = Absent /\ disk'[p] = Foreign)
    BY <1>1, <1>2
  <2>2. \A d \in Calls : pc[d] = "ok" => pc'[d] = "ok" /\ stale'[d] = stale[d]
    BY <1>1
  <2>3. QED
    BY <2>1, <2>2, AccountedKept
<1>11. CommitAccounted'
  <2>1. SUFFICES ASSUME NEW d \in Calls, pc[d] = "commit", NEW i \in 1..Len(plan[d]), i < next[d]
                 PROVE  Accounted(d, plan[d][i])'
    BY <1>1 DEF CommitAccounted
  <2>2. Accounted(d, plan[d][i])
    BY <2>1 DEF PublicationInv, CommitAccounted
  <2>3. QED
    BY <1>1, <1>2, <1>10, <2>1, <2>2 DEF Accounted
<1>12. MarkerAccounted'
  BY <1>2, <1>5, <1>10, MarkerMeans, MarkerMeansNext, CommandsAssumption DEF PublicationInv
<1>13. MarkerKept'
  <2>1. \A s \in Calls : Intact(s) => Intact(s)'
    BY <1>2, <1>3, <1>5 DEF Intact
  <2>2. (Unbroken' <=> Unbroken) /\ \A e \in Calls : Breaking(e)' <=> Breaking(e)
    BY <1>1 DEF Unbroken, Breaking
  <2>3. QED
    BY <1>1, <1>2, <2>1, <2>2, CommandsAssumption DEF PublicationInv, MarkerKept
<1>14. /\ Regular' <=> Regular
       /\ \A e \in Calls : Working(e)' <=> Working(e)
  BY <1>1, <1>2 DEF Regular, Working
<1>15. \A u \in Traces : disk'[u] \in Calls <=> disk[u] \in Calls
  BY <1>2, <1>3, <1>4
<1>16. TracesKept' /\ TracesExpected'
  BY <1>1, <1>2, <1>5, <1>14, <1>15 DEF PublicationInv, TracesKept, TracesExpected
<1>17. TrackedAreWritten'
  <2>1. NoReports' <=> NoReports
    BY <1>2, CommandsAssumption DEF NoReports
  <2>2. TrackedTraces \subseteq Traces /\ \A d \in Calls : cleaning[d] \subseteq Traces
    BY DEF PublicationInv, PublicationType, TrackedTraces
  <2>3. QED
    BY <1>1, <1>2, <1>15, <2>1, <2>2 DEF PublicationInv, TrackedAreWritten
<1>18. QED
  BY <1>2, <1>6, <1>7, <1>8, <1>9, <1>11, <1>12, <1>13, <1>16, <1>17 DEF PublicationInv

(* When a stale trace is removed, the command that removes it finds all the  *)
(* files of its plan as it left them, if it is alone.                       *)
LEMMA RemoveStaleShape ==
  ASSUME PublicationInv, NEW c \in Calls, NEW t \in cleaning[c], pc[c] = "ok"
  PROVE  /\ t \in Traces /\ t \in stale[c] /\ t \notin Destinations(c)
         /\ PlanMade(c) /\ Started(c) /\ ~Settled(c)
         /\ serial => /\ \A i \in 1..Len(plan[c]) : disk[plan[c][i]] = c
                      /\ \A d \in Calls : d # c /\ Started(d) => Settled(d)
<1>1. Started(c) /\ ~Settled(c)
  BY DEF Started, Settled
<1>2. PlanMade(c) /\ t \in stale[c] /\ t \in Traces
  BY <1>1 DEF PublicationInv, PublicationType, PlansMade, Ends
<1>3. t \notin Destinations(c)
  BY <1>2 DEF PlanMade
<1>4. \A i \in 1..Len(plan[c]) : i < next[c]
  <2>1. next[c] > Len(plan[c]) /\ next[c] \in Nat /\ Len(plan[c]) \in Nat
    BY PlansAssumption DEF PublicationInv, PublicationType, TypeOK, Ends
  <2>2. QED
    BY <2>1
<1>5. serial => \A i \in 1..Len(plan[c]) : disk[plan[c][i]] = c
  BY <1>1, <1>4 DEF PublicationInv, Own
<1>6. serial => \A d \in Calls : d # c /\ Started(d) => Settled(d)
  BY <1>1 DEF PublicationInv, Alone
<1>7. QED
  BY <1>1, <1>2, <1>3, <1>5, <1>6

LEMMA RemoveStaleKeeps ==
  ASSUME PublicationInv, NEW c \in Calls, RemoveStale(c)
  PROVE  PublicationInv'
<1>1. PICK t \in cleaning[c] :
        /\ disk'     = [disk EXCEPT ![t] = Absent]
        /\ cleaning' = [cleaning EXCEPT ![c] = @ \ {t}]
  BY DEF RemoveStale
<1>2. /\ pc[c] = "ok"
      /\ UNCHANGED <<temp, pc, plan, next, removing, aborted, error, serial, manifest, stale, exit>>
  BY DEF RemoveStale
<1>3. /\ t \in Traces /\ t \in stale[c] /\ t \notin Destinations(c)
      /\ PlanMade(c) /\ Started(c) /\ ~Settled(c)
  BY <1>2, RemoveStaleShape
<1>4. serial => /\ \A i \in 1..Len(plan[c]) : disk[plan[c][i]] = c
                /\ \A d \in Calls : d # c /\ Started(d) => Settled(d)
  BY <1>2, RemoveStaleShape
<1>5. /\ TypeOK' /\ WriterInv'
      /\ disk'[t] = Absent /\ \A p \in Paths : p # t => disk'[p] = disk[p]
      /\ disk'[Bundle] = disk[Bundle] /\ disk'[Catalogue] = disk[Catalogue]
      /\ disk'[TraceManifest] = disk[TraceManifest] /\ TrackedTraces' = TrackedTraces
      /\ \A d \in Calls : \A p \in Paths : disk'[p] = d => disk[p] = d
      /\ Absent \notin Calls
      /\ \A d \in Calls : Started(d)' <=> Started(d)
      /\ \A d \in Calls : \A i \in 1..Len(plan[d]) : plan[d][i] \in Paths
      /\ \A d \in Calls : Listed(d) = {plan[d][i] : i \in 1..Len(plan[d])} \ {Bundle}
  BY <1>1, <1>2, <1>3, TraceTouched
<1>6. /\ Traces \subseteq Paths
      /\ cleaning'[c] = cleaning[c] \ {t}
      /\ \A d \in Calls \ {c} : cleaning'[d] = cleaning[d]
      /\ \A d \in Calls : cleaning'[d] \subseteq cleaning[d] /\ cleaning[d] \subseteq Traces
  <2>1. cleaning \in [Calls -> SUBSET Traces]
    BY DEF PublicationInv, PublicationType
  <2>2. QED
    BY <1>1, <2>1, CommandsAssumption
<1>7. /\ \A d \in Calls : Settled(d) => Settled(d)'
      /\ \A d \in Calls : Listed(d)' = Listed(d) /\ Destinations(d)' = Destinations(d)
      /\ \A d \in Calls : PlanMade(d) => PlanMade(d)'
  BY <1>2, <1>6, SamePlans DEF Settled
<1>8. PublicationType'
  BY <1>1, <1>2, <1>5 DEF PublicationInv, PublicationType
<1>9. PlansMade' /\ Alone'
  BY <1>2, <1>5, <1>7 DEF PublicationInv, PlansMade, Alone
<1>10. Ends'
  BY <1>2, <1>5, <1>6 DEF PublicationInv, Ends
<1>11. NotYet'
  BY <1>2, <1>5 DEF PublicationInv, NotYet
<1>12. serial => \A i \in 1..Len(plan[c]) : disk'[plan[c][i]] = c
  BY <1>3, <1>4, <1>5 DEF Destinations
<1>13. Own'
  <2>1. SUFFICES ASSUME serial, NEW d \in Calls, pc[d] \in {"commit", "ok"}, ~Settled(d)',
                        NEW i \in 1..Len(plan[d])
                 PROVE  disk'[plan[d][i]] = d
    BY <1>2 DEF Own
  <2>2. d = c
    BY <1>4, <1>7, <2>1 DEF Started
  <2>3. QED
    BY <1>12, <2>1, <2>2
<1>14. \A d \in Calls : \A p \in Paths : Accounted(d, p) /\ (d = c => p # t) => Accounted(d, p)'
  <2>1. SUFFICES ASSUME NEW d \in Calls, NEW p \in Paths, Accounted(d, p), d = c => p # t
                 PROVE  Accounted(d, p)'
    OBVIOUS
  <2>2. \A e \in Calls : pc[e] = "ok" => pc'[e] = "ok" /\ stale'[e] = stale[e]
    BY <1>2
  <2>3. CASE p # t
    BY <1>5, <2>1, <2>2, <2>3, AccountedKept
  <2>4. CASE p = t
    BY <1>2, <1>3, <1>5, <2>1, <2>2, <2>4, AccountedKept
  <2>5. QED
    BY <2>3, <2>4
<1>15. CommitAccounted'
  <2>1. SUFFICES ASSUME NEW d \in Calls, pc[d] = "commit", NEW i \in 1..Len(plan[d]), i < next[d]
                 PROVE  Accounted(d, plan[d][i])'
    BY <1>2 DEF CommitAccounted
  <2>2. Accounted(d, plan[d][i]) /\ d # c
    BY <1>2, <2>1 DEF PublicationInv, CommitAccounted
  <2>3. QED
    BY <1>2, <1>5, <1>14, <2>1, <2>2 DEF Accounted
<1>16. MarkerAccounted'
  <2>1. SUFFICES ASSUME NEW s \in Scans, disk'[Bundle] = s, NEW p \in Listed(s)
                 PROVE  Accounted(s, p)'
    BY <1>7, MarkerMeansNext, CommandsAssumption
  <2>2. Accounted(s, p)
    BY <1>5, <2>1, MarkerMeans DEF PublicationInv
  <2>3. p \in Paths /\ (s = c => p # t)
    BY <1>3, <1>5, <2>1, CommandsAssumption DEF Destinations
  <2>4. QED
    BY <1>14, <2>1, <2>2, <2>3, CommandsAssumption
<1>17. MarkerKept'
  <2>1. SUFFICES ASSUME serial, NEW s \in Scans, disk'[Bundle] = s
                 PROVE  Intact(s)' \/ disk'[Catalogue] \in Reports
    BY <1>2 DEF MarkerKept
  <2>2. Len(plan[c]) \in 1..Len(plan[c]) /\ 1 \in 1..Len(plan[c])
    BY <1>3 DEF PlanMade, PublicationInv, PublicationType, TypeOK
  <2>3. CASE c \in Scans
    <3>1. s = c
      BY <1>3, <1>12, <2>1, <2>2, <2>3 DEF PlanMade
    <3>2. Intact(c)'
      BY <1>5, <1>7, <1>12, <2>1 DEF Intact
    <3>3. QED
      BY <3>1, <3>2
  <2>4. CASE c \in Reports
    BY <1>3, <1>12, <2>1, <2>2, <2>4 DEF PlanMade
  <2>5. QED
    BY <2>3, <2>4, CommandsAssumption
<1>18. /\ Regular' <=> Regular
       /\ \A e \in Calls : Working(e)' <=> Working(e)
  BY <1>2, <1>5 DEF Regular, Working
<1>19. \A u \in Traces : disk'[u] \in Calls => disk[u] \in Calls /\ u # t
  BY <1>5, <1>6
<1>20. TracesKept'
  BY <1>2, <1>5, <1>18, <1>19 DEF PublicationInv, TracesKept
<1>21. TracesExpected'
  <2>1. SUFFICES ASSUME serial, Regular, NEW d \in Calls, exit[d] = "none",
                        pc[d] \in {"stage", "write", "commit", "ok"},
                        NEW u \in Traces, disk'[u] \in Calls
                 PROVE  u \in Destinations(d) \cup cleaning'[d]
    BY <1>2, <1>7, <1>18 DEF TracesExpected
  <2>2. d = c
    BY <1>4, <2>1 DEF Started, Settled
  <2>3. u \in Destinations(d) \cup cleaning[d] /\ u # t
    BY <1>19, <2>1 DEF PublicationInv, TracesExpected
  <2>4. QED
    BY <1>6, <2>2, <2>3
<1>22. TrackedAreWritten'
  <2>1. SUFFICES ASSUME serial, NoReports
                 PROVE  /\ \A u \in TrackedTraces : disk'[u] \in Calls
                        /\ \A d \in Calls : \A u \in cleaning'[d] : disk'[u] \in Calls
    BY <1>2, <1>5, CommandsAssumption DEF TrackedAreWritten, NoReports
  <2>2. /\ \A u \in TrackedTraces : disk[u] \in Calls
        /\ \A d \in Calls : \A u \in cleaning[d] : disk[u] \in Calls
    BY <2>1 DEF PublicationInv, TrackedAreWritten
  <2>3. c \in Scans
    BY <1>3, <2>1, CommandsAssumption DEF NoReports
  <2>4. t \notin TrackedTraces
    <3>1. disk[TraceManifest] = c
      BY <1>3, <1>4, <2>1 DEF PlanMade, Destinations
    <3>2. QED
      BY <1>3, <2>3, <3>1 DEF TrackedTraces, PlanMade
  <2>5. \A d \in Calls : t \notin cleaning'[d]
    <3>1. \A d \in Calls : d # c => cleaning[d] = {}
      BY <1>4, <2>1 DEF PublicationInv, Ends, Settled
    <3>2. QED
      BY <1>6, <3>1
  <2>6. TrackedTraces \subseteq Paths
    BY <1>6 DEF PublicationInv, PublicationType, TrackedTraces
  <2>7. \A d \in Calls : cleaning'[d] \subseteq Paths
    BY <1>6
  <2>8. \A u \in TrackedTraces : disk'[u] \in Calls
    BY <1>5, <2>2, <2>4, <2>6
  <2>9. \A d \in Calls : \A u \in cleaning'[d] : disk'[u] \in Calls
    BY <1>5, <1>6, <2>2, <2>5, <2>7
  <2>10. QED
    BY <2>8, <2>9
<1>23. QED
  BY <1>5, <1>8, <1>9, <1>10, <1>11, <1>13, <1>15, <1>16, <1>17, <1>20, <1>21, <1>22
     DEF PublicationInv

-----------------------------------------------------------------------------
(* A process is killed.                                                     *)

LEMMA KillShape ==
  ASSUME PublicationInv, NEW c \in Calls, Kill(c)
  PROVE  /\ UNCHANGED <<disk, plan, next, aborted, error, serial, manifest, stale>>
         /\ pc' = [pc EXCEPT ![c] = pc'[c]] /\ pc'[c] \in {"ok", "crashed"}
         /\ \A d \in Calls \ {c} : /\ pc'[d] = pc[d] /\ temp'[d] = temp[d]
                                   /\ removing'[d] = removing[d]
                                   /\ cleaning'[d] = cleaning[d] /\ exit'[d] = exit[d]
         /\ \A i \in 1..MaxFiles : temp'[c][i] = "none"
         /\ removing'[c] = {} /\ cleaning'[c] = {} /\ exit'[c] = "killed"
         /\ exit[c] = "none" /\ Started(c) /\ Settled(c)'
         /\ pc[c] = "ok" => pc'[c] = "ok"
         /\ pc'[c] = "ok" => pc[c] \in {"commit", "ok"} /\ next[c] > Len(plan[c])
         /\ pc[c] = "commit" /\ pc'[c] = "crashed" => next[c] <= Len(plan[c])
         /\ TypeOK' /\ exit' \in [Calls -> Exits] /\ cleaning' \in [Calls -> SUBSET Traces]
<1>1. /\ TypeOK /\ PublicationType /\ MaxFiles \in Nat
      /\ \A d \in Calls : next[d] \in Nat /\ Len(plan[d]) \in Nat
  BY PlansAssumption DEF PublicationInv, PublicationType, TypeOK
<1> DEFINE q == IF AllRenamed(c) \/ pc[c] = "ok" THEN "ok" ELSE "crashed"
<1>2. /\ UNCHANGED <<disk, plan, next, aborted, error, serial, manifest, stale>>
      /\ pc' = [pc EXCEPT ![c] = q]
      /\ temp'     = [temp EXCEPT ![c] = [i \in 1..MaxFiles |-> "none"]]
      /\ removing' = [removing EXCEPT ![c] = {}]
      /\ cleaning' = [cleaning EXCEPT ![c] = {}]
      /\ exit'     = [exit EXCEPT ![c] = "killed"]
      /\ Started(c) /\ exit[c] = "none"
  BY DEF Kill
<1>3. q \in {"ok", "crashed"} /\ (pc[c] = "ok" => q = "ok")
  OBVIOUS
<1>4. q = "ok" => pc[c] \in {"commit", "ok"} /\ next[c] > Len(plan[c])
  BY DEF AllRenamed, PublicationInv, Ends
<1>5. pc[c] = "commit" /\ q = "crashed" => next[c] <= Len(plan[c])
  BY <1>1 DEF AllRenamed
<1> HIDE DEF q
<1>6. pc'[c] = q /\ \A d \in Calls \ {c} : pc'[d] = pc[d]
  BY <1>1, <1>2 DEF TypeOK
<1>7. /\ \A d \in Calls \ {c} : temp'[d] = temp[d] /\ removing'[d] = removing[d]
      /\ temp'[c] = [i \in 1..MaxFiles |-> "none"] /\ removing'[c] = {}
  BY <1>1, <1>2 DEF TypeOK
<1>8. /\ \A d \in Calls \ {c} : cleaning'[d] = cleaning[d] /\ exit'[d] = exit[d]
      /\ cleaning'[c] = {} /\ exit'[c] = "killed"
      /\ exit' \in [Calls -> Exits] /\ cleaning' \in [Calls -> SUBSET Traces]
  BY <1>1, <1>2 DEF PublicationType, Exits
<1>9. Settled(c)'
  BY <1>7, <1>8 DEF Settled
<1>10. TypeOK'
  <2>1. pc' \in [Calls -> {"idle"} \cup Running \cup Finished]
    BY <1>1, <1>2, <1>3 DEF TypeOK, Finished
  <2>2. temp' \in [Calls -> [1..MaxFiles -> TempStates]]
    BY <1>1, <1>2 DEF TypeOK, TempStates
  <2>3. removing' \in [Calls -> SUBSET (1..MaxFiles)]
    BY <1>1, <1>2 DEF TypeOK
  <2>4. QED
    BY <1>1, <1>2, <2>1, <2>2, <2>3 DEF TypeOK
<1>11. QED
  BY <1>2, <1>3, <1>4, <1>5, <1>6, <1>7, <1>8, <1>9, <1>10

LEMMA KillKeeps ==
  ASSUME PublicationInv, NEW c \in Calls, Kill(c)
  PROVE  PublicationInv'
<1>1. /\ UNCHANGED <<disk, plan, next, aborted, error, serial, manifest, stale>>
      /\ pc'[c] \in {"ok", "crashed"}
      /\ \A d \in Calls \ {c} : /\ pc'[d] = pc[d] /\ temp'[d] = temp[d]
                                /\ removing'[d] = removing[d]
                                /\ cleaning'[d] = cleaning[d] /\ exit'[d] = exit[d]
      /\ \A i \in 1..MaxFiles : temp'[c][i] = "none"
      /\ removing'[c] = {} /\ cleaning'[c] = {} /\ exit'[c] = "killed"
      /\ exit[c] = "none" /\ Started(c) /\ Settled(c)'
      /\ pc[c] = "ok" => pc'[c] = "ok"
      /\ pc'[c] = "ok" => pc[c] \in {"commit", "ok"} /\ next[c] > Len(plan[c])
      /\ pc[c] = "commit" /\ pc'[c] = "crashed" => next[c] <= Len(plan[c])
  BY KillShape
<1>2. PublicationType'
  BY KillShape DEF PublicationInv, PublicationType
<1>3. WriterInv'
  <2>1. (LoopWithinPlan /\ StagedWhole /\ DistinctDestinations /\ LateRemovals)'
    BY <1>1
       DEF PublicationInv, WriterInv, LoopWithinPlan, StagedWhole, DistinctDestinations, LateRemovals
  <2>2. UnpublishedBeforeCommit'
    <3>1. \A d \in Calls : pc'[d] \in {"idle", "stage", "write"} => pc[d] = pc'[d]
      BY <1>1
    <3>2. \A d \in Calls : error[d] # "none" => pc'[d] \in {"rollback", "failed", "crashed"}
      BY <1>1 DEF PublicationInv, WriterInv, UnpublishedBeforeCommit
    <3>3. QED
      BY <1>1, <3>1, <3>2 DEF PublicationInv, WriterInv, UnpublishedBeforeCommit
  <2>3. (TemporariesAccounted /\ DestinationsWhole /\ RefusalPublishesNothing)'
    BY <1>1
       DEF PublicationInv, WriterInv, TemporariesAccounted, DestinationsWhole, RefusalPublishesNothing
  <2>4. QED
    BY <2>1, <2>2, <2>3 DEF WriterInv
<1>4. /\ \A d \in Calls : Started(d)' <=> Started(d)
      /\ \A d \in Calls : Settled(d) => Settled(d)'
      /\ \A d \in Calls : Listed(d)' = Listed(d) /\ Destinations(d)' = Destinations(d)
      /\ \A d \in Calls : PlanMade(d) => PlanMade(d)'
  BY <1>1, SamePlans DEF Started, Settled
<1>5. PlansMade' /\ Alone'
  BY <1>1, <1>4 DEF PublicationInv, PlansMade, Alone
<1>6. Ends'
  BY <1>1, <1>4 DEF PublicationInv, Ends, Finished
<1>7. NotYet' /\ Own'
  <2>1. NotYet'
    BY <1>1 DEF PublicationInv, NotYet
  <2>2. Own'
    BY <1>1, <1>4 DEF PublicationInv, Own
  <2>3. QED
    BY <2>1, <2>2
<1>8. \A d \in Calls : \A p : Accounted(d, p) => Accounted(d, p)'
  <2>1. \A d \in Calls : pc[d] = "ok" => pc'[d] = "ok" /\ stale'[d] = stale[d]
    BY <1>1
  <2>2. QED
    BY <1>1, <2>1, AccountedKept
<1>9. CommitAccounted' /\ MarkerAccounted'
  <2>1. CommitAccounted'
    BY <1>1, <1>8 DEF PublicationInv, CommitAccounted
  <2>2. MarkerAccounted'
    BY <1>1, <1>4, <1>8, MarkerMeans, MarkerMeansNext, CommandsAssumption DEF PublicationInv
  <2>3. QED
    BY <2>1, <2>2
<1>10. pc[c] \in {"idle", "stage", "write", "commit", "ok"} => error[c] = "none"
  BY DEF PublicationInv, WriterInv, UnpublishedBeforeCommit
<1>11. MarkerKept'
  <2>1. SUFFICES ASSUME serial, Unbroken', NEW s \in Scans, disk[Bundle] = s
                 PROVE  Intact(s)' \/ disk[Catalogue] \in Reports \/ \E e \in Calls : Breaking(e)'
    BY <1>1 DEF MarkerKept
  <2>2. pc'[c] = "crashed" => error[c] = "canceled"
    BY <1>1, <2>1 DEF Unbroken
  <2>3. Unbroken
    BY <1>1, <2>1, <2>2 DEF Unbroken
  <2>4. ~Breaking(c)
    <3>1. pc[c] = "commit" => next[c] > Len(plan[c])
      BY <1>1, <1>10, <2>2
    <3>2. next[c] \in Nat /\ Len(plan[c]) \in Nat
      BY PlansAssumption DEF PublicationInv, PublicationType, TypeOK
    <3>3. QED
      BY <1>1, <2>2, <3>1, <3>2 DEF Breaking
  <2>5. \A e \in Calls : Breaking(e) => Breaking(e)'
    BY <1>1, <2>4 DEF Breaking
  <2>6. \A d \in Calls : Intact(d) => Intact(d)'
    BY <1>1, <1>4 DEF Intact
  <2>7. QED
    BY <2>1, <2>3, <2>5, <2>6, CommandsAssumption DEF PublicationInv, MarkerKept
<1>12. Regular' => Regular /\ error[c] = "canceled"
  BY <1>1, <1>4 DEF Regular
<1>13. TrackedTraces' = TrackedTraces
  BY <1>1 DEF TrackedTraces
<1>14. TracesKept'
  <2>1. Regular' => ~Working(c)
    BY <1>10, <1>12 DEF Working
  <2>2. Regular' => \A e \in Calls : Working(e) => Working(e)'
    BY <1>1, <2>1 DEF Working
  <2>3. QED
    BY <1>1, <1>12, <1>13, <2>2 DEF PublicationInv, TracesKept
<1>15. TracesExpected'
  <2>1. SUFFICES ASSUME serial, Regular', NEW d \in Calls, exit'[d] = "none",
                        pc'[d] \in {"stage", "write", "commit", "ok"},
                        NEW t \in Traces, disk[t] \in Calls
                 PROVE  t \in Destinations(d)' \cup cleaning'[d]
    BY <1>1 DEF TracesExpected
  <2>2. d # c
    BY <1>1, <2>1
  <2>3. t \in Destinations(d) \cup cleaning[d]
    BY <1>1, <1>12, <2>1, <2>2 DEF PublicationInv, TracesExpected
  <2>4. QED
    BY <1>1, <1>4, <2>2, <2>3
<1>16. TrackedAreWritten'
  <2>1. NoReports' <=> NoReports
    BY <1>4, CommandsAssumption DEF NoReports
  <2>2. QED
    BY <1>1, <1>13, <2>1 DEF PublicationInv, TrackedAreWritten
<1>17. QED
  BY <1>2, <1>3, <1>5, <1>6, <1>7, <1>9, <1>11, <1>14, <1>15, <1>16 DEF PublicationInv

-----------------------------------------------------------------------------
(* A command begins.                                                        *)

LEMMA PrepareShape ==
  ASSUME PublicationInv, NEW c \in Calls, NEW selected \in SUBSET Traces, Prepare(c, selected)
  PROVE  /\ TypeOK' /\ WriterInv'
         /\ UNCHANGED <<disk, temp, next, removing, aborted, error, serial, exit>>
         /\ exit[c] = "none" /\ pc[c] = "idle" /\ pc'[c] = "stage"
         /\ \A d \in Calls \ {c} : /\ pc'[d] = pc[d] /\ plan'[d] = plan[d]
                                   /\ stale'[d] = stale[d] /\ cleaning'[d] = cleaning[d]
                                   /\ manifest'[d] = manifest[d]
         /\ plan'[c] = ArtifactsOf(c, selected) /\ plan'[c] \in Seq(Paths)
         /\ stale'[c] = TrackedTraces \ selected
         /\ cleaning'[c] = stale'[c]
         /\ manifest'[c] = ListedTraces(c, selected, TrackedTraces \ selected)
         /\ serial => \A d \in Calls : Started(d) => Settled(d)
         /\ \A p \in Paths : disk[p] # c
         /\ manifest' \in [Calls -> SUBSET Traces] /\ stale' \in [Calls -> SUBSET Traces]
         /\ cleaning' \in [Calls -> SUBSET Traces] /\ TrackedTraces \subseteq Traces
<1> DEFINE files == ArtifactsOf(c, selected)
           old   == TrackedTraces \ selected
<1>1. TypeOK /\ WriterInv /\ PublicationType
  BY DEF PublicationInv, PublicationType
<1>2. /\ Begin(c, files) /\ exit[c] = "none"
      /\ serial => \A d \in Calls : Started(d) => Settled(d)
      /\ stale'    = [stale EXCEPT ![c] = old]
      /\ cleaning' = [cleaning EXCEPT ![c] = old]
      /\ manifest' = [manifest EXCEPT ![c] = ListedTraces(c, selected, old)]
      /\ UNCHANGED <<serial, exit>>
  BY DEF Prepare
<1>3. files \in {p \in Seq(Paths) : Len(p) <= MaxFiles}
  BY ArtifactsMean, PlansAssumption
<1>4. TypeOK' /\ WriterInv'
  BY <1>1, <1>2, <1>3, BeginStep
<1>5. TrackedTraces \subseteq Traces
  BY <1>1 DEF PublicationType, TrackedTraces
<1>6. old \in SUBSET Traces /\ ListedTraces(c, selected, old) \in SUBSET Traces
  BY <1>5 DEF ListedTraces
<1> HIDE DEF files, old
<1>7. /\ pc[c] = "idle" /\ pc' = [pc EXCEPT ![c] = "stage"]
      /\ plan' = [plan EXCEPT ![c] = files]
      /\ UNCHANGED <<disk, temp, next, removing, aborted, error>>
  BY <1>2 DEF Begin, GoTo
<1>8. /\ pc'[c] = "stage" /\ plan'[c] = files
      /\ \A d \in Calls \ {c} : pc'[d] = pc[d] /\ plan'[d] = plan[d]
  BY <1>1, <1>7 DEF TypeOK
<1>9. /\ stale'[c] = old /\ cleaning'[c] = old /\ manifest'[c] = ListedTraces(c, selected, old)
      /\ \A d \in Calls \ {c} : /\ stale'[d] = stale[d] /\ cleaning'[d] = cleaning[d]
                                /\ manifest'[d] = manifest[d]
      /\ manifest' \in [Calls -> SUBSET Traces] /\ stale' \in [Calls -> SUBSET Traces]
      /\ cleaning' \in [Calls -> SUBSET Traces]
  BY <1>1, <1>2, <1>6 DEF PublicationType
<1>10. \A p \in Paths : disk[p] # c
  BY <1>1, <1>7 DEF WriterInv, UnpublishedBeforeCommit
<1>11. QED
  BY <1>2, <1>3, <1>4, <1>5, <1>7, <1>8, <1>9, <1>10 DEF files, old

LEMMA PrepareMakesPlan ==
  ASSUME PublicationInv, NEW c \in Calls, NEW selected \in SUBSET Traces, Prepare(c, selected)
  PROVE  PlanMade(c)' /\ \A t \in Traces : t \in selected <=> t \in Destinations(c)'
<1> DEFINE files == ArtifactsOf(c, selected)
<1>1. /\ plan'[c] = files /\ files \in Seq(Paths)
      /\ stale'[c] = TrackedTraces \ selected /\ TrackedTraces \subseteq Traces
      /\ manifest'[c] = ListedTraces(c, selected, TrackedTraces \ selected)
  BY PrepareShape
<1>2. /\ Len(files) \in 2..MaxFiles /\ files[1] = Catalogue
      /\ \E i \in 1..Len(files) : files[i] = TraceManifest
      /\ c \in Scans => files[Len(files)] = Bundle
      /\ c \in Reports => \A i \in 1..Len(files) : files[i] # Bundle
      /\ \A i, j \in 1..Len(files) : files[i] \in Traces /\ files[j] = TraceManifest => i < j
      /\ \A t \in Traces : t \in selected <=> \E i \in 1..Len(files) : files[i] = t
  BY ArtifactsMean
<1> HIDE DEF files
<1> DEFINE D == {files[i] : i \in 1..Len(files)}
<1>3. Destinations(c)' = D
  BY <1>1 DEF Destinations
<1>4. \A t \in Traces : t \in selected <=> t \in D
  BY <1>2
<1>5. TraceManifest \in D /\ (c \in Reports => Bundle \notin D) /\ Len(files) >= 2
  BY <1>2, PlansAssumption
<1> HIDE DEF D
<1>6. stale'[c] \cap D = {}
  BY <1>1, <1>4
<1>7. manifest'[c] = (D \cap Traces) \cup (IF c \in Scans THEN {} ELSE stale'[c])
  BY <1>1, <1>4 DEF ListedTraces
<1>8. PlanMade(c)'
  BY <1>1, <1>2, <1>3, <1>5, <1>6, <1>7 DEF PlanMade
<1>9. QED
  BY <1>3, <1>4, <1>8

LEMMA PrepareKeeps ==
  ASSUME PublicationInv, NEW c \in Calls, NEW selected \in SUBSET Traces, Prepare(c, selected)
  PROVE  PublicationInv'
<1>1. /\ TypeOK' /\ WriterInv'
      /\ UNCHANGED <<disk, temp, next, removing, aborted, error, serial, exit>>
      /\ exit[c] = "none" /\ pc[c] = "idle" /\ pc'[c] = "stage"
      /\ \A d \in Calls \ {c} : /\ pc'[d] = pc[d] /\ plan'[d] = plan[d]
                                /\ stale'[d] = stale[d] /\ cleaning'[d] = cleaning[d]
                                /\ manifest'[d] = manifest[d]
      /\ plan'[c] \in Seq(Paths)
      /\ stale'[c] = TrackedTraces \ selected
      /\ cleaning'[c] = stale'[c]
      /\ serial => \A d \in Calls : Started(d) => Settled(d)
      /\ \A p \in Paths : disk[p] # c
      /\ manifest' \in [Calls -> SUBSET Traces] /\ stale' \in [Calls -> SUBSET Traces]
      /\ cleaning' \in [Calls -> SUBSET Traces] /\ TrackedTraces \subseteq Traces
  BY PrepareShape
<1>2. PlanMade(c)' /\ \A t \in Traces : t \in selected <=> t \in Destinations(c)'
  BY PrepareMakesPlan
<1>3. /\ ~Started(c) /\ Started(c)' /\ ~Settled(c) /\ ~Settled(c)'
      /\ \A d \in Calls \ {c} : (Started(d)' <=> Started(d)) /\ (Settled(d)' <=> Settled(d))
      /\ \A d \in Calls \ {c} : Listed(d)' = Listed(d) /\ Destinations(d)' = Destinations(d)
      /\ \A d \in Calls \ {c} : PlanMade(d) => PlanMade(d)'
  <2>1. ~Started(c) /\ Started(c)' /\ ~Settled(c) /\ ~Settled(c)'
    BY <1>1 DEF Started, Settled
  <2>2. \A d \in Calls \ {c} : (Started(d)' <=> Started(d)) /\ (Settled(d)' <=> Settled(d))
    BY <1>1 DEF Started, Settled
  <2>3. \A d \in Calls \ {c} : Listed(d)' = Listed(d) /\ Destinations(d)' = Destinations(d)
    BY <1>1 DEF Listed, Destinations
  <2>4. \A d \in Calls \ {c} : PlanMade(d) => PlanMade(d)'
    BY <1>1, <2>3 DEF PlanMade
  <2>5. QED
    BY <2>1, <2>2, <2>3, <2>4
<1>4. PublicationType'
  BY <1>1 DEF PublicationInv, PublicationType
<1>5. PlansMade'
  BY <1>2, <1>3 DEF PublicationInv, PlansMade
<1>6. Ends'
  <2>1. SUFFICES ASSUME NEW d \in Calls
                 PROVE  /\ exit'[d] # "none" => pc'[d] \in Finished
                        /\ pc'[d] = "ok" => next'[d] > Len(plan'[d])
                        /\ removing'[d] # {} => pc'[d] \in {"rollback", "failed"}
                        /\ cleaning'[d] \subseteq stale'[d]
                        /\ ~Started(d)' => cleaning'[d] = {} /\ exit'[d] = "none"
                        /\ exit'[d] = "published" => pc'[d] = "ok"
                        /\ pc'[d] = "crashed" => exit'[d] = "killed"
    BY DEF Ends
  <2>2. CASE d = c
    <3>1. removing'[c] = {}
      BY <1>1 DEF PublicationInv, Ends
    <3>2. QED
      BY <1>1, <1>3, <2>2, <3>1
  <2>3. CASE d # c
    BY <1>1, <1>3, <2>3 DEF PublicationInv, Ends
  <2>4. QED
    BY <2>2, <2>3
<1>7. Alone'
  BY <1>1, <1>3 DEF Alone
<1>8. NotYet' /\ Own'
  <2>1. NotYet'
    BY <1>1 DEF PublicationInv, NotYet
  <2>2. Own'
    BY <1>1, <1>3 DEF PublicationInv, Own
  <2>3. QED
    BY <2>1, <2>2
<1>9. \A d \in Calls : \A p : Accounted(d, p) => Accounted(d, p)'
  <2>1. \A d \in Calls : pc[d] = "ok" => pc'[d] = "ok" /\ stale'[d] = stale[d]
    BY <1>1
  <2>2. QED
    BY <1>1, <2>1, AccountedKept
<1>10. CommitAccounted'
  <2>1. SUFFICES ASSUME NEW d \in Calls, pc'[d] = "commit",
                        NEW i \in 1..Len(plan'[d]), i < next'[d]
                 PROVE  Accounted(d, plan[d][i])'
    BY DEF CommitAccounted
  <2>2. d # c
    BY <1>1, <2>1
  <2>3. Accounted(d, plan[d][i]) /\ plan'[d] = plan[d]
    BY <1>1, <2>1, <2>2 DEF PublicationInv, CommitAccounted
  <2>4. Accounted(d, plan[d][i]) => \/ disk[plan'[d][i]] = d
                                    \/ \E e \in Calls \ {d} :
                                         \/ disk[plan'[d][i]] = e
                                         \/ plan'[d][i] \in stale[e] /\ pc[e] = "ok"
                                            /\ disk[plan'[d][i]] \in {Absent, Foreign}
    BY <2>3 DEF Accounted
  <2>5. \A e \in Calls : pc[e] = "ok" => pc'[e] = "ok" /\ stale'[e] = stale[e]
    BY <1>1
  <2>6. QED
    BY <1>1, <2>3, <2>4, <2>5 DEF Accounted
<1>11. /\ Bundle \in Paths /\ TraceManifest \in Paths /\ Catalogue \in Paths /\ Traces \subseteq Paths
       /\ Scans \subseteq Calls /\ Reports \subseteq Calls
  BY CommandsAssumption
<1>12. MarkerAccounted'
  BY <1>1, <1>3, <1>9, <1>11, MarkerMeans, MarkerMeansNext DEF PublicationInv
<1>13. MarkerKept'
  <2>1. SUFFICES ASSUME serial, Unbroken', NEW s \in Scans, disk[Bundle] = s
                 PROVE  Intact(s)' \/ disk[Catalogue] \in Reports \/ \E e \in Calls : Breaking(e)'
    BY <1>1 DEF MarkerKept
  <2>2. Unbroken
    BY <1>1, <2>1 DEF Unbroken
  <2>3. \A e \in Calls : Breaking(e) => Breaking(e)'
    BY <1>1 DEF Breaking
  <2>4. Intact(s) => Intact(s)'
    BY <1>1, <1>3, <1>11, <2>1 DEF Intact
  <2>5. QED
    BY <2>1, <2>2, <2>3, <2>4, <1>11 DEF PublicationInv, MarkerKept
<1>14. TrackedTraces' = TrackedTraces
  <2>1. disk[TraceManifest] # c
    BY <1>1, <1>11
  <2>2. QED
    BY <1>1, <2>1 DEF TrackedTraces
<1>15. Regular' => Regular
  BY <1>1, <1>3 DEF Regular
<1>16. TracesKept'
  <2>1. \A e \in Calls : Working(e) => Working(e)'
    BY <1>1 DEF Working
  <2>2. QED
    BY <1>1, <1>14, <1>15, <2>1 DEF PublicationInv, TracesKept
<1>17. TracesExpected'
  <2>1. SUFFICES ASSUME serial, Regular', NEW d \in Calls, exit[d] = "none",
                        pc'[d] \in {"stage", "write", "commit", "ok"},
                        NEW t \in Traces, disk[t] \in Calls
                 PROVE  t \in Destinations(d)' \cup cleaning'[d]
    BY <1>1 DEF TracesExpected
  <2>2. d = c
    <3>1. d # c => Started(d)
      BY <1>1, <2>1 DEF Started
    <3>2. QED
      BY <1>1, <2>1, <3>1 DEF Settled
  <2>3. t \in TrackedTraces
    <3>1. \A e \in Calls : ~Working(e)
      BY <1>1, <2>1 DEF Working, Started, Settled
    <3>2. QED
      BY <1>15, <2>1, <3>1 DEF PublicationInv, TracesKept
  <2>4. QED
    BY <1>1, <1>2, <2>2, <2>3
<1>18. TrackedAreWritten'
  <2>1. NoReports' => NoReports
    BY <1>3, <1>11 DEF NoReports
  <2>2. QED
    BY <1>1, <1>14, <2>1 DEF PublicationInv, TrackedAreWritten
<1>19. QED
  BY <1>1, <1>4, <1>5, <1>6, <1>7, <1>8, <1>10, <1>12, <1>13, <1>16, <1>17, <1>18
     DEF PublicationInv

-----------------------------------------------------------------------------
(* Every step.                                                              *)

LEMMA StutterKeeps ==
  ASSUME PublicationInv, UNCHANGED pubVars
  PROVE  PublicationInv'
<1>1. /\ UNCHANGED <<disk, temp, pc, plan, next, removing, aborted, error>>
      /\ UNCHANGED <<serial, manifest, stale, cleaning, exit>>
  BY DEF pubVars, vars
<1>2. PublicationType' /\ WriterInv'
  BY <1>1
     DEF PublicationInv, PublicationType, TypeOK, WriterInv, LoopWithinPlan, StagedWhole,
       DistinctDestinations, UnpublishedBeforeCommit, LateRemovals, TemporariesAccounted,
       DestinationsWhole, RefusalPublishesNothing
<1>3. (PlansMade /\ Ends /\ Alone /\ NotYet /\ Own)'
  <2>1. PlansMade'
    BY <1>1, SamePlans DEF PublicationInv, PlansMade, Started
  <2>2. (Ends /\ Alone /\ NotYet /\ Own)'
    BY <1>1 DEF PublicationInv, Ends, Alone, NotYet, Own, Started, Settled
  <2>3. QED
    BY <2>1, <2>2
<1>4. (CommitAccounted /\ MarkerAccounted)'
  BY <1>1 DEF PublicationInv, CommitAccounted, MarkerAccounted, Accounted, Listed
<1>5. (MarkerKept /\ TracesKept /\ TracesExpected /\ TrackedAreWritten)'
  <2>1. MarkerKept'
    BY <1>1 DEF PublicationInv, MarkerKept, Unbroken, Breaking, Intact, Listed
  <2>2. (TracesKept /\ TracesExpected)'
    BY <1>1 DEF PublicationInv, TracesKept, TracesExpected, Regular, Working, Destinations,
                TrackedTraces, Started
  <2>3. TrackedAreWritten'
    BY <1>1 DEF PublicationInv, TrackedAreWritten, NoReports, TrackedTraces, Started
  <2>4. QED
    BY <2>1, <2>2, <2>3
<1>6. QED
  BY <1>2, <1>3, <1>4, <1>5 DEF PublicationInv

(* The steps of a command by what they do to the files.                      *)
LEMMA PublicationSteps ==
  ASSUME [PublicationNext]_pubVars
  PROVE  \/ \E c \in Calls :
              \/ \E selected \in SUBSET Traces : Prepare(c, selected)
              \/ (QuietStep(c) \/ Rename(c)) /\ UNCHANGED <<serial, manifest, stale, cleaning, exit>>
              \/ RemoveStale(c) \/ EndStep(c) \/ Kill(c)
         \/ \E t \in Traces : UserAddsFile(t)
         \/ UNCHANGED pubVars
<1>1. \A c \in Calls : WriteStep(c) =>
        (QuietStep(c) \/ Rename(c)) /\ UNCHANGED <<serial, manifest, stale, cleaning, exit>>
  BY DEF WriteStep, Step, Commit, QuietStep
<1>2. \A c \in Calls : RemoveStaleFails(c) \/ EndPublished(c) \/ EndFailed(c) \/ Interrupt(c)
                       => EndStep(c)
  BY DEF EndStep
<1>3. QED
  BY <1>1, <1>2 DEF PublicationNext

LEMMA PublicationInductive ==
  PublicationInv /\ [PublicationNext]_pubVars => PublicationInv'
<1> SUFFICES ASSUME PublicationInv, [PublicationNext]_pubVars PROVE PublicationInv'
  OBVIOUS
<1>1. ASSUME NEW c \in Calls, NEW selected \in SUBSET Traces, Prepare(c, selected)
      PROVE  PublicationInv'
  BY <1>1, PrepareKeeps
<1>2. ASSUME NEW c \in Calls, QuietStep(c), UNCHANGED <<serial, manifest, stale, cleaning, exit>>
      PROVE  PublicationInv'
  BY <1>2, QuietKeeps
<1>3. ASSUME NEW c \in Calls, Rename(c), UNCHANGED <<serial, manifest, stale, cleaning, exit>>
      PROVE  PublicationInv'
  BY <1>3, RenameKeeps
<1>4. ASSUME NEW c \in Calls, RemoveStale(c) PROVE PublicationInv'
  BY <1>4, RemoveStaleKeeps
<1>5. ASSUME NEW c \in Calls, EndStep(c) PROVE PublicationInv'
  BY <1>5, EndKeeps
<1>6. ASSUME NEW c \in Calls, Kill(c) PROVE PublicationInv'
  BY <1>6, KillKeeps
<1>7. ASSUME NEW t \in Traces, UserAddsFile(t) PROVE PublicationInv'
  BY <1>7, UserAddsFileKeeps
<1>8. QED
  BY <1>1, <1>2, <1>3, <1>4, <1>5, <1>6, <1>7, StutterKeeps, PublicationSteps

(* What every reachable state of any commands on a directory satisfies.      *)
THEOREM PublicationInvariance == PublicationSpec => []PublicationInv
BY PublicationInitInv, PublicationInductive, PTL DEF PublicationSpec

-----------------------------------------------------------------------------
(* Whoever finds bundle.json finds what it lists, or what another command    *)
(* has made of it since: writeAnalysisArtifacts publishes it last, and        *)
(* cleanupStaleTraceArtifacts runs only after a commit.  Commands may overlap *)
(* and fail as they like.                                                    *)
THEOREM BundleFilesAccounted == PublicationSpec => []MarkerAccounted
<1>1. PublicationInv => MarkerAccounted
  BY DEF PublicationInv
<1>2. QED
  BY <1>1, PublicationInvariance, PTL

(* When commands do not overlap, bundle.json keeps marking a complete bundle *)
(* until a command breaks off among its renames or a report replaces files:  *)
(* neither cancellation nor a failing clean-up is a reason.                   *)
THEOREM BundleLostForAReason == PublicationSpec => []MarkerLostForAReason
<1>1. PublicationInv => MarkerLostForAReason
  <2>1. SUFFICES ASSUME PublicationInv, serial, Quiet,
                        \A c \in Calls : pc[c] \in {"failed", "crashed"} => error[c] = "canceled",
                        NEW s \in Scans, disk[Bundle] = s
                 PROVE  Intact(s) \/ \E p \in Listed(s) : disk[p] \in Reports
    BY DEF MarkerLostForAReason
  <2>2. Unbroken
    BY <2>1 DEF Unbroken
  <2>3. \A e \in Calls : ~Breaking(e)
    BY <2>1 DEF PublicationInv, Ends, Quiet, Started, Settled, Finished, Breaking
  <2>4. Intact(s) \/ disk[Catalogue] \in Reports
    BY <2>1, <2>2, <2>3 DEF PublicationInv, MarkerKept
  <2>5. Catalogue \in Listed(s)
    <3>1. s \in Calls /\ Bundle \in Paths
      BY CommandsAssumption
    <3>2. Started(s)
      BY <2>1, <3>1 DEF PublicationInv, WriterInv, UnpublishedBeforeCommit, Started
    <3>3. PlanMade(s)
      BY <2>1, <3>1, <3>2 DEF PublicationInv, PlansMade
    <3>4. 1 \in DOMAIN plan[s]
      BY <2>1, <3>1, <3>3 DEF PlanMade, PublicationInv, PublicationType, TypeOK
    <3>5. plan[s][1] = Catalogue /\ Catalogue # Bundle
      BY <3>3, NamesAssumption DEF PlanMade
    <3>6. QED
      BY <3>4, <3>5 DEF Listed
  <2>6. QED
    BY <2>4, <2>5
<1>2. QED
  BY <1>1, PublicationInvariance, PTL

(* A trace that the tool wrote and left is listed by the trace manifest of   *)
(* the directory once the commands ended, unless one broke off: a report      *)
(* publishes the pending manifest, which goes on listing what it has still   *)
(* to remove.                                                                *)
THEOREM WrittenTracesTracked == PublicationSpec => []TracesTracked
<1>1. PublicationInv => TracesTracked
  <2>1. SUFFICES ASSUME PublicationInv, serial, Quiet,
                        \A c \in Calls : Started(c) => exit[c] = "published" \/ error[c] = "canceled",
                        NEW t \in Traces, disk[t] \in Calls
                 PROVE  t \in TrackedTraces
    BY DEF TracesTracked
  <2>2. Regular
    BY <2>1 DEF Regular
  <2>3. \A e \in Calls : ~Working(e)
    BY <2>1 DEF Quiet, Started, Settled, Working
  <2>4. QED
    BY <2>1, <2>2, <2>3 DEF PublicationInv, TracesKept
<1>2. QED
  BY <1>1, PublicationInvariance, PTL

(* cleanupStaleTraceArtifacts removes no file that the user put among the    *)
(* traces, as long as no report has been published into the directory.        *)
THEOREM UnrelatedFilesKept == PublicationSpec => ScansNeverSweepUnrelated
<1> DEFINE Keeps == serial /\ (\A d \in Reports : ~Started(d)) =>
                      \A t \in Traces : disk[t] = Foreign => disk'[t] # Absent
<1>1. PublicationInv /\ [PublicationNext]_pubVars => [Keeps]_pubVars
  <2>1. SUFFICES ASSUME PublicationInv, [PublicationNext]_pubVars, serial, NoReports,
                        NEW t \in Traces, disk[t] = Foreign
                 PROVE  disk'[t] # Absent
    BY DEF NoReports
  <2>2. TypeOK /\ PublicationType /\ Ends /\ t \in Paths
    BY <2>1, CommandsAssumption DEF PublicationInv, PublicationType
  <2>3. Foreign # Absent /\ Absent \notin Calls /\ Foreign \notin Calls
    BY ContentsAssumption
  <2>4. ASSUME NEW c \in Calls, NEW selected \in SUBSET Traces, Prepare(c, selected)
        PROVE  disk'[t] # Absent
    BY <2>1, <2>3, <2>4, PrepareShape
  <2>5. ASSUME NEW c \in Calls, QuietStep(c) PROVE disk'[t] # Absent
    BY <2>1, <2>2, <2>3, <2>5, QuietShape
  <2>6. ASSUME NEW c \in Calls, Rename(c), UNCHANGED <<serial, manifest, stale, cleaning, exit>>
        PROVE  disk'[t] # Absent
    <3>1. disk'[t] = c \/ disk'[t] = disk[t]
      BY <2>1, <2>2, <2>6, RenameShape
    <3>2. QED
      BY <2>1, <2>3, <3>1
  <2>7. ASSUME NEW c \in Calls, RemoveStale(c) PROVE disk'[t] # Absent
    <3>1. PICK u \in cleaning[c] : disk' = [disk EXCEPT ![u] = Absent]
      BY <2>7 DEF RemoveStale
    <3>2. disk[u] \in Calls
      BY <2>1 DEF PublicationInv, TrackedAreWritten
    <3>3. QED
      BY <2>1, <2>2, <2>3, <3>1, <3>2 DEF TypeOK
  <2>8. ASSUME NEW c \in Calls, EndStep(c) PROVE disk'[t] # Absent
    BY <2>1, <2>2, <2>3, <2>8, EndShape
  <2>9. ASSUME NEW c \in Calls, Kill(c) PROVE disk'[t] # Absent
    BY <2>1, <2>3, <2>9, KillShape
  <2>10. ASSUME NEW u \in Traces, UserAddsFile(u) PROVE disk'[t] # Absent
    BY <2>1, <2>2, <2>3, <2>10 DEF UserAddsFile, TypeOK
  <2>11. CASE UNCHANGED pubVars
    BY <2>1, <2>3, <2>11 DEF pubVars, vars
  <2>12. QED
    BY <2>1, <2>4, <2>5, <2>6, <2>7, <2>8, <2>9, <2>10, <2>11, PublicationSteps
<1>2. QED
  BY <1>1, PublicationInvariance, PTL DEF PublicationSpec, ScansNeverSweepUnrelated

-----------------------------------------------------------------------------
(* Commands one after the other implement BundlePublication.                *)

(* How far a command has come, without overlaps.                             *)
ProgressTable ==
  \A c \in Calls :
    /\ pc[c] = "idle" => Progress(c) = "waiting"
    /\ pc[c] \in {"stage", "write"} => Progress(c) = "preparing"
    /\ pc[c] = "commit" /\ next[c] = 1 => Progress(c) = "preparing"
    /\ pc[c] = "commit" /\ 1 < next[c] /\ next[c] <= Len(plan[c]) => Progress(c) = "replacing"
    /\ pc[c] = "commit" /\ next[c] > Len(plan[c]) => Progress(c) = "published"
    /\ pc[c] = "ok" => Progress(c) = "published"
    /\ pc[c] \in {"rollback", "failed", "crashed"} => Progress(c) = "ended"

LEMMA ProgressIs == PublicationInv /\ serial => ProgressTable
<1> SUFFICES ASSUME PublicationInv, serial, NEW c \in Calls
             PROVE  /\ pc[c] = "idle" => Progress(c) = "waiting"
                    /\ pc[c] \in {"stage", "write"} => Progress(c) = "preparing"
                    /\ pc[c] = "commit" /\ next[c] = 1 => Progress(c) = "preparing"
                    /\ pc[c] = "commit" /\ 1 < next[c] /\ next[c] <= Len(plan[c])
                         => Progress(c) = "replacing"
                    /\ pc[c] = "commit" /\ next[c] > Len(plan[c]) => Progress(c) = "published"
                    /\ pc[c] = "ok" => Progress(c) = "published"
                    /\ pc[c] \in {"rollback", "failed", "crashed"} => Progress(c) = "ended"
  BY DEF ProgressTable
<1>1. next[c] \in Nat /\ Len(plan[c]) \in Nat
  BY PlansAssumption DEF PublicationInv, PublicationType, TypeOK
<1>2. pc[c] = "commit" => Len(plan[c]) >= 2
  BY DEF PublicationInv, PlansMade, PlanMade, Started
<1>3. QED
  BY <1>1, <1>2 DEF Progress, AllRenamed

LEMMA ProgressIsNext == PublicationInv' /\ serial' => ProgressTable'
BY ProgressIs, PTL

(* A reader who is shown a bundle finds its first and its last file.         *)
ShownFound ==
  /\ Shown \in Scans \cup {Absent} /\ Absent \notin Scans
  /\ Shown \in Scans => disk[Bundle] = Shown /\ disk[Catalogue] = Shown
  /\ \A s \in Scans : serial /\ disk[Bundle] = s /\ Intact(s) => Shown = s

LEMMA ShownIsFound == PublicationInv => ShownFound
<1> SUFFICES ASSUME PublicationInv PROVE ShownFound
  OBVIOUS
<1>1. Absent \notin Scans /\ Scans \subseteq Calls /\ Bundle \in Paths
  BY CommandsAssumption, ContentsAssumption
<1>2. ASSUME NEW s \in Scans, disk[Bundle] = s, Intact(s) PROVE disk[Catalogue] = s
  <2>1. Started(s)
    BY <1>1, <1>2 DEF PublicationInv, WriterInv, UnpublishedBeforeCommit, Started
  <2>2. PlanMade(s)
    BY <1>1, <2>1 DEF PublicationInv, PlansMade
  <2>3. 1 \in DOMAIN plan[s]
    BY <1>1, <2>2 DEF PlanMade, PublicationInv, PublicationType, TypeOK
  <2>4. Catalogue \in Listed(s)
    BY <2>2, <2>3, NamesAssumption DEF PlanMade, Listed
  <2>5. QED
    BY <1>2, <2>4 DEF Intact
<1>3. QED
  BY <1>1, <1>2 DEF Shown, ShownFound

LEMMA ShownIsFoundNext == PublicationInv' => ShownFound'
BY ShownIsFound, PTL

LEMMA ShownSame ==
  ASSUME serial' = serial, disk'[Bundle] = disk[Bundle],
         \A s \in Scans : disk[Bundle] = s => (Intact(s)' <=> Intact(s))
  PROVE  Shown' = Shown
BY DEF Shown

LEMMA MoveMapped ==
  ASSUME NEW c \in Calls, NEW from, NEW to, Progress(c) = from, Progress(c)' = to,
         \A d \in Calls \ {c} : Progress(d)' = Progress(d)
  PROVE  Promise!Move(c, from, to)
BY DEF Promise!Move

LEMMA StutterMapped ==
  ASSUME Shown' = Shown, \A d \in Calls : Progress(d)' = Progress(d)
  PROVE  UNCHANGED Promise!absVars
BY DEF Promise!absVars

LEMMA InitMapped == PublicationInit => Promise!AbstractInit
<1> SUFFICES ASSUME PublicationInit PROVE Promise!AbstractInit
  OBVIOUS
<1>1. Shown = Absent
  BY CommandsAssumption, ContentsAssumption DEF PublicationInit, Shown
<1>2. \A c \in Calls : pc[c] = "idle"
  BY DEF PublicationInit, Init
<1>3. \A c \in Calls : Progress(c) = "waiting"
  BY <1>2 DEF Progress, AllRenamed
<1>4. Promise!Publishers = Calls
  BY CommandsAssumption DEF Promise!Publishers
<1>5. QED
  BY <1>1, <1>3, <1>4 DEF Promise!AbstractInit

(* Where commands overlap, nothing is promised.                             *)
LEMMA OverlapMapped ==
  ASSUME ~serial, serial' = serial
  PROVE  UNCHANGED Promise!absVars
<1>1. Shown' = Shown
  BY DEF Shown
<1>2. \A d \in Calls : Progress(d) = "waiting" /\ Progress(d)' = "waiting"
  BY DEF Progress
<1>3. QED
  BY <1>1, <1>2, StutterMapped

LEMMA SerialKept == [PublicationNext]_pubVars => serial' = serial
<1> SUFFICES ASSUME [PublicationNext]_pubVars PROVE serial' = serial
  OBVIOUS
<1>1. \A c \in Calls : \A selected \in SUBSET Traces : Prepare(c, selected) => serial' = serial
  BY DEF Prepare
<1>2. \A c \in Calls : RemoveStale(c) \/ Kill(c) => serial' = serial
  BY DEF RemoveStale, Kill
<1>3. \A c \in Calls : EndStep(c) => serial' = serial
  BY DEF EndStep, RemoveStaleFails, EndPublished, EndFailed, Interrupt
<1>4. \A t \in Traces : UserAddsFile(t) => serial' = serial
  BY DEF UserAddsFile
<1>5. UNCHANGED pubVars => serial' = serial
  BY DEF pubVars
<1>6. QED
  BY <1>1, <1>2, <1>3, <1>4, <1>5, PublicationSteps

(* Progress depends on these parts of the state only.                       *)
LEMMA ProgressKept ==
  ASSUME serial' = serial, plan' = plan, NEW d \in Calls, pc'[d] = pc[d], next'[d] = next[d]
  PROVE  Progress(d)' = Progress(d)
BY DEF Progress, AllRenamed

LEMMA UserAddsFileMapped ==
  ASSUME PublicationInv, NEW t \in Traces, UserAddsFile(t)
  PROVE  UNCHANGED Promise!absVars
<1>1. /\ disk[t] = Absent /\ disk' = [disk EXCEPT ![t] = Foreign]
      /\ UNCHANGED <<temp, pc, plan, next, removing, aborted, error, serial, manifest, stale,
                     cleaning, exit>>
  BY DEF UserAddsFile
<1>2. /\ disk'[t] = Foreign /\ \A p \in Paths : p # t => disk'[p] = disk[p]
      /\ disk'[Bundle] = disk[Bundle]
      /\ \A d \in Calls : \A p \in Paths : disk'[p] = d => disk[p] = d
      /\ \A d \in Calls : \A i \in 1..Len(plan[d]) : plan[d][i] \in Paths
      /\ \A d \in Calls : Listed(d) = {plan[d][i] : i \in 1..Len(plan[d])} \ {Bundle}
  BY <1>1, TraceTouched
<1>3. \A d \in Calls : \A p \in Paths : disk[p] = d => disk'[p] = d
  BY <1>1, <1>2, ContentsAssumption
<1>4. \A d \in Calls : Intact(d)' <=> Intact(d)
  <2>1. \A d \in Calls : Listed(d)' = Listed(d) /\ \A p \in Listed(d) : p \in Paths
    BY <1>1, <1>2 DEF Listed
  <2>2. QED
    BY <1>2, <1>3, <2>1 DEF Intact
<1>5. Shown' = Shown
  BY <1>1, <1>2, <1>4, ShownSame, CommandsAssumption
<1>6. QED
  BY <1>1, <1>5, ProgressKept, StutterMapped

LEMMA RemoveStaleMapped ==
  ASSUME PublicationInv, serial, NEW c \in Calls, RemoveStale(c)
  PROVE  UNCHANGED Promise!absVars
<1>1. PICK t \in cleaning[c] : disk' = [disk EXCEPT ![t] = Absent]
  BY DEF RemoveStale
<1>2. /\ pc[c] = "ok"
      /\ UNCHANGED <<temp, pc, plan, next, removing, aborted, error, serial, manifest, stale, exit>>
  BY DEF RemoveStale
<1>3. /\ t \in Traces /\ t \in stale[c] /\ t \notin Destinations(c) /\ PlanMade(c)
      /\ \A i \in 1..Len(plan[c]) : disk[plan[c][i]] = c
  BY <1>2, RemoveStaleShape
<1>4. /\ disk'[t] = Absent /\ \A p \in Paths : p # t => disk'[p] = disk[p]
      /\ disk'[Bundle] = disk[Bundle]
      /\ \A d \in Calls : \A p \in Paths : disk'[p] = d => disk[p] = d
      /\ \A d \in Calls : \A i \in 1..Len(plan[d]) : plan[d][i] \in Paths
      /\ \A d \in Calls : Listed(d) = {plan[d][i] : i \in 1..Len(plan[d])} \ {Bundle}
  BY <1>1, <1>2, <1>3, TraceTouched
<1>5. \A d \in Calls : Listed(d)' = Listed(d) /\ \A p \in Listed(d) : p \in Paths
  BY <1>2, <1>4 DEF Listed
<1>6. Len(plan[c]) \in 1..Len(plan[c]) /\ 1 \in 1..Len(plan[c])
  BY <1>3 DEF PlanMade, PublicationInv, PublicationType, TypeOK
<1>7. ASSUME NEW s \in Scans, disk[Bundle] = s PROVE Intact(s)' <=> Intact(s)
  <2>1. Intact(s)' => Intact(s)
    BY <1>4, <1>5, CommandsAssumption DEF Intact
  <2>2. ASSUME Intact(s) PROVE Intact(s)'
    <3>1. s = c
      <4>1. CASE c \in Scans
        BY <1>3, <1>6, <1>7, <4>1 DEF PlanMade
      <4>2. CASE c \in Reports
        <5>1. Shown = s
          BY <1>7, <2>2, ShownIsFound DEF ShownFound
        <5>2. disk[Catalogue] = s
          BY <5>1, ShownIsFound DEF ShownFound
        <5>3. QED
          BY <1>3, <1>6, <5>2 DEF PlanMade
      <4>3. QED
        BY <4>1, <4>2, CommandsAssumption
    <3>2. t \notin Listed(c)
      BY <1>3, <1>4 DEF Destinations
    <3>3. QED
      BY <1>4, <1>5, <2>2, <3>1, <3>2, CommandsAssumption DEF Intact
  <2>3. QED
    BY <2>1, <2>2
<1>8. Shown' = Shown
  BY <1>2, <1>4, <1>7, ShownSame
<1>9. QED
  BY <1>2, <1>8, ProgressKept, StutterMapped

(* The steps that move no file show what was shown.                          *)
LEMMA ShownStays ==
  ASSUME disk' = disk, plan' = plan, serial' = serial
  PROVE  Shown' = Shown
<1>1. \A s \in Scans : Intact(s)' <=> Intact(s)
  BY DEF Intact, Listed
<1>2. QED
  BY <1>1, ShownSame

LEMMA EndMapped ==
  ASSUME PublicationInv, NEW c \in Calls, EndStep(c)
  PROVE  UNCHANGED Promise!absVars
<1>1. UNCHANGED <<disk, pc, plan, next, serial>>
  BY EndShape DEF PublicationInv
<1>2. QED
  BY <1>1, ShownStays, ProgressKept, StutterMapped

LEMMA KillMapped ==
  ASSUME PublicationInv, PublicationInv', serial, NEW c \in Calls, Kill(c)
  PROVE  [Promise!AbstractNext]_(Promise!absVars)
<1>1. /\ UNCHANGED <<disk, plan, next, serial>>
      /\ pc'[c] \in {"ok", "crashed"}
      /\ \A d \in Calls \ {c} : pc'[d] = pc[d]
      /\ Started(c)
      /\ pc[c] = "ok" => pc'[c] = "ok"
      /\ pc'[c] = "ok" => pc[c] \in {"commit", "ok"} /\ next[c] > Len(plan[c])
      /\ pc[c] = "commit" /\ pc'[c] = "crashed" => next[c] <= Len(plan[c])
  <2>1. /\ UNCHANGED <<disk, plan, next, aborted, error, serial, manifest, stale>>
        /\ pc' = [pc EXCEPT ![c] = pc'[c]] /\ pc'[c] \in {"ok", "crashed"} /\ Started(c)
        /\ pc[c] = "ok" => pc'[c] = "ok"
        /\ pc'[c] = "ok" => pc[c] \in {"commit", "ok"} /\ next[c] > Len(plan[c])
        /\ pc[c] = "commit" /\ pc'[c] = "crashed" => next[c] <= Len(plan[c])
    BY KillShape
  <2>2. \A d \in Calls \ {c} : pc'[d] = pc[d]
    BY <2>1 DEF PublicationInv, PublicationType, TypeOK
  <2>3. QED
    BY <2>1, <2>2
<1>2. Shown' = Shown /\ \A d \in Calls \ {c} : Progress(d)' = Progress(d)
  BY <1>1, ShownStays, ProgressKept
<1>3. ProgressTable /\ ProgressTable'
  BY <1>1, ProgressIs, ProgressIsNext
<1>4. CASE Progress(c)' = Progress(c)
  BY <1>2, <1>4, StutterMapped
<1>5. CASE pc'[c] = "ok"
  <2>1. Progress(c) = "published"
    BY <1>1, <1>3, <1>5 DEF ProgressTable
  <2>2. Progress(c)' = "published"
    BY <1>3, <1>5 DEF ProgressTable
  <2>3. QED
    BY <1>4, <2>1, <2>2
<1>6. CASE pc'[c] = "crashed"
  <2>1. Progress(c)' = "ended"
    BY <1>3, <1>6 DEF ProgressTable
  <2>2. Progress(c) \in {"preparing", "replacing", "ended"}
    <3>1. next[c] \in Nat /\ next[c] >= 1 /\ pc[c] \in {"idle"} \cup Running \cup Finished
      BY PlansAssumption DEF PublicationInv, PublicationType, TypeOK
    <3>2. next[c] = 1 \/ 1 < next[c]
      BY <3>1
    <3>3. pc[c] \in {"stage", "write", "commit", "rollback", "failed", "crashed"}
      BY <1>1, <1>6, <3>1 DEF Started, Running, Finished
    <3>4. QED
      BY <1>1, <1>3, <1>6, <3>2, <3>3 DEF ProgressTable
  <2>3. CASE Progress(c) = "preparing"
    <3>1. Promise!GiveUp(c)
      BY <1>2, <2>1, <2>3, MoveMapped DEF Promise!GiveUp
    <3>2. QED
      BY <3>1, CommandsAssumption DEF Promise!AbstractNext, Promise!Publishers
  <2>4. CASE Progress(c) = "replacing"
    <3>1. Promise!BreakOff(c)
      BY <1>2, <2>1, <2>4, MoveMapped DEF Promise!BreakOff
    <3>2. QED
      BY <3>1, CommandsAssumption DEF Promise!AbstractNext, Promise!Publishers
  <2>5. QED
    BY <1>4, <2>1, <2>2, <2>3, <2>4
<1>7. QED
  BY <1>1, <1>5, <1>6

LEMMA PrepareMapped ==
  ASSUME PublicationInv, PublicationInv', serial,
         NEW c \in Calls, NEW selected \in SUBSET Traces, Prepare(c, selected)
  PROVE  [Promise!AbstractNext]_(Promise!absVars)
<1>1. /\ UNCHANGED <<disk, next, serial, exit>>
      /\ pc[c] = "idle" /\ pc'[c] = "stage"
      /\ \A d \in Calls \ {c} : pc'[d] = pc[d] /\ plan'[d] = plan[d]
      /\ \A d \in Calls : Started(d) => Settled(d)
      /\ \A p \in Paths : disk[p] # c
  BY PrepareShape
<1>2. ProgressTable /\ ProgressTable'
  BY <1>1, ProgressIs, ProgressIsNext
<1>3. Progress(c) = "waiting" /\ Progress(c)' = "preparing"
  BY <1>1, <1>2 DEF ProgressTable
<1>4. \A d \in Calls \ {c} : Progress(d)' = Progress(d)
  BY <1>1 DEF Progress, AllRenamed
<1>5. Shown' = Shown
  <2>1. disk[Bundle] # c
    BY <1>1, CommandsAssumption
  <2>2. \A s \in Scans : s # c => (Intact(s)' <=> Intact(s))
    BY <1>1, CommandsAssumption DEF Intact, Listed
  <2>3. QED
    BY <1>1, <2>1, <2>2, ShownSame
<1>6. \A d \in Calls : Progress(d) \notin Promise!Active
  <2>1. \A d \in Calls : pc[d] = "idle" \/ pc[d] \in Finished
    BY <1>1 DEF PublicationInv, Ends, Started, Settled
  <2>2. QED
    BY <1>2, <2>1 DEF ProgressTable, Finished, Promise!Active
<1>7. Promise!Start(c)
  <2>1. Promise!Move(c, "waiting", "preparing")
    BY <1>3, <1>4, MoveMapped
  <2>2. Promise!Publishers = Calls
    BY CommandsAssumption DEF Promise!Publishers
  <2>3. QED
    BY <1>5, <1>6, <2>1, <2>2 DEF Promise!Start
<1>8. QED
  BY <1>7, CommandsAssumption DEF Promise!AbstractNext, Promise!Publishers

LEMMA QuietMapped ==
  ASSUME PublicationInv, PublicationInv', serial, serial' = serial, NEW c \in Calls, QuietStep(c)
  PROVE  [Promise!AbstractNext]_(Promise!absVars)
<1>1. TypeOK
  BY DEF PublicationInv, PublicationType
<1>2. /\ disk' = disk /\ plan' = plan
      /\ \A d \in Calls \ {c} : pc'[d] = pc[d] /\ next'[d] = next[d]
  BY <1>1, QuietShape
<1>3. Shown' = Shown /\ \A d \in Calls \ {c} : Progress(d)' = Progress(d)
  BY <1>2, ShownStays, ProgressKept
<1>4. ProgressTable /\ ProgressTable'
  BY ProgressIs, ProgressIsNext
<1>5. CASE Progress(c)' = Progress(c)
  BY <1>3, <1>5, StutterMapped
<1>6. CASE Progress(c) = "preparing" /\ Progress(c)' = "ended"
  <2>1. Promise!GiveUp(c)
    BY <1>3, <1>6, MoveMapped DEF Promise!GiveUp
  <2>2. QED
    BY <2>1, CommandsAssumption DEF Promise!AbstractNext, Promise!Publishers
<1>7. CASE Progress(c) = "replacing" /\ Progress(c)' = "ended"
  <2>1. Promise!BreakOff(c)
    BY <1>3, <1>7, MoveMapped DEF Promise!BreakOff
  <2>2. QED
    BY <2>1, CommandsAssumption DEF Promise!AbstractNext, Promise!Publishers
<1>8. \/ Progress(c)' = Progress(c)
      \/ Progress(c) \in {"preparing", "replacing"} /\ Progress(c)' = "ended"
  <2>1. CASE pc[c] \in {"stage", "write"} /\ pc'[c] \in {"stage", "write", "rollback"}
    BY <1>4, <2>1 DEF ProgressTable
  <2>2. CASE pc[c] = "stage" /\ pc'[c] = "commit" /\ next'[c] = 1
    BY <1>4, <2>2 DEF ProgressTable
  <2>3. CASE pc[c] = "commit" /\ next[c] <= Len(plan[c]) /\ pc'[c] = "rollback"
    <3>1. next[c] = 1 \/ 1 < next[c]
      BY <1>1, PlansAssumption DEF TypeOK
    <3>2. QED
      BY <1>4, <2>3, <3>1 DEF ProgressTable
  <2>4. CASE pc[c] = "commit" /\ next[c] > Len(plan[c]) /\ pc'[c] = "ok"
    BY <1>4, <2>4 DEF ProgressTable
  <2>5. CASE pc[c] \in {"rollback", "failed"} /\ pc'[c] \in {"rollback", "failed"}
    BY <1>4, <2>5 DEF ProgressTable
  <2>6. QED
    BY <1>1, <2>1, <2>2, <2>3, <2>4, <2>5, QuietShape
<1>9. QED
  BY <1>5, <1>6, <1>7, <1>8

(* What a command that is alone has replaced and what it has not.            *)
LEMMA RenameAlone ==
  ASSUME PublicationInv, PublicationInv', serial, NEW c \in Calls, Rename(c),
         UNCHANGED <<serial, manifest, stale, cleaning, exit>>
  PROVE  /\ Shown' \in {c, Absent} /\ (next[c] > 1 => Shown = Absent)
         /\ Shown' = c <=> c \in Scans /\ next[c] = Len(plan[c])
<1> DEFINE here == next[c]
           to   == plan[c][here]
           last == Len(plan[c])
<1>1. /\ pc[c] = "commit" /\ here \in 1..last /\ last \in Nat
      /\ to \in Paths /\ disk'[to] = c
      /\ \A p \in Paths : p # to => disk'[p] = disk[p]
      /\ next'[c] = here + 1
      /\ UNCHANGED <<pc, plan, removing, aborted, error>>
      /\ \A i, j \in 1..last : i # j => plan[c][i] # plan[c][j]
      /\ \A d \in Calls : \A i \in 1..Len(plan[d]) : plan[d][i] \in Paths
      /\ PlanMade(c) /\ Started(c) /\ ~Settled(c)
  BY RenameShape
<1>2. /\ 1 \in 1..last /\ last \in 1..last /\ plan[c][1] = Catalogue
      /\ c \in Scans => plan[c][last] = Bundle
  BY <1>1 DEF PlanMade
<1>3. ShownFound /\ ShownFound'
  BY ShownIsFound, ShownIsFoundNext
<1>4. Bundle \in Paths /\ Catalogue \in Paths /\ Scans \subseteq Calls /\ Bundle # Catalogue
  BY CommandsAssumption, NamesAssumption
<1>5. \A i \in 1..last : i < here => disk[plan[c][i]] = c
  BY <1>1 DEF PublicationInv, Own
<1>6. \A i \in 1..last : i <= here => disk'[plan[c][i]] = c
  BY <1>1, <1>5
<1>7. disk'[Catalogue] = c /\ (here > 1 => disk[Catalogue] = c)
  <2>1. 1 <= here
    BY <1>1
  <2>2. QED
    BY <1>2, <1>5, <1>6, <2>1
<1>8. c \in Scans => disk[Bundle] # c /\ (here # last => disk'[Bundle] # c)
  <2>1. SUFFICES ASSUME c \in Scans PROVE disk[Bundle] # c /\ (here # last => disk'[Bundle] # c)
    OBVIOUS
  <2>2. disk[Bundle] # c
    BY <1>1, <1>2, <2>1 DEF PublicationInv, NotYet
  <2>3. here # last => to # Bundle
    BY <1>1, <1>2, <2>1
  <2>4. QED
    BY <1>1, <1>4, <2>2, <2>3
<1>9. Shown' \in {c, Absent} /\ (Shown' = c => c \in Scans /\ here = last)
  <2>1. Shown' \in Scans => Shown' = c /\ disk'[Bundle] = c
    BY <1>3, <1>7 DEF ShownFound
  <2>2. Shown' \in Scans \cup {Absent} /\ Absent \notin Calls
    BY <1>3, ContentsAssumption DEF ShownFound
  <2>3. QED
    BY <1>8, <2>1, <2>2
<1>10. here > 1 => Shown = Absent
  <2>1. here > 1 /\ Shown \in Scans => Shown = c /\ disk[Bundle] = c
    BY <1>3, <1>7 DEF ShownFound
  <2>2. Shown \in Scans \cup {Absent}
    BY <1>3 DEF ShownFound
  <2>3. QED
    BY <1>8, <2>1, <2>2
<1>11. ASSUME c \in Scans, here = last PROVE Shown' = c
  <2>1. \A i \in 1..last : disk'[plan[c][i]] = c
    BY <1>1, <1>6, <1>11
  <2>2. DOMAIN plan'[c] = 1..last
    BY <1>1 DEF PublicationInv, PublicationType, TypeOK
  <2>3. Intact(c)'
    BY <1>1, <2>1, <2>2 DEF Intact, Listed
  <2>4. disk'[Bundle] = c
    BY <1>2, <1>11, <2>1
  <2>5. QED
    BY <1>3, <1>11, <2>3, <2>4 DEF ShownFound
<1>12. QED
  BY <1>9, <1>10, <1>11

LEMMA RenameMapped ==
  ASSUME PublicationInv, PublicationInv', serial, NEW c \in Calls, Rename(c),
         UNCHANGED <<serial, manifest, stale, cleaning, exit>>
  PROVE  [Promise!AbstractNext]_(Promise!absVars)
<1>1. /\ pc[c] = "commit" /\ next[c] \in 1..Len(plan[c]) /\ Len(plan[c]) \in Nat
      /\ next'[c] = next[c] + 1 /\ \A d \in Calls \ {c} : next'[d] = next[d]
      /\ UNCHANGED <<pc, plan>> /\ PlanMade(c)
  BY RenameShape
<1>2. /\ Shown' \in {c, Absent} /\ (next[c] > 1 => Shown = Absent)
      /\ Shown' = c <=> c \in Scans /\ next[c] = Len(plan[c])
  BY RenameAlone
<1>3. \A d \in Calls \ {c} : Progress(d)' = Progress(d)
  BY <1>1, ProgressKept
<1>4. ProgressTable /\ ProgressTable'
  BY ProgressIs, ProgressIsNext
<1>5. Absent \notin Calls /\ Len(plan[c]) \in Nat /\ Len(plan[c]) >= 2
  BY <1>1, ContentsAssumption DEF PlanMade
<1>6. CASE next[c] = 1
  <2>1. next'[c] = 2 /\ next[c] # Len(plan[c])
    <3>1. next'[c] = 1 + 1
      BY <1>1, <1>6
    <3>2. Len(plan[c]) # 1
      <4>1. \A n \in Nat : n >= 2 => n # 1
        OBVIOUS
      <4>2. QED
        BY <1>5, <4>1
    <3>3. QED
      BY <1>6, <3>1, <3>2
  <2>2. Progress(c) = "preparing" /\ Progress(c)' = "replacing"
    BY <1>1, <1>4, <1>5, <1>6, <2>1 DEF ProgressTable
  <2>3. Shown' = Absent
    BY <1>2, <2>1
  <2>4. Promise!Replace(c)
    BY <1>3, <2>2, <2>3, MoveMapped DEF Promise!Replace
  <2>5. QED
    BY <2>4, CommandsAssumption DEF Promise!AbstractNext, Promise!Publishers
<1>7. CASE next[c] > 1 /\ next[c] # Len(plan[c])
  <2>1. next[c] <= Len(plan[c]) /\ 1 < next'[c] /\ next'[c] <= Len(plan[c])
    BY <1>1, <1>7
  <2>2. Progress(c) = "replacing" /\ Progress(c)' = "replacing"
    BY <1>1, <1>4, <1>7, <2>1 DEF ProgressTable
  <2>3. Shown = Absent /\ Shown' = Absent
    BY <1>2, <1>7
  <2>4. QED
    BY <1>3, <2>2, <2>3, StutterMapped
<1>8. CASE next[c] > 1 /\ next[c] = Len(plan[c])
  <2>1. next[c] <= Len(plan[c]) /\ next'[c] > Len(plan[c])
    BY <1>1, <1>8
  <2>2. Progress(c) = "replacing" /\ Progress(c)' = "published"
    BY <1>1, <1>4, <1>8, <2>1 DEF ProgressTable
  <2>3. Shown' = IF c \in Scans THEN c ELSE Absent
    BY <1>2, <1>8
  <2>4. Promise!Publish(c)
    BY <1>3, <2>2, <2>3, MoveMapped DEF Promise!Publish
  <2>5. QED
    BY <2>4, CommandsAssumption DEF Promise!AbstractNext, Promise!Publishers
<1>9. QED
  BY <1>1, <1>6, <1>7, <1>8

LEMMA StepMapped ==
  PublicationInv /\ PublicationInv' /\ [PublicationNext]_pubVars
    => [Promise!AbstractNext]_(Promise!absVars)
<1> SUFFICES ASSUME PublicationInv, PublicationInv', [PublicationNext]_pubVars
             PROVE  [Promise!AbstractNext]_(Promise!absVars)
  OBVIOUS
<1>1. serial' = serial
  BY SerialKept
<1>2. CASE ~serial
  BY <1>1, <1>2, OverlapMapped
<1>3. CASE serial
  <2>1. ASSUME NEW c \in Calls, NEW selected \in SUBSET Traces, Prepare(c, selected)
        PROVE  [Promise!AbstractNext]_(Promise!absVars)
    BY <1>3, <2>1, PrepareMapped
  <2>2. ASSUME NEW c \in Calls, QuietStep(c)
        PROVE  [Promise!AbstractNext]_(Promise!absVars)
    BY <1>1, <1>3, <2>2, QuietMapped
  <2>3. ASSUME NEW c \in Calls, Rename(c), UNCHANGED <<serial, manifest, stale, cleaning, exit>>
        PROVE  [Promise!AbstractNext]_(Promise!absVars)
    BY <1>3, <2>3, RenameMapped
  <2>4. ASSUME NEW c \in Calls, RemoveStale(c) \/ EndStep(c) PROVE UNCHANGED Promise!absVars
    BY <1>3, <2>4, RemoveStaleMapped, EndMapped
  <2>5. ASSUME NEW c \in Calls, Kill(c) PROVE [Promise!AbstractNext]_(Promise!absVars)
    BY <1>3, <2>5, KillMapped
  <2>6. ASSUME NEW t \in Traces, UserAddsFile(t) PROVE UNCHANGED Promise!absVars
    BY <2>6, UserAddsFileMapped
  <2>7. ASSUME UNCHANGED pubVars PROVE UNCHANGED Promise!absVars
    <3>1. UNCHANGED <<disk, plan, pc, next, serial>>
      BY <2>7 DEF pubVars, vars
    <3>2. QED
      BY <3>1, ShownStays, ProgressKept, StutterMapped
  <2>8. QED
    BY <2>1, <2>2, <2>3, <2>4, <2>5, <2>6, <2>7, PublicationSteps
<1>4. QED
  BY <1>2, <1>3

(* Whoever trusts bundle.json and the hashes it lists is shown what           *)
(* BundlePublication promises: whole bundles only, the previous one until    *)
(* the first rename of the next command, and nothing after a command broke   *)
(* off among its renames.                                                    *)
THEOREM WholeBundlesShown == PublicationSpec => ImplementsBundlePublication
BY InitMapped, StepMapped, PublicationInvariance, PTL
   DEF PublicationSpec, ImplementsBundlePublication, Promise!AbstractSpec
=============================================================================

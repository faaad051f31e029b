-------------------------- MODULE ConfigurationInit --------------------------
(***************************************************************************)
(* api-intel init (initializeProject, src/src/initialization.ts): runs     *)
(* that may create the configuration of a project, while the user edits it *)
(* and runs are aborted or die.                                            *)
(*                                                                         *)
(* The file is written under a temporary name of its own and then linked   *)
(* to its place, which fails if there is anything there.                   *)
(***************************************************************************)
EXTENDS Naturals, FiniteSets

CONSTANTS
  Runs,
  User,         (* Whoever edits the file by hand; not a run.               *)
  MaxEdits      (* A bound on the changes the user makes.                   *)

ASSUME RunsAssumption == User \notin Runs /\ IsFiniteSet(Runs)

ASSUME EditsAssumption == MaxEdits \in Nat

VARIABLES
  pc,           (* Where each run is.                                       *)
  result,       (* What it reports, or will; "none" before that.            *)
  temporary,    (* Its temporary file: "absent", "partial" or "whole".      *)
  file,         (* The configuration: {} or {[by, whole]}.                  *)
  created,      (* The runs that have linked a file to its place.           *)
  removed,      (* How often the user has removed the file.                 *)
  edits

vars == <<pc, result, temporary, file, created, removed, edits>>

Results == {"existing_configuration", "blocked", "ready", "written"}

TypeOK ==
  /\ pc \in [Runs -> {"look", "open", "write", "link", "unlink", "done", "aborted", "dead"}]
  /\ result \in [Runs -> Results \cup {"none"}]
  /\ \A r \in Runs : pc[r] \in {"unlink", "done"} => result[r] \in Results
  /\ temporary \in [Runs -> {"absent", "partial", "whole"}]
  /\ file \in {{}} \cup {{c} : c \in [by : Runs \cup {User}, whole : BOOLEAN]}
  /\ created \subseteq Runs
  /\ removed \in Nat
  /\ edits \in 0..MaxEdits

Init ==
  /\ pc = [r \in Runs |-> "look"]
  /\ result = [r \in Runs |-> "none"]
  /\ temporary = [r \in Runs |-> "absent"]
  /\ file = {} /\ created = {} /\ removed = 0 /\ edits = 0

-----------------------------------------------------------------------------
(* Steps of a run.                                                         *)

Go(r, from, to) == pc[r] = from /\ pc' = [pc EXCEPT ![r] = to]

Say(r, what) == result' = [result EXCEPT ![r] = what]

(* The preflight, and the first look for a configuration.  Whether the     *)
(* preflight finds nothing that blocks, and whether the run is to write,   *)
(* is open.                                                                *)
Look(r) ==
  /\ \/ Go(r, "look", "done") /\ file # {} /\ Say(r, "existing_configuration")
     \/ Go(r, "look", "done") /\ file = {} /\ \E what \in {"blocked", "ready"} : Say(r, what)
     \/ Go(r, "look", "open") /\ file = {} /\ UNCHANGED result
  /\ UNCHANGED <<temporary, file, created, removed, edits>>

(* The signal is looked at before anything is written.                     *)
Abort(r) ==
  /\ Go(r, "open", "aborted")
  /\ UNCHANGED <<result, temporary, file, created, removed, edits>>

Open(r) ==
  /\ Go(r, "open", "write")
  /\ temporary' = [temporary EXCEPT ![r] = "partial"]
  /\ UNCHANGED <<result, file, created, removed, edits>>

(* Mutant of Write: the write is not waited for.                           *)
Write_Partial(r) ==
  /\ Go(r, "write", "link")
  /\ UNCHANGED <<result, temporary, file, created, removed, edits>>

Write(r) ==
  /\ Go(r, "write", "link")
  /\ temporary' = [temporary EXCEPT ![r] = "whole"]
  /\ UNCHANGED <<result, file, created, removed, edits>>

(* open, writeFile, sync or close fails: the run is blocked, and the       *)
(* temporary file is removed if it can be.  A signal that has come by then *)
(* ends the run with its reason instead.                                   *)
Fail(r) ==
  /\ \/ Go(r, "open", "done") /\ Say(r, "blocked")
     \/ Go(r, "write", "done") /\ Say(r, "blocked")
     \/ Go(r, "open", "aborted") /\ UNCHANGED result
     \/ Go(r, "write", "aborted") /\ UNCHANGED result
  /\ \E t \in {"absent", temporary[r]} : temporary' = [temporary EXCEPT ![r] = t]
  /\ UNCHANGED <<file, created, removed, edits>>

(* Mutant of Link: the file is renamed to its place.                       *)
Link_Rename(r) ==
  /\ Go(r, "link", "unlink")
  /\ file' = {[by |-> r, whole |-> temporary[r] = "whole"]}
  /\ created' = created \cup {r} /\ Say(r, "written")
  /\ UNCHANGED <<temporary, removed, edits>>

(* Mutant of Link: what the first look found is relied upon.               *)
Link_Unchecked(r) ==
  /\ Go(r, "link", "unlink")
  /\ file' = IF file = {} THEN {[by |-> r, whole |-> temporary[r] = "whole"]} ELSE file
  /\ created' = IF file = {} THEN created \cup {r} ELSE created
  /\ Say(r, "written")
  /\ UNCHANGED <<temporary, removed, edits>>

Link(r) ==
  /\ Go(r, "link", "unlink")
  /\ \/ /\ file = {}
        /\ file' = {[by |-> r, whole |-> temporary[r] = "whole"]}
        /\ created' = created \cup {r} /\ Say(r, "written")
     \/ file # {} /\ Say(r, "existing_configuration") /\ UNCHANGED <<file, created>>
     \/ Say(r, "blocked") /\ UNCHANGED <<file, created>>
  /\ UNCHANGED <<temporary, removed, edits>>

(* The temporary file is removed if it can be.  A run that could not link  *)
(* its file may find that it was aborted.                                  *)
Unlink(r) ==
  /\ \/ Go(r, "unlink", "done") /\ UNCHANGED result
     \/ result[r] = "blocked" /\ Go(r, "unlink", "aborted") /\ Say(r, "none")
  /\ \E t \in {"absent", temporary[r]} : temporary' = [temporary EXCEPT ![r] = t]
  /\ UNCHANGED <<file, created, removed, edits>>

(* The process is killed, or the preflight or the first look fails.        *)
Die(r) ==
  /\ pc[r] \notin {"done", "aborted", "dead"}
  /\ pc' = [pc EXCEPT ![r] = "dead"] /\ Say(r, "none")
  /\ UNCHANGED <<temporary, file, created, removed, edits>>

(* The user writes the file, slowly perhaps, or removes it.                *)
Edit ==
  /\ edits < MaxEdits /\ edits' = edits + 1
  /\ \/ /\ \E w \in BOOLEAN : file' = {[by |-> User, whole |-> w]}
        /\ UNCHANGED removed
     \/ file # {} /\ file' = {} /\ removed' = removed + 1
  /\ UNCHANGED <<pc, result, temporary, created>>

Step(r) ==
  \/ Look(r) \/ Abort(r) \/ Open(r) \/ Write(r) \/ Fail(r) \/ Link(r) \/ Unlink(r) \/ Die(r)

Next == Edit \/ \E r \in Runs : Step(r)

Spec == Init /\ [][Next]_vars

-----------------------------------------------------------------------------
(* Properties.                                                             *)

(* No run changes or removes a configuration that is there.                *)
NeverOverwritten == [][file # {} /\ file' # file => edits' # edits]_vars

(* A configuration made by a run is never seen half written, whenever the  *)
(* run dies.                                                               *)
WholeFile == \A c \in file : c.by # User => c.whole

(* A run that ends says that it wrote the configuration exactly if it did. *)
HonestReport ==
  \A r \in Runs : pc[r] = "done" => (result[r] = "written" <=> r \in created)

(* Runs that race create one configuration, and another only after the     *)
(* user has removed it.                                                    *)
OneWinner == Cardinality(created) <= removed + 1
=============================================================================

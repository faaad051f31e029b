--------------------------- MODULE BundlePublication ---------------------------
(***************************************************************************)
(* What publishing promises to a reader who trusts bundle.json and checks  *)
(* the hashes it lists: the directory shows either the bundle of one scan  *)
(* that completed, or no bundle at all while another command is replacing  *)
(* the files, or after it broke off doing so.  Nothing is shown of a scan  *)
(* that gave up before it replaced a file.  A report into the directory    *)
(* replaces listed files and leaves nothing to show until the next scan.   *)
(***************************************************************************)
CONSTANTS
  Bundlers,    (* The scans that publish to one output directory.           *)
  Rewriters,   (* The reports that do.                                      *)
  NoBundle     (* What is shown when no listed set of files is intact.      *)

VARIABLES
  current,     (* The scan whose bundle is shown, or NoBundle.              *)
  state        (* state[s]: how far command s has come.                     *)

absVars == <<current, state>>

Publishers == Bundlers \cup Rewriters

Active == {"preparing", "replacing"}

AbstractInit ==
  /\ current = NoBundle
  /\ state = [s \in Publishers |-> "waiting"]

Move(s, from, to) ==
  /\ state[s] = from
  /\ state' = [state EXCEPT ![s] = to]

(* Commands on one directory are run one after the other.                  *)
Start(s) ==
  /\ \A other \in Publishers : state[other] \notin Active
  /\ Move(s, "waiting", "preparing")
  /\ UNCHANGED current

(* Canceled, or failed, before a file was replaced: the bundle that was    *)
(* there is still there.                                                   *)
GiveUp(s) == Move(s, "preparing", "ended") /\ UNCHANGED current

Replace(s) == Move(s, "preparing", "replacing") /\ current' = NoBundle

Publish(s) ==
  /\ Move(s, "replacing", "published")
  /\ current' = IF s \in Bundlers THEN s ELSE NoBundle

(* The file system failed, or the process was killed, among the renames.   *)
BreakOff(s) == Move(s, "replacing", "ended") /\ UNCHANGED current

AbstractNext ==
  \E s \in Publishers :
    Start(s) \/ GiveUp(s) \/ Replace(s) \/ Publish(s) \/ BreakOff(s)

AbstractSpec == AbstractInit /\ [][AbstractNext]_absVars
=============================================================================

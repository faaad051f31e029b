----------------------- MODULE ConfigurationInit_proofs -----------------------
(***************************************************************************)
(* Proofs about ConfigurationInit, for every set of runs.                  *)
(***************************************************************************)
EXTENDS ConfigurationInit, FiniteSetTheorems, TLAPS

(* What a run has done, by where it is: it has not created the file before *)
(* it links, its temporary file is whole when it does, and from then on it *)
(* says "written" exactly if it has.                                       *)
Progress ==
  \A r \in Runs :
    /\ pc[r] \in {"look", "open", "write", "link"} => r \notin created
    /\ pc[r] = "link" => temporary[r] = "whole"
    /\ pc[r] \in {"unlink", "done"} => (result[r] = "written" <=> r \in created)

(* While the file is there, one creation is not yet paid for by a removal. *)
Paid == Cardinality(created) <= removed + (IF file = {} THEN 0 ELSE 1)

Inv == TypeOK /\ Progress /\ WholeFile /\ Paid

-----------------------------------------------------------------------------
(* The set of runs that have created the file stays finite.                *)
LEMMA CreatedFinite ==
  ASSUME TypeOK
  PROVE  /\ IsFiniteSet(created) /\ Cardinality(created) \in Nat
         /\ \A r \in Runs :
              r \notin created => Cardinality(created \cup {r}) = Cardinality(created) + 1
<1>1. IsFiniteSet(created)
  BY RunsAssumption, FS_Subset DEF TypeOK
<1>2. Cardinality(created) \in Nat
  BY <1>1, FS_CardinalityType
<1>3. ASSUME NEW r \in Runs, r \notin created
      PROVE  Cardinality(created \cup {r}) = Cardinality(created) + 1
  BY <1>1, <1>3, FS_AddElement
<1>4. QED
  BY <1>1, <1>2, <1>3

LEMMA InitInv == Init => Inv
<1>1. SUFFICES ASSUME Init PROVE Inv
  OBVIOUS
<1>2. TypeOK
  BY <1>1, EditsAssumption DEF Init, TypeOK, Results
<1>3. Progress /\ WholeFile
  BY <1>1 DEF Init, Progress, WholeFile
<1>4. Paid
  BY <1>1, FS_EmptySet DEF Init, Paid
<1>5. QED
  BY <1>2, <1>3, <1>4 DEF Inv

(* Steps that neither touch the file nor report anything new.              *)
LEMMA QuietStep ==
  ASSUME Inv, NEW r \in Runs, Abort(r) \/ Open(r) \/ Write(r) \/ Fail(r) \/ Die(r)
  PROVE  Inv'
<1>1. /\ file' = file /\ created' = created /\ removed' = removed /\ edits' = edits
  BY DEF Abort, Open, Write, Fail, Die
<1>2. TypeOK'
  <2>1. CASE Abort(r)
    BY <2>1 DEF Inv, TypeOK, Abort, Go
  <2>2. CASE Open(r)
    BY <2>2 DEF Inv, TypeOK, Open, Go
  <2>3. CASE Write(r)
    BY <2>3 DEF Inv, TypeOK, Write, Go
  <2>4. CASE Fail(r)
    BY <2>4 DEF Inv, TypeOK, Fail, Go, Say, Results
  <2>5. CASE Die(r)
    BY <2>5 DEF Inv, TypeOK, Die, Say, Results
  <2>6. QED
    BY <2>1, <2>2, <2>3, <2>4, <2>5
<1>3. Progress'
  <2>1. CASE Abort(r)
    BY <1>1, <2>1 DEF Inv, TypeOK, Progress, Abort, Go
  <2>2. CASE Open(r)
    BY <1>1, <2>2 DEF Inv, TypeOK, Progress, Open, Go
  <2>3. CASE Write(r)
    BY <1>1, <2>3 DEF Inv, TypeOK, Progress, Write, Go
  <2>4. CASE Fail(r)
    BY <1>1, <2>4 DEF Inv, TypeOK, Progress, Fail, Go, Say
  <2>5. CASE Die(r)
    BY <1>1, <2>5 DEF Inv, TypeOK, Progress, Die, Say
  <2>6. QED
    BY <2>1, <2>2, <2>3, <2>4, <2>5
<1>4. WholeFile' /\ Paid'
  BY <1>1 DEF Inv, WholeFile, Paid
<1>5. QED
  BY <1>2, <1>3, <1>4 DEF Inv

LEMMA LookStep == ASSUME Inv, NEW r \in Runs, Look(r) PROVE Inv'
<1>1. TypeOK'
  BY DEF Inv, TypeOK, Look, Go, Say, Results
<1>2. Progress'
  BY DEF Inv, TypeOK, Progress, Look, Go, Say
<1>3. WholeFile' /\ Paid'
  BY DEF Inv, WholeFile, Paid, Look
<1>4. QED
  BY <1>1, <1>2, <1>3 DEF Inv

LEMMA LinkStep == ASSUME Inv, NEW r \in Runs, Link(r) PROVE Inv'
<1>1. pc[r] = "link" /\ r \notin created /\ temporary[r] = "whole"
  BY DEF Inv, Progress, Link, Go
<1>2. CASE file = {} /\ file' # {}
  <2>1. /\ file' = {[by |-> r, whole |-> TRUE]}
        /\ created' = created \cup {r} /\ Say(r, "written")
        /\ pc' = [pc EXCEPT ![r] = "unlink"]
        /\ UNCHANGED <<temporary, removed, edits>>
    BY <1>1, <1>2 DEF Link, Go
  <2>2. TypeOK'
    BY <2>1 DEF Inv, TypeOK, Say, Results
  <2>3. Progress'
    BY <1>1, <2>1 DEF Inv, TypeOK, Progress, Say
  <2>4. WholeFile'
    BY <2>1 DEF WholeFile
  <2>5. Paid'
    <3>1. Cardinality(created') = Cardinality(created) + 1 /\ Cardinality(created) \in Nat
      BY <1>1, <2>1, CreatedFinite DEF Inv
    <3>2. Cardinality(created) <= removed /\ removed' = removed /\ removed \in Nat
      BY <1>2, <2>1, <3>1 DEF Inv, Paid, TypeOK
    <3>3. QED
      BY <1>2, <3>1, <3>2 DEF Paid
  <2>6. QED
    BY <2>2, <2>3, <2>4, <2>5 DEF Inv
<1>3. CASE file' = file
  <2>1. /\ created' = created /\ \E what \in {"existing_configuration", "blocked"} : Say(r, what)
        /\ pc' = [pc EXCEPT ![r] = "unlink"]
        /\ UNCHANGED <<temporary, removed, edits>>
    BY <1>3 DEF Link, Go
  <2>2. TypeOK'
    BY <1>3, <2>1 DEF Inv, TypeOK, Say, Results
  <2>3. Progress'
    BY <1>1, <2>1 DEF Inv, TypeOK, Progress, Say
  <2>4. WholeFile' /\ Paid'
    BY <1>3, <2>1 DEF Inv, WholeFile, Paid
  <2>5. QED
    BY <2>2, <2>3, <2>4 DEF Inv
<1>4. QED
  BY <1>2, <1>3 DEF Link

LEMMA UnlinkStep == ASSUME Inv, NEW r \in Runs, Unlink(r) PROVE Inv'
<1>1. TypeOK'
  BY DEF Inv, TypeOK, Unlink, Go, Say, Results
<1>2. Progress'
  BY DEF Inv, TypeOK, Progress, Unlink, Go, Say
<1>3. WholeFile' /\ Paid'
  BY DEF Inv, WholeFile, Paid, Unlink
<1>4. QED
  BY <1>1, <1>2, <1>3 DEF Inv

LEMMA EditStep == ASSUME Inv, Edit PROVE Inv'
<1>1. UNCHANGED <<pc, result, temporary, created>>
  BY DEF Edit
<1>2. TypeOK'
  BY <1>1, EditsAssumption DEF Inv, TypeOK, Edit
<1>3. Progress'
  BY <1>1 DEF Inv, Progress
<1>4. WholeFile'
  BY DEF Inv, WholeFile, Edit
<1>5. Paid'
  <2>1. Cardinality(created) \in Nat /\ removed \in Nat
    BY CreatedFinite DEF Inv, TypeOK
  <2>2. Cardinality(created') = Cardinality(created)
    BY <1>1
  <2>3. CASE file' # {} /\ removed' = removed
    BY <2>1, <2>2, <2>3 DEF Inv, Paid
  <2>4. CASE file # {} /\ file' = {} /\ removed' = removed + 1
    BY <2>1, <2>2, <2>4 DEF Inv, Paid
  <2>5. QED
    BY <2>3, <2>4 DEF Edit
<1>6. QED
  BY <1>2, <1>3, <1>4, <1>5 DEF Inv

(* Types, progress, whole files and paid creations hold throughout.        *)
THEOREM Invariance == Spec => []Inv
<1>1. Inv /\ [Next]_vars => Inv'
  <2>1. SUFFICES ASSUME Inv, [Next]_vars PROVE Inv'
    OBVIOUS
  <2>2. CASE UNCHANGED vars
    BY <2>1, <2>2 DEF Inv, vars, TypeOK, Progress, WholeFile, Paid
  <2>3. CASE Next
    BY <2>1, <2>3, EditStep, LookStep, QuietStep, LinkStep, UnlinkStep DEF Next, Step
  <2>4. QED
    BY <2>1, <2>2, <2>3
<1>2. QED
  BY InitInv, <1>1, PTL DEF Spec

(* The variables keep their types.                                         *)
THEOREM TypeCorrect == Spec => []TypeOK
<1>1. Inv => TypeOK
  BY DEF Inv
<1>2. QED
  BY Invariance, <1>1, PTL

(* However many runs race with one another and with the user, and wherever *)
(* they die, none leaves half a configuration in place.                    *)
THEOREM AlwaysWhole == Spec => []WholeFile
<1>1. Inv => WholeFile
  BY DEF Inv
<1>2. QED
  BY Invariance, <1>1, PTL

(* A run that ends says "written" exactly if it created the configuration. *)
THEOREM ReportsHonestly == Spec => []HonestReport
<1>1. Inv => HonestReport
  BY DEF Inv, Progress, HonestReport
<1>2. QED
  BY Invariance, <1>1, PTL

(* At most one run creates the configuration between two removals.         *)
THEOREM RaceHasOneWinner == Spec => []OneWinner
<1>1. Inv => OneWinner
  BY CreatedFinite DEF Inv, Paid, OneWinner, TypeOK
<1>2. QED
  BY Invariance, <1>1, PTL

(* No step of a run changes a configuration that is there.                 *)
THEOREM NeverOverwrites == Spec => NeverOverwritten
<1>1. Inv /\ [Next]_vars => [file # {} /\ file' # file => edits' # edits]_vars
  <2>1. SUFFICES ASSUME Inv, Next, file # {}, file' # file PROVE edits' # edits
    BY DEF vars
  <2>2. ASSUME NEW r \in Runs, Step(r) PROVE file' = file
    BY <2>1, <2>2 DEF Step, Look, Abort, Open, Write, Fail, Link, Unlink, Die
  <2>3. CASE Edit
    BY <2>1, <2>3 DEF Edit, Inv, TypeOK
  <2>4. QED
    BY <2>1, <2>2, <2>3 DEF Next
<1>2. QED
  BY Invariance, <1>1, PTL DEF Spec, NeverOverwritten
=============================================================================

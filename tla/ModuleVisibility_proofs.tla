----------------------- MODULE ModuleVisibility_proofs -----------------------
(***************************************************************************)
(* Proofs about ModuleVisibility: type correctness, and that the exports   *)
(* are the least family closed under re-exporting, for all module graphs.  *)
(***************************************************************************)
EXTENDS ModuleVisibility, TLAPS

(* What the loop over exports maintains: nothing declared is lost, nothing *)
(* is there that a closed family lacks, and the modules that a round has   *)
(* passed without a change have nothing left to gather.                    *)
ExportsInv ==
  /\ \A m \in Modules : graph.exportsClasses[m] \subseteq exported[m]
  /\ \A family \in [Modules -> SUBSET Classes] :
       Closed(family) => \A m \in Modules : exported[m] \subseteq family[m]
  /\ phase = "exports" /\ ~changed =>
       \A k \in 1..(cursor - 1) : \A x \in graph.exportsModules[Order[k]] :
         exported[x] \subseteq exported[Order[k]]
  /\ phase # "exports" => Closed(exported)

GraphType == GraphOK(graph)

(* The recursion runs in its own phase only.                               *)
StackInPhase == stack # <<>> => phase = "completeness"

Inv == GraphType /\ TypeOK /\ StackInPhase /\ ExportsInv

-----------------------------------------------------------------------------
(* What the stack becomes keeps its type, and no module is on it twice.    *)

Frames == [module : Modules, left : Seq(Modules)]

(* No two activations of moduleComplete are for one module.                *)
Distinct(s) == \A j, k \in DOMAIN s : s[j].module = s[k].module => j = k

(* Ending the activation on top keeps the stack well formed.               *)
LEMMA PopKeeps ==
  ASSUME NEW s \in Seq(Frames), s # <<>>, Distinct(s)
  PROVE  /\ SubSeq(s, 1, Len(s) - 1) \in Seq(Frames)
         /\ Len(SubSeq(s, 1, Len(s) - 1)) = Len(s) - 1
         /\ \A k \in 1..(Len(s) - 1) : SubSeq(s, 1, Len(s) - 1)[k] = s[k]
         /\ Distinct(SubSeq(s, 1, Len(s) - 1))
<1> DEFINE t == SubSeq(s, 1, Len(s) - 1)
<1>1. Len(s) \in Nat \ {0} /\ DOMAIN s = 1..Len(s) /\ \A k \in 1..Len(s) : s[k] \in Frames
  OBVIOUS
<1>2. t = [k \in 1..(Len(s) - 1) |-> s[k]] /\ Len(t) = Len(s) - 1
  BY <1>1
<1>3. t \in Seq(Frames)
  BY <1>1
<1>4. DOMAIN t = 1..(Len(s) - 1) /\ \A k \in 1..(Len(s) - 1) : t[k] = s[k]
  BY <1>1, <1>2
<1>5. Distinct(t)
  BY <1>1, <1>4 DEF Distinct
<1> QED BY <1>2, <1>3, <1>4, <1>5

(* Beginning an activation for a module that has none, too.                *)
LEMMA PushKeeps ==
  ASSUME NEW s \in Seq(Frames), Distinct(s), NEW f \in Frames,
         \A k \in DOMAIN s : s[k].module # f.module
  PROVE  Append(s, f) \in Seq(Frames) /\ Distinct(Append(s, f))
<1>1. Append(s, f) \in Seq(Frames) /\ Len(Append(s, f)) = Len(s) + 1 /\ Len(s) \in Nat
  OBVIOUS
<1>2. DOMAIN Append(s, f) = 1..(Len(s) + 1) /\ DOMAIN s = 1..Len(s)
  OBVIOUS
<1>3. \A k \in 1..(Len(s) + 1) : Append(s, f)[k] = IF k <= Len(s) THEN s[k] ELSE f
  OBVIOUS
<1>4. ASSUME NEW j \in 1..(Len(s) + 1), NEW k \in 1..(Len(s) + 1),
             Append(s, f)[j].module = Append(s, f)[k].module
      PROVE  j = k
  BY <1>1, <1>2, <1>3, <1>4 DEF Distinct
<1> QED BY <1>1, <1>2, <1>4 DEF Distinct

-----------------------------------------------------------------------------
LEMMA InitInv == Init => Inv
<1> SUFFICES ASSUME Init PROVE Inv
  OBVIOUS
<1>1. GraphOK(graph)
  BY GraphsAssumption DEF Init
<1>2. Len(Order) \in Nat
  BY OrderAssumption
<1>3. TypeOK
  <2>1. stack \in Seq(Frames) /\ DOMAIN stack = {} /\ 1 \in 1..(Len(Order) + 1)
    BY <1>2 DEF Init
  <2> QED BY <1>1, <2>1 DEF Init, TypeOK, GraphOK, Frames
<1>4. ExportsInv
  BY <1>1 DEF Init, ExportsInv, Closed, GraphOK
<1> QED BY <1>1, <1>3, <1>4 DEF Inv, GraphType, StackInPhase, Init

(* The actions of the completeness phase leave the exports alone.          *)
LEMMA ExportsKept ==
  ASSUME ExportsInv, UNCHANGED <<graph, exported, changed>>,
         phase # "exports", phase' # "exports"
  PROVE  ExportsInv'
<1>1. Closed(exported)' <=> Closed(exported)
  BY DEF Closed
<1>2. \A family \in [Modules -> SUBSET Classes] : Closed(family)' <=> Closed(family)
  BY DEF Closed
<1> QED BY <1>1, <1>2 DEF ExportsInv

LEMMA PassOnInv == Inv /\ PassOn => Inv'
<1> SUFFICES ASSUME Inv, PassOn PROVE Inv'
  OBVIOUS
<1> USE DEF GraphType
<1> DEFINE m == Order[cursor]
<1>1. Len(Order) \in Nat /\ m \in Modules /\ cursor \in 1..Len(Order)
  BY OrderAssumption DEF Inv, TypeOK, PassOn
<1>2. GraphOK(graph)' /\ graph' = graph
  BY DEF Inv, PassOn
<1>3. /\ exported' = [exported EXCEPT ![m] = Gather(m)]
      /\ exported \in [Modules -> SUBSET Classes]
      /\ Gather(m) \in SUBSET Classes
  BY <1>1 DEF Inv, TypeOK, PassOn, Gather, GraphOK
<1>4. TypeOK'
  BY <1>1, <1>3 DEF Inv, TypeOK, PassOn
<1>5. \A n \in Modules : graph'.exportsClasses[n] \subseteq exported'[n]
  BY <1>1, <1>2, <1>3 DEF Inv, ExportsInv, Gather
<1>6. ASSUME NEW family \in [Modules -> SUBSET Classes], Closed(family)', NEW n \in Modules
      PROVE  exported'[n] \subseteq family[n]
  <2>1. Closed(family)
    BY <1>2, <1>6 DEF Closed
  <2>2. \A l \in Modules : exported[l] \subseteq family[l]
    BY <2>1 DEF Inv, ExportsInv
  <2>3. graph.exportsModules[m] \subseteq Modules
    BY <1>1 DEF Inv, GraphOK
  <2>4. Gather(m) \subseteq family[m]
    BY <1>1, <2>1, <2>2, <2>3 DEF Closed, Gather
  <2> QED BY <1>1, <1>3, <2>2, <2>4
<1>7. ASSUME ~changed', NEW k \in 1..(cursor' - 1), NEW x \in graph'.exportsModules[Order[k]]
      PROVE  exported'[x] \subseteq exported'[Order[k]]
  <2>1. ~changed /\ Gather(m) = exported[m] /\ cursor' = cursor + 1
    BY <1>7 DEF PassOn
  <2>2. exported' = exported
    BY <1>1, <1>3, <2>1
  <2>3. CASE k = cursor
    BY <1>2, <1>7, <2>1, <2>2, <2>3 DEF Gather
  <2>4. CASE k # cursor
    <3>1. k \in 1..(cursor - 1)
      BY <1>1, <1>7, <2>1, <2>4
    <3> QED BY <1>2, <1>7, <2>1, <2>2, <3>1 DEF Inv, ExportsInv, PassOn
  <2> QED BY <2>3, <2>4
<1>8. ExportsInv'
  BY <1>5, <1>6, <1>7 DEF ExportsInv, PassOn
<1>20. StackInPhase'
  BY <1>1 DEF Inv, StackInPhase, PassOn
<1> QED BY <1>20, <1>2, <1>4, <1>8 DEF Inv

LEMMA EndRoundInv == Inv /\ EndRound => Inv'
<1> SUFFICES ASSUME Inv, EndRound PROVE Inv'
  OBVIOUS
<1> USE DEF GraphType
<1>1. UNCHANGED <<graph, exported>> /\ cursor' = 1 /\ changed' = FALSE /\ phase = "exports"
  BY DEF EndRound
<1>2. TypeOK'
  <2>1. Len(Order) \in Nat /\ cursor' \in 1..(Len(Order) + 1)
    BY OrderAssumption, <1>1
  <2> QED BY <1>1, <2>1 DEF Inv, TypeOK, EndRound
<1>3. \A family \in [Modules -> SUBSET Classes] : Closed(family)' <=> Closed(family)
  BY <1>1 DEF Closed
<1>4. ASSUME phase' # "exports"
      PROVE  Closed(exported)'
  <2>1. ~changed /\ cursor > Len(Order)
    BY <1>4 DEF EndRound
  <2>2. \A m \in Modules : \E k \in 1..(cursor - 1) : Order[k] = m
    <3>1. Len(Order) \in Nat /\ DOMAIN Order = 1..Len(Order)
      BY OrderAssumption
    <3>2. cursor - 1 = Len(Order)
      BY <2>1, <3>1 DEF Inv, TypeOK
    <3> QED BY OrderAssumption, <3>1, <3>2
  <2>3. \A m \in Modules : \A x \in graph.exportsModules[m] : exported[x] \subseteq exported[m]
    BY <1>1, <2>1, <2>2 DEF Inv, ExportsInv
  <2> QED BY <1>1, <2>3 DEF Closed, Inv, ExportsInv
<1>5. ExportsInv'
  BY <1>1, <1>3, <1>4 DEF Inv, ExportsInv
<1>20. StackInPhase'
  BY <1>1 DEF Inv, StackInPhase, EndRound
<1> QED BY <1>20, <1>1, <1>2, <1>5 DEF Inv

LEMMA AskModuleInv == Inv /\ AskModule => Inv'
<1> SUFFICES ASSUME Inv, AskModule PROVE Inv'
  OBVIOUS
<1> USE DEF GraphType
<1> DEFINE m == Order[cursor]
<1>1. Len(Order) \in Nat /\ m \in Modules /\ cursor \in 1..Len(Order)
  BY OrderAssumption DEF Inv, TypeOK, AskModule
<1>2. UNCHANGED <<graph, exported, changed, phase>> /\ phase # "exports" /\ stack = <<>>
  BY DEF AskModule
<1>3. stack' \in Seq(Frames) /\ Distinct(stack')
  <2>1. CASE stack' = Push(m)
    <3>1. <<>> \in Seq(Frames) /\ Distinct(<<>>) /\ DOMAIN <<>> = {}
      BY DEF Distinct
    <3>2. [module |-> m, left |-> graph.imports[m]] \in Frames
      BY <1>1 DEF Inv, GraphOK, Frames
    <3> QED BY <1>2, <2>1, <3>1, <3>2, PushKeeps DEF Push
  <2>2. CASE stack' = stack
    BY <1>2, <2>2 DEF Distinct
  <2> QED BY <2>1, <2>2 DEF AskModule
<1>4. TypeOK'
  BY <1>1, <1>2, <1>3 DEF Inv, TypeOK, AskModule, Frames, Distinct
<1>5. ExportsInv'
  BY <1>2, ExportsKept DEF Inv
<1>20. StackInPhase'
  BY <1>1 DEF Inv, StackInPhase, AskModule
<1> QED BY <1>20, <1>2, <1>4, <1>5 DEF Inv

LEMMA AskImportInv == Inv /\ AskImport => Inv'
<1> SUFFICES ASSUME Inv, AskImport PROVE Inv'
  OBVIOUS
<1> USE DEF GraphType
<1>1. /\ UNCHANGED <<graph, exported, changed, phase, cursor, memo, complete>>
      /\ phase = "completeness"
  BY DEF AskImport, Inv, StackInPhase
<1> DEFINE m    == Head(Top.left)
           rest == Append(Below, [Top EXCEPT !.left = Tail(Top.left)])
           more == [module |-> m, left |-> graph.imports[m]]
<1>2. stack \in Seq(Frames) /\ Distinct(stack) /\ stack # <<>>
  BY DEF Inv, TypeOK, AskImport, Frames, Distinct
<1>3. Top \in Frames /\ Top.left # <<>> /\ Top = stack[Len(stack)]
  BY <1>2 DEF Top, AskImport
<1>4. [Top EXCEPT !.left = Tail(Top.left)] \in Frames
  BY <1>3 DEF Frames
<1>5. m \in Modules /\ more \in Frames
  BY <1>3 DEF Frames, Inv, GraphOK
<1>6. /\ Below \in Seq(Frames) /\ Distinct(Below) /\ Len(Below) = Len(stack) - 1
      /\ \A k \in 1..(Len(stack) - 1) : Below[k] = stack[k]
  BY <1>2, PopKeeps DEF Below
<1>7. DOMAIN Below = 1..(Len(stack) - 1) /\ Len(stack) \in Nat \ {0} /\ DOMAIN stack = 1..Len(stack)
  BY <1>2, <1>6
<1>8. \A k \in DOMAIN Below : Below[k].module # Top.module
  BY <1>2, <1>3, <1>6, <1>7 DEF Distinct
<1>9. [Top EXCEPT !.left = Tail(Top.left)].module = Top.module
  BY <1>3 DEF Frames
<1>10. rest \in Seq(Frames) /\ Distinct(rest)
  BY <1>4, <1>6, <1>8, <1>9, PushKeeps
<1>11. \A k \in DOMAIN rest : k \in DOMAIN stack /\ rest[k].module = stack[k].module
  <2>1. DOMAIN rest = 1..Len(stack) /\ \A k \in 1..Len(stack) :
          rest[k] = IF k <= Len(stack) - 1 THEN Below[k]
                    ELSE [Top EXCEPT !.left = Tail(Top.left)]
    BY <1>4, <1>6, <1>7
  <2> QED BY <1>3, <1>6, <1>7, <1>9, <2>1
<1>12. stack' \in Seq(Frames) /\ Distinct(stack')
  <2>1. CASE memo[m] = "complete" \/ Visiting(m)
    BY <1>10, <2>1 DEF AskImport
  <2>2. CASE ~(memo[m] = "complete" \/ Visiting(m))
    <3>1. stack' = Append(rest, more)
      BY <2>2 DEF AskImport
    <3>2. \A k \in DOMAIN rest : rest[k].module # more.module
      BY <1>11, <2>2 DEF Visiting
    <3> HIDE DEF rest, more
    <3> QED BY <1>5, <1>10, <3>1, <3>2, PushKeeps
  <2> QED BY <2>1, <2>2
<1>13. TypeOK'
  BY <1>1, <1>12 DEF Inv, TypeOK, Frames, Distinct
<1>14. ExportsInv'
  BY <1>1, ExportsKept DEF Inv
<1>20. StackInPhase'
  BY <1>1 DEF Inv, StackInPhase, AskImport
<1> QED BY <1>20, <1>1, <1>13, <1>14 DEF Inv

LEMMA SucceedInv == Inv /\ Succeed => Inv'
<1> SUFFICES ASSUME Inv, Succeed PROVE Inv'
  OBVIOUS
<1> USE DEF GraphType
<1>1. UNCHANGED <<graph, exported, changed, phase, cursor, complete>> /\ phase = "completeness"
  BY DEF Succeed, Inv, StackInPhase
<1>2. stack \in Seq(Frames) /\ Distinct(stack) /\ stack # <<>>
  BY DEF Inv, TypeOK, Succeed, Frames, Distinct
<1>3. stack' \in Seq(Frames) /\ Distinct(stack')
  BY <1>2, PopKeeps DEF Succeed, Below
<1>4. TypeOK'
  BY <1>1, <1>3 DEF Inv, TypeOK, Frames, Distinct, Succeed
<1>5. ExportsInv'
  BY <1>1, ExportsKept DEF Inv
<1>20. StackInPhase'
  BY <1>1 DEF Inv, StackInPhase, Succeed
<1> QED BY <1>20, <1>1, <1>4, <1>5 DEF Inv

LEMMA UnwindInv == Inv /\ Unwind => Inv'
<1> SUFFICES ASSUME Inv, Unwind PROVE Inv'
  OBVIOUS
<1> USE DEF GraphType
<1>1. /\ UNCHANGED <<graph, exported, changed, phase, cursor, complete>>
      /\ stack' = <<>> /\ phase = "completeness"
  BY DEF Unwind, Inv, StackInPhase
<1>2. TypeOK'
  BY <1>1 DEF Inv, TypeOK, Unwind
<1>3. ExportsInv'
  BY <1>1, ExportsKept DEF Inv
<1>20. StackInPhase'
  BY <1>1 DEF Inv, StackInPhase, Unwind
<1> QED BY <1>20, <1>1, <1>2, <1>3 DEF Inv

LEMMA FinishInv == Inv /\ Finish => Inv'
<1> SUFFICES ASSUME Inv, Finish PROVE Inv'
  OBVIOUS
<1> USE DEF GraphType
<1>1. UNCHANGED <<graph, exported, changed, cursor, stack, memo, complete>>
      /\ phase # "exports" /\ phase' = "done"
  BY DEF Finish
<1>2. TypeOK'
  BY <1>1 DEF Inv, TypeOK
<1>3. ExportsInv'
  BY <1>1, ExportsKept DEF Inv
<1>20. StackInPhase'
  BY <1>1 DEF Inv, StackInPhase, Finish
<1> QED BY <1>20, <1>1, <1>2, <1>3 DEF Inv

-----------------------------------------------------------------------------
LEMMA NextInv == Inv /\ [Next]_vars => Inv'
<1> SUFFICES ASSUME Inv, [Next]_vars PROVE Inv'
  OBVIOUS
<1>1. CASE UNCHANGED vars
  BY <1>1 DEF vars, Inv, GraphType, TypeOK, StackInPhase, ExportsInv, Closed
<1>2. CASE Next
  BY <1>2, PassOnInv, EndRoundInv, AskModuleInv, AskImportInv, SucceedInv, UnwindInv, FinishInv
     DEF Next
<1> QED BY <1>1, <1>2

(* The invariant holds throughout.                                         *)
THEOREM Invariance == Spec => []Inv
<1> QED BY InitInv, NextInv, PTL DEF Spec

(* Type correctness; in particular no module is entered again while it is  *)
(* being visited, so that the recursion over cyclic imports ends.          *)
THEOREM TypeCorrect == Spec => []TypeOK
<1>1. Inv => TypeOK
  BY DEF Inv
<1> QED BY <1>1, Invariance, PTL

(* For every module graph, cyclic or not, the exports are in the end the   *)
(* least family that is closed under re-exporting.                         *)
THEOREM ExportsAreLeast == Spec => []ExportsLeast
<1>1. Inv => ExportsLeast
  BY DEF Inv, ExportsInv, ExportsLeast
<1> QED BY <1>1, Invariance, PTL

-----------------------------------------------------------------------------
(* What the recursion over imports maintains.                              *)

Imports(m, x) == \E j \in DOMAIN graph.imports[m] : graph.imports[m][j] = x

(* Whatever holds m and all that it imports holds unresolved metadata.     *)
Reason(m) ==
  \A ms \in SUBSET Modules : m \in ms /\ ImportClosed(ms) => ms \cap graph.incomplete # {}

(* Every activation is for a module not known yet, waits for one of its    *)
(* imports, and has only imports left to ask.                              *)
Activations ==
  \A k \in DOMAIN stack :
    /\ memo[stack[k].module] = "unknown" /\ stack[k].module \notin graph.incomplete
    /\ \A i \in DOMAIN stack[k].left : Imports(stack[k].module, stack[k].left[i])
    /\ k < Len(stack) => Imports(stack[k].module, stack[k + 1].module)

(* What an activation waits for is imported by it, directly or not.        *)
Waiting ==
  \A ms \in SUBSET Modules : ImportClosed(ms) =>
    \A j, k \in DOMAIN stack : j <= k /\ stack[j].module \in ms => stack[k].module \in ms

(* Without cycles no import is passed over for being visited.              *)
Asked ==
  \A k \in DOMAIN stack : \A x \in Modules : Imports(stack[k].module, x) =>
    \/ memo[x] = "complete"
    \/ \E i \in DOMAIN stack[k].left : stack[k].left[i] = x
    \/ k < Len(stack) /\ x = stack[k + 1].module

IncompleteReasons == \A m \in Modules : memo[m] = "incomplete" => Reason(m)

CompleteImports ==
  \A m \in Modules : memo[m] = "complete" =>
    m \notin graph.incomplete /\ \A x \in Modules : Imports(m, x) => memo[x] = "complete"

(* What has been said of the modules so far.                               *)
Said ==
  /\ \A m \in complete : memo[m] = "complete"
  /\ phase = "completeness" =>
       \A k \in 1..(cursor - 1) : Order[k] \in complete \/ Reason(Order[k])
  /\ phase = "done" => \A m \in Modules : m \in complete \/ Reason(m)

RecursionInv ==
  /\ Activations /\ Waiting /\ IncompleteReasons /\ Said
  /\ ~ImportCycle => Asked /\ CompleteImports

LEMMA RecursionInit == Init => RecursionInv
<1> SUFFICES ASSUME Init PROVE RecursionInv
  OBVIOUS
<1>1. stack = <<>> /\ DOMAIN stack = {} /\ complete = {} /\ phase = "exports"
      /\ \A m \in Modules : memo[m] = "unknown"
  BY DEF Init
<1>2. Activations /\ Waiting /\ Asked
  BY <1>1 DEF Activations, Waiting, Asked
<1>3. IncompleteReasons /\ CompleteImports /\ Said
  BY <1>1 DEF IncompleteReasons, CompleteImports, Said
<1> QED BY <1>2, <1>3 DEF RecursionInv

(* With the stack and the memo as they were, only what is said may change. *)
LEMMA RecursionKept ==
  ASSUME RecursionInv, UNCHANGED <<graph, stack, memo>>, Said'
  PROVE  RecursionInv'
<1>1. /\ ImportCycle' <=> ImportCycle
      /\ \A m : Reason(m)' <=> Reason(m)
  BY DEF ImportCycle, Reason, ImportClosed
<1>2. Activations' /\ IncompleteReasons'
  BY <1>1 DEF RecursionInv, Activations, IncompleteReasons, Imports, Reason, ImportClosed
<1>3. Waiting'
  BY DEF RecursionInv, Waiting, ImportClosed
<1>4. ~ImportCycle => Asked' /\ CompleteImports'
  BY DEF RecursionInv, Asked, CompleteImports, Imports
<1> QED BY <1>1, <1>2, <1>3, <1>4 DEF RecursionInv

LEMMA RecursionByExports ==
  ASSUME Inv, RecursionInv, PassOn \/ EndRound
  PROVE  RecursionInv'
<1>1. /\ UNCHANGED <<graph, stack, memo, complete>>
      /\ phase' = "exports" \/ (phase' = "completeness" /\ cursor' = 1)
  <2>1. CASE PassOn
    BY <2>1 DEF PassOn
  <2>2. CASE EndRound
    BY <2>2 DEF EndRound
  <2> QED BY <2>1, <2>2
<1>2. Said'
  BY <1>1 DEF RecursionInv, Said
<1> QED BY <1>1, <1>2, RecursionKept

LEMMA RecursionByFinish ==
  ASSUME Inv, RecursionInv, Finish
  PROVE  RecursionInv'
<1>1. UNCHANGED <<graph, stack, memo, complete>> /\ phase' = "done"
      /\ phase = "completeness" /\ cursor > Len(Order)
  BY DEF Finish
<1>2. Len(Order) \in Nat /\ DOMAIN Order = 1..Len(Order) /\ cursor \in 1..(Len(Order) + 1)
  BY OrderAssumption DEF Inv, TypeOK
<1>3. \A m \in Modules : \E k \in 1..(cursor - 1) : Order[k] = m
  BY <1>1, <1>2, OrderAssumption
<1>4. \A m \in Modules : m \in complete \/ Reason(m)
  BY <1>1, <1>3 DEF RecursionInv, Said
<1>5. Said'
  BY <1>1, <1>4 DEF RecursionInv, Said, Reason, ImportClosed
<1> QED BY <1>1, <1>5, RecursionKept

(* Unresolved metadata of a module's own are a reason.                     *)
LEMMA OwnReason ==
  ASSUME NEW m \in Modules, m \in graph.incomplete
  PROVE  Reason(m)
BY DEF Reason

(* A module that fails has a reason.                                       *)
LEMMA FailsForAReason ==
  ASSUME RecursionInv, NEW m \in Modules, Fails(m)
  PROVE  Reason(m)
BY OwnReason DEF RecursionInv, IncompleteReasons, Fails

(* What decides whether a graph has cycles, and what has a reason, is the  *)
(* graph alone.                                                            *)
LEMMA GraphDecides ==
  ASSUME graph' = graph
  PROVE  /\ ImportCycle' <=> ImportCycle
         /\ \A m : Reason(m)' <=> Reason(m)
         /\ \A m, x : Imports(m, x)' <=> Imports(m, x)
         /\ \A ms : ImportClosed(ms)' <=> ImportClosed(ms)
BY DEF ImportCycle, Reason, ImportClosed, Imports

LEMMA RecursionByAskModule ==
  ASSUME Inv, RecursionInv, AskModule
  PROVE  RecursionInv'
<1> DEFINE m == Order[cursor]
<1>1. Len(Order) \in Nat /\ m \in Modules /\ cursor \in 1..Len(Order)
  BY OrderAssumption DEF Inv, TypeOK, AskModule
<1>2. UNCHANGED <<graph, phase, memo>> /\ phase = "completeness" /\ stack = <<>>
  BY DEF AskModule
<1>3. CASE /\ memo[m] = "unknown" /\ ~Fails(m)
           /\ stack' = Push(m) /\ UNCHANGED <<cursor, complete>>
  <2> DEFINE f == [module |-> m, left |-> graph.imports[m]]
  <2>1. stack' = Append(<<>>, f)
    BY <1>2, <1>3 DEF Push
  <2>2. DOMAIN stack' = {1} /\ Len(stack') = 1 /\ stack'[1] = f
    BY <2>1
  <2>3. f.module = m /\ f.left = graph.imports[m] /\ m \notin graph.incomplete
    BY <1>3 DEF Fails
  <2> HIDE DEF f, m
  <2>4. Activations'
    BY <1>2, <1>3, <2>2, <2>3, GraphDecides DEF Activations, Imports
  <2>5. Waiting'
    BY <2>2 DEF Waiting
  <2>6. Asked'
    BY <1>2, <2>2, <2>3 DEF Asked, Imports
  <2>7. IncompleteReasons' /\ Said' /\ (CompleteImports => CompleteImports')
    BY <1>2, <1>3, GraphDecides DEF RecursionInv, IncompleteReasons, CompleteImports, Said
  <2> QED BY <1>2, <2>4, <2>5, <2>6, <2>7, GraphDecides DEF RecursionInv
<1>4. CASE /\ memo[m] = "complete" \/ Fails(m)
           /\ complete' = IF memo[m] = "complete" THEN complete \cup {m} ELSE complete
           /\ cursor' = cursor + 1 /\ UNCHANGED stack
  <2>1. \A k \in 1..(cursor' - 1) : k \in 1..(cursor - 1) \/ k = cursor
    BY <1>1, <1>4
  <2>2. m \in complete' \/ Reason(m)
    BY <1>1, <1>4, FailsForAReason
  <2> HIDE DEF m
  <2>3. \A k \in 1..(cursor' - 1) : Order[k] \in complete' \/ Reason(Order[k])
    BY <1>2, <1>4, <2>1, <2>2 DEF RecursionInv, Said, m
  <2>4. \A n \in complete' : memo'[n] = "complete"
    BY <1>2, <1>4 DEF RecursionInv, Said
  <2>5. Said'
    BY <1>2, <2>3, <2>4, GraphDecides DEF Said
  <2> QED BY <1>2, <1>4, <2>5, RecursionKept
<1> QED BY <1>3, <1>4 DEF AskModule

(* Ending the activation on top.                                           *)
LEMMA RecursionBySucceed ==
  ASSUME Inv, RecursionInv, Succeed
  PROVE  RecursionInv'
<1> DEFINE n == Len(stack)
           t == stack[n].module
<1>1. /\ stack \in Seq(Frames) /\ stack # <<>> /\ Distinct(stack)
      /\ memo \in [Modules -> {"unknown", "complete", "incomplete"}]
  BY DEF Inv, TypeOK, Succeed, Frames, Distinct
<1>2. n \in Nat \ {0} /\ DOMAIN stack = 1..n /\ stack[n].left = <<>> /\ DOMAIN stack[n].left = {}
  BY <1>1 DEF Succeed, Top
<1>3. t \in Modules /\ \A k \in 1..n : stack[k].module \in Modules
  <2>1. \A k \in 1..n : stack[k] \in Frames
    BY <1>1
  <2>2. \A f \in Frames : f.module \in Modules
    BY DEF Frames
  <2> QED BY <1>2, <2>1, <2>2
<1>4. /\ DOMAIN stack' = 1..(n - 1) /\ Len(stack') = n - 1
      /\ \A k \in 1..(n - 1) : stack'[k] = stack[k]
  BY <1>1, <1>2, PopKeeps DEF Succeed, Below
<1>5. /\ UNCHANGED <<graph, phase, complete, cursor>>
      /\ memo' = [memo EXCEPT ![t] = "complete"]
  BY DEF Succeed, Top
<1>6. memo[t] = "unknown" /\ t \notin graph.incomplete
  BY <1>2 DEF RecursionInv, Activations
<1>7. \A k \in 1..(n - 1) : stack[k].module # t
  BY <1>1, <1>2 DEF Distinct
<1>8. \A x \in Modules : memo'[x] = IF x = t THEN "complete" ELSE memo[x]
  BY <1>1, <1>3, <1>5
<1>9. \A k \in 1..(n - 1) : stack[k].module \in Modules /\ k \in 1..n
  BY <1>2, <1>3
<1> HIDE DEF n, t
<1>10. Activations'
  <2>1. ASSUME NEW k \in 1..(n - 1)
        PROVE  /\ memo'[stack'[k].module] = "unknown" /\ stack'[k].module \notin graph.incomplete
               /\ \A i \in DOMAIN stack'[k].left : Imports(stack'[k].module, stack'[k].left[i])
               /\ k < Len(stack') => Imports(stack'[k].module, stack'[k + 1].module)
    <3>1. stack'[k] = stack[k] /\ k \in DOMAIN stack /\ stack[k].module # t
          /\ stack[k].module \in Modules
      BY <1>2, <1>4, <1>7, <1>9
    <3>2. k < Len(stack') => k < Len(stack) /\ stack'[k + 1] = stack[k + 1]
      BY <1>2, <1>4 DEF n
    <3> QED BY <1>8, <3>1, <3>2 DEF RecursionInv, Activations
  <2> QED BY <1>4, <1>5, <2>1, GraphDecides DEF Activations
<1>11. Waiting'
  BY <1>2, <1>4, <1>5, <1>9, GraphDecides DEF RecursionInv, Waiting
<1>12. IncompleteReasons' /\ Said'
  BY <1>5, <1>8, GraphDecides, <1>3 DEF RecursionInv, IncompleteReasons, Said, Inv, TypeOK
<1>13. ASSUME Asked, CompleteImports
       PROVE  Asked' /\ CompleteImports'
  <2>1. \A x \in Modules : Imports(t, x) => memo[x] = "complete"
    BY <1>2, <1>13 DEF Asked, n, t
  <2>2. CompleteImports'
    BY <1>5, <1>6, <1>8, <1>13, <2>1, GraphDecides DEF CompleteImports
  <2>3. ASSUME NEW k \in 1..(n - 1), NEW x \in Modules, Imports(stack[k].module, x)
        PROVE  \/ memo'[x] = "complete"
               \/ \E i \in DOMAIN stack'[k].left : stack'[k].left[i] = x
               \/ k < Len(stack') /\ x = stack'[k + 1].module
    <3>1. \/ memo[x] = "complete"
          \/ \E i \in DOMAIN stack[k].left : stack[k].left[i] = x
          \/ k < n /\ x = stack[k + 1].module
      BY <1>2, <1>9, <1>13, <2>3 DEF Asked, n
    <3>2. CASE k + 1 = n /\ x = stack[k + 1].module
      BY <1>8, <3>2 DEF t
    <3>3. CASE k + 1 # n /\ x = stack[k + 1].module
      <4>1. k + 1 \in 1..(n - 1) /\ k < n - 1
        BY <1>2, <3>3
      <4> QED BY <1>4, <3>3, <4>1
    <3> QED BY <1>4, <1>8, <3>1, <3>2, <3>3
  <2>4. Asked'
    BY <1>4, <1>5, <2>3, GraphDecides DEF Asked
  <2> QED BY <2>2, <2>4
<1> QED BY <1>5, <1>10, <1>11, <1>12, <1>13, GraphDecides DEF RecursionInv

(* An incomplete import of the module on top.                              *)
LEMMA RecursionByUnwind ==
  ASSUME Inv, RecursionInv, Unwind
  PROVE  RecursionInv'
<1> DEFINE n == Len(stack)
           t == stack[n].module
           m == Head(stack[n].left)
<1>1. /\ stack \in Seq(Frames) /\ stack # <<>>
      /\ memo \in [Modules -> {"unknown", "complete", "incomplete"}]
  BY DEF Inv, TypeOK, Unwind, Frames
<1>2. n \in Nat \ {0} /\ DOMAIN stack = 1..n
  BY <1>1
<1>3. /\ stack[n].left # <<>> /\ stack[n].left \in Seq(Modules) /\ t \in Modules
  <2>1. stack[n] \in Frames
    BY <1>1
  <2>2. \A f \in Frames : f.module \in Modules /\ f.left \in Seq(Modules)
    BY DEF Frames
  <2> QED BY <2>1, <2>2 DEF Unwind, Top
<1>4. m \in Modules /\ 1 \in DOMAIN stack[n].left /\ m = stack[n].left[1]
  BY <1>3
<1>5. /\ UNCHANGED <<graph, phase, complete, cursor>> /\ stack' = <<>>
      /\ \A x \in Modules : memo'[x] = IF Visiting(x) THEN "incomplete" ELSE memo[x]
      /\ Fails(m)
  BY DEF Unwind, Top
<1>6. Imports(t, m) /\ Reason(m)
  BY <1>2, <1>4, <1>5, FailsForAReason DEF RecursionInv, Activations
<1>7. ASSUME NEW x \in Modules, Visiting(x)
      PROVE  Reason(x) /\ memo[x] = "unknown"
  <2>1. PICK j \in DOMAIN stack : stack[j].module = x
    BY <1>7 DEF Visiting
  <2>2. ASSUME NEW ms \in SUBSET Modules, x \in ms, ImportClosed(ms)
        PROVE  ms \cap graph.incomplete # {}
    <3>1. j <= n /\ n \in DOMAIN stack
      BY <1>2
    <3>2. t \in ms
      BY <2>1, <2>2, <3>1 DEF RecursionInv, Waiting
    <3>3. m \in ms
      BY <1>6, <2>2, <3>2 DEF ImportClosed, Imports
    <3> QED BY <1>6, <2>2, <3>3 DEF Reason
  <2> QED BY <2>1, <2>2 DEF Reason, RecursionInv, Activations
<1> HIDE DEF m, t, n
<1>8. Activations' /\ Waiting' /\ Asked'
  <2>1. DOMAIN stack' = {}
    BY <1>5
  <2> QED BY <2>1 DEF Activations, Waiting, Asked
<1>9. IncompleteReasons'
  BY <1>5, <1>7, GraphDecides DEF RecursionInv, IncompleteReasons
<1>10. Said'
  BY <1>5, <1>7, GraphDecides DEF RecursionInv, Said, Inv, TypeOK
<1>11. CompleteImports => CompleteImports'
  BY <1>5, <1>7, GraphDecides DEF CompleteImports
<1> QED BY <1>5, <1>8, <1>9, <1>10, <1>11, GraphDecides DEF RecursionInv

(* Without cycles the module on top imports none that is being visited.    *)
LEMMA VisitingIsCycle ==
  ASSUME Inv, Activations, stack # <<>>,
         NEW m, Imports(stack[Len(stack)].module, m), Visiting(m)
  PROVE  ImportCycle
<1> DEFINE n == Len(stack)
<1>1. /\ stack \in Seq(Frames) /\ n \in Nat /\ DOMAIN stack = 1..n
      /\ \A k \in 1..n : stack[k].module \in Modules
  <2>1. stack \in Seq(Frames)
    BY DEF Inv, TypeOK, Frames
  <2>2. \A f \in Frames : f.module \in Modules
    BY DEF Frames
  <2>3. \A k \in DOMAIN stack : stack[k] \in Frames
    BY <2>1
  <2> QED BY <2>1, <2>2, <2>3
<1>2. PICK j \in 1..n : stack[j].module = m
  BY <1>1 DEF Visiting
<1> DEFINE ms == {stack[k].module : k \in j..n}
<1> HIDE DEF n
<1>3. ms \in (SUBSET Modules) \ {{}}
  <2>1. \A k \in j..n : k \in 1..n
    BY <1>1
  <2>2. j \in j..n
    BY <1>1
  <2>3. stack[j].module \in ms /\ \A x \in ms : x \in Modules
    BY <1>1, <2>1, <2>2
  <2> HIDE DEF ms
  <2> QED BY <2>3
<1>4. ASSUME NEW k \in j..n
      PROVE  \E x \in ms : Imports(stack[k].module, x)
  <2>1. CASE k = n
    BY <1>1, <1>2, <2>1
  <2>2. CASE k # n
    <3>1. k < n /\ k \in 1..n /\ k + 1 \in j..n
      BY <1>1, <1>4, <2>2
    <3>2. Imports(stack[k].module, stack[k + 1].module)
      BY <1>1, <3>1 DEF Activations, n
    <3>3. stack[k + 1].module \in ms
      BY <3>1
    <3> QED BY <3>2, <3>3
  <2> QED BY <2>1, <2>2
<1>5. \A x \in ms : \E i \in DOMAIN graph.imports[x] : graph.imports[x][i] \in ms
  BY <1>4 DEF Imports
<1> HIDE DEF ms
<1> QED BY <1>3, <1>5 DEF ImportCycle

(* The next import, which is passed over or gets an activation of its own. *)
LEMMA RecursionByAskImport ==
  ASSUME Inv, RecursionInv, AskImport
  PROVE  RecursionInv'
<1> DEFINE n    == Len(stack)
           f    == stack[n]
           m    == Head(f.left)
           g    == [f EXCEPT !.left = Tail(f.left)]
           rest == Append(Below, g)
           more == [module |-> m, left |-> graph.imports[m]]
<1>1. /\ stack \in Seq(Frames) /\ stack # <<>> /\ Distinct(stack)
      /\ memo \in [Modules -> {"unknown", "complete", "incomplete"}]
  BY DEF Inv, TypeOK, AskImport, Frames, Distinct
<1>2. n \in Nat \ {0} /\ DOMAIN stack = 1..n
  BY <1>1
<1>3. /\ f \in Frames /\ f.left # <<>> /\ f.left \in Seq(Modules) /\ f.module \in Modules
  <2>1. stack[n] \in Frames
    BY <1>1
  <2>2. \A e \in Frames : e.module \in Modules /\ e.left \in Seq(Modules)
    BY DEF Frames
  <2> QED BY <2>1, <2>2 DEF AskImport, Top
<1>4. /\ m \in Modules /\ 1 \in DOMAIN f.left /\ m = f.left[1]
      /\ \A i \in DOMAIN Tail(f.left) : i + 1 \in DOMAIN f.left /\ Tail(f.left)[i] = f.left[i + 1]
      /\ \A i \in DOMAIN f.left : i = 1 \/ (i - 1 \in DOMAIN Tail(f.left) /\ f.left[i] = Tail(f.left)[i - 1])
  BY <1>3
<1>5. g.module = f.module /\ g.left = Tail(f.left)
  BY <1>3 DEF Frames
<1>6. /\ Below \in Seq(Frames) /\ Len(Below) = n - 1
      /\ \A k \in 1..(n - 1) : Below[k] = stack[k]
  BY <1>1, PopKeeps DEF Below
<1> HIDE DEF g
<1>7. /\ DOMAIN rest = 1..n /\ Len(rest) = n
      /\ \A k \in 1..(n - 1) : rest[k] = stack[k]
      /\ rest[n] = g
  <2> HIDE DEF n
  <2>1. g \in Frames
    BY <1>3 DEF g, Frames
  <2>2. Len(rest) = Len(Below) + 1 /\ DOMAIN rest = 1..(Len(Below) + 1)
        /\ \A k \in 1..(Len(Below) + 1) : rest[k] = IF k <= Len(Below) THEN Below[k] ELSE g
    BY <1>6, <2>1
  <2> HIDE DEF rest
  <2> QED BY <1>2, <1>6, <2>2
<1>8. /\ UNCHANGED <<graph, exported, changed, cursor, phase, memo, complete>> /\ ~Fails(m)
      /\ stack' = IF memo[m] = "complete" \/ Visiting(m) THEN rest ELSE Append(rest, more)
  BY DEF AskImport, Top, g
<1>9. Imports(f.module, m)
  BY <1>2, <1>4 DEF RecursionInv, Activations
<1> DEFINE s == stack'
           size == Len(stack')
<1>10. /\ size \in Nat /\ DOMAIN s = 1..size /\ n <= size /\ size <= n + 1
       /\ \A k \in 1..(n - 1) : s[k] = stack[k]
       /\ s[n] = g
       /\ size = n + 1 => /\ s[n + 1].module = m /\ s[n + 1].left = graph.imports[m]
                          /\ memo[m] = "unknown" /\ m \notin graph.incomplete
       /\ size = n => memo[m] = "complete" \/ Visiting(m)
  <2> HIDE DEF rest, m, n
  <2>1. CASE memo[m] = "complete" \/ Visiting(m)
    <3>1. s = rest
      BY <1>8, <2>1
    <3> QED BY <1>2, <1>7, <2>1, <3>1
  <2>2. CASE ~(memo[m] = "complete" \/ Visiting(m))
    <3>1. s = Append(rest, more)
      BY <1>8, <2>2
    <3>2. /\ size = n + 1 /\ DOMAIN s = 1..(n + 1) /\ s[n + 1] = more
          /\ \A k \in 1..n : s[k] = rest[k]
      BY <1>2, <1>7, <3>1
    <3>3. memo[m] = "unknown" /\ m \notin graph.incomplete
      BY <1>1, <1>4, <1>8, <2>2 DEF Fails
    <3>4. more.module = m /\ more.left = graph.imports[m]
      OBVIOUS
    <3> HIDE DEF more
    <3> QED BY <1>2, <1>7, <3>2, <3>3, <3>4
  <2> QED BY <2>1, <2>2
<1> HIDE DEF rest, more, m, f, n, s, size
<1>11. ASSUME NEW k \in 1..size
       PROVE  k \in 1..(n - 1) \/ k = n \/ (k = n + 1 /\ size = n + 1)
  BY <1>2, <1>10
<1>12. \A k \in 1..n : s[k].module = stack[k].module
  BY <1>2, <1>5, <1>10 DEF f
<1>13. ASSUME NEW k \in 1..size
       PROVE  /\ memo[s[k].module] = "unknown" /\ s[k].module \notin graph.incomplete
              /\ \A i \in DOMAIN s[k].left : Imports(s[k].module, s[k].left[i])
              /\ k < size => Imports(s[k].module, s[k + 1].module)
  <2>1. CASE k \in 1..(n - 1)
    <3>1. s[k] = stack[k] /\ s[k + 1].module = stack[k + 1].module /\ k \in DOMAIN stack /\ k < n
      BY <1>2, <1>10, <1>12, <2>1
    <3> QED BY <3>1 DEF RecursionInv, Activations, n
  <2>2. CASE k = n
    <3>1. s[k].module = f.module /\ s[k].left = Tail(f.left) /\ n \in DOMAIN stack
      BY <1>2, <1>5, <1>10, <2>2
    <3>2. /\ memo[f.module] = "unknown" /\ f.module \notin graph.incomplete
          /\ \A i \in DOMAIN f.left : Imports(f.module, f.left[i])
      BY <3>1 DEF RecursionInv, Activations, f
    <3>3. k < size => s[k + 1].module = m
      BY <1>2, <1>10, <2>2
    <3> QED BY <1>4, <1>9, <3>1, <3>2, <3>3
  <2>3. CASE k = n + 1 /\ size = n + 1
    BY <1>2, <1>10, <2>3 DEF Imports
  <2> QED BY <1>11, <2>1, <2>2, <2>3
<1>14. Activations'
  BY <1>8, <1>10, <1>13, GraphDecides DEF Activations, s, size
<1>15. ASSUME NEW ms \in SUBSET Modules, ImportClosed(ms),
              NEW j \in 1..size, NEW k \in 1..size, j <= k, s[j].module \in ms
       PROVE  s[k].module \in ms
  <2>1. CASE j \in 1..n /\ k \in 1..n
    <3>1. stack[k].module \in ms
      BY <1>2, <1>12, <1>15, <2>1 DEF RecursionInv, Waiting
    <3> QED BY <1>12, <2>1, <3>1
  <2>2. CASE j \in 1..n /\ k = n + 1 /\ size = n + 1
    <3>1. j <= n /\ n \in DOMAIN stack /\ stack[j].module \in ms
      BY <1>2, <1>12, <1>15, <2>2
    <3>2. f.module \in ms
      BY <1>2, <2>2, <3>1, <1>15 DEF RecursionInv, Waiting, f
    <3> QED BY <1>9, <1>10, <1>15, <2>2, <3>2 DEF ImportClosed, Imports
  <2>3. CASE j = n + 1 /\ k = n + 1
    BY <1>15, <2>3
  <2>4. \/ j \in 1..n /\ k \in 1..n
        \/ j \in 1..n /\ k = n + 1 /\ size = n + 1
        \/ j = n + 1 /\ k = n + 1
    BY <1>2, <1>10, <1>15
  <2> QED BY <2>1, <2>2, <2>3, <2>4
<1>16. Waiting'
  BY <1>8, <1>10, <1>15, GraphDecides DEF Waiting, s
<1>17. IncompleteReasons' /\ Said' /\ (CompleteImports => CompleteImports')
  BY <1>8, GraphDecides DEF RecursionInv, IncompleteReasons, Said, CompleteImports
<1>18. ASSUME Asked, ~ImportCycle
       PROVE  Asked'
  <2>1. size = n => memo[m] = "complete"
    BY <1>1, <1>9, <1>10, <1>18, VisitingIsCycle DEF RecursionInv, f, n
  <2>2. ASSUME NEW k \in 1..size, NEW x \in Modules, Imports(s[k].module, x)
        PROVE  \/ memo[x] = "complete"
               \/ \E i \in DOMAIN s[k].left : s[k].left[i] = x
               \/ k < size /\ x = s[k + 1].module
    <3>1. CASE k \in 1..(n - 1)
      <4>1. s[k] = stack[k] /\ s[k + 1].module = stack[k + 1].module /\ k \in DOMAIN stack
            /\ k < n /\ k < size
        BY <1>2, <1>10, <1>12, <3>1
      <4> QED BY <1>18, <2>2, <4>1 DEF Asked
    <3>2. CASE k = n
      <4>1. s[k].module = f.module /\ s[k].left = Tail(f.left) /\ n \in DOMAIN stack
        BY <1>2, <1>5, <1>10, <3>2
      <4>2. memo[x] = "complete" \/ \E i \in DOMAIN f.left : f.left[i] = x
        BY <1>2, <1>18, <2>2, <3>2, <4>1 DEF Asked, f, n
      <4>3. CASE x = m
        BY <1>2, <1>10, <2>1, <3>2, <4>3
      <4> QED BY <1>4, <4>1, <4>2, <4>3
    <3>3. CASE k = n + 1 /\ size = n + 1
      BY <1>2, <1>10, <2>2, <3>3 DEF Imports
    <3> QED BY <1>11, <3>1, <3>2, <3>3
  <2> QED BY <1>8, <1>10, <2>2, GraphDecides DEF Asked, s, size
<1> QED BY <1>8, <1>14, <1>16, <1>17, <1>18, GraphDecides DEF RecursionInv

LEMMA RecursionStep == Inv /\ RecursionInv /\ [Next]_vars => RecursionInv'
<1> SUFFICES ASSUME Inv, RecursionInv, [Next]_vars PROVE RecursionInv'
  OBVIOUS
<1>1. CASE UNCHANGED vars
  <2>1. Said'
    BY <1>1, GraphDecides DEF vars, RecursionInv, Said
  <2> QED BY <1>1, <2>1, RecursionKept DEF vars
<1>2. CASE Next
  BY <1>2, RecursionByExports, RecursionByAskModule, RecursionByAskImport, RecursionBySucceed,
     RecursionByUnwind, RecursionByFinish DEF Next
<1> QED BY <1>1, <1>2

(* The stack, the memo and the verdicts fit the imports throughout.        *)
THEOREM RecursionInvariance == Spec => []RecursionInv
<1> QED BY RecursionInit, RecursionStep, Invariance, PTL DEF Spec

(* However imports form cycles and in whatever order modules are asked, a  *)
(* module is said to be incomplete only if one that it imports, directly   *)
(* or not, has unresolved metadata: a failure unwinds through activations  *)
(* that all depend on the module that failed.                              *)
THEOREM IncompleteIsJustified == Spec => []IncompleteForAReason
<1>1. RecursionInv => IncompleteForAReason
  BY DEF RecursionInv, Said, Reason, IncompleteForAReason
<1> QED BY <1>1, RecursionInvariance, PTL

(* Without cycles of imports the memo is exact: the modules known to be    *)
(* complete are closed under imports and none has unresolved metadata.     *)
THEOREM CompleteIsJustified == Spec => []CompleteWithoutCycles
<1>1. ASSUME Inv, RecursionInv, ~ImportCycle, phase = "done", NEW m \in complete
      PROVE  \E ms \in SUBSET Modules :
               m \in ms /\ ImportClosed(ms) /\ ms \cap graph.incomplete = {}
  <2> DEFINE ms == {x \in Modules : memo[x] = "complete"}
  <2>1. m \in ms
    BY <1>1 DEF Inv, TypeOK, RecursionInv, Said
  <2>2. \A x \in Modules : graph.imports[x] \in Seq(Modules)
    BY <1>1 DEF Inv, GraphType, GraphOK
  <2>3. ImportClosed(ms)
    <3>1. ASSUME NEW x \in ms, NEW k \in DOMAIN graph.imports[x]
          PROVE  graph.imports[x][k] \in ms
      <4>1. graph.imports[x][k] \in Modules
        BY <2>2, <3>1
      <4> QED BY <1>1, <4>1 DEF RecursionInv, CompleteImports, Imports
    <3> QED BY <3>1 DEF ImportClosed
  <2>4. ms \cap graph.incomplete = {}
    BY <1>1 DEF RecursionInv, CompleteImports
  <2> QED BY <2>1, <2>3, <2>4
<1>2. Inv /\ RecursionInv => CompleteWithoutCycles
  BY <1>1 DEF CompleteWithoutCycles
<1> QED BY <1>2, Invariance, RecursionInvariance, PTL
=============================================================================

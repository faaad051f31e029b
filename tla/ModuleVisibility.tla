--------------------------- MODULE ModuleVisibility ---------------------------
(***************************************************************************)
(* buildModuleVisibility (src/src/modules/visibility.ts): what the modules *)
(* of a NestJS application export to one another, and of which modules the *)
(* analysis saw all metadata.                                              *)
(*                                                                         *)
(* Exports go round until a round adds nothing.  Completeness is computed  *)
(* by a recursion over imports with a memo; its activations are the stack  *)
(* here.  What is visible in a module is read off the exports at the end.  *)
(***************************************************************************)
EXTENDS Naturals, Sequences

CONSTANTS
  Modules, Classes,
  Order,          (* analysis.modules, in order.                            *)
  Graphs          (* The module graphs considered: records as in GraphOK.   *)

ASSUME OrderAssumption ==
  /\ Order \in Seq(Modules)
  /\ \A m \in Modules : \E k \in DOMAIN Order : Order[k] = m

(* exportsClasses, exportsModules, imports: the resolved assertions by     *)
(* subject; incomplete: the modules some of whose metadata is unresolved.  *)
GraphOK(g) ==
  /\ g.exportsClasses \in [Modules -> SUBSET Classes]
  /\ g.exportsModules \in [Modules -> SUBSET Modules]
  /\ g.imports        \in [Modules -> Seq(Modules)]
  /\ g.incomplete     \subseteq Modules

ASSUME GraphsAssumption == \A g \in Graphs : GraphOK(g)

VARIABLES
  graph,      (* The graph that is resolved; it never changes.              *)
  exported,   (* exportedByModule.                                          *)
  changed,    (* Whether the current round has added anything.              *)
  cursor,     (* The module of Order that the current loop is at.           *)
  phase,      (* "exports", "completeness" or "done".                       *)
  stack,      (* Activations of moduleComplete: a module, imports left.     *)
  memo,       (* completenessMemo.                                          *)
  complete    (* The modules said to be complete so far.                    *)

vars == <<graph, exported, changed, cursor, phase, stack, memo, complete>>

TypeOK ==
  /\ exported \in [Modules -> SUBSET Classes]
  /\ changed \in BOOLEAN
  /\ cursor \in 1..(Len(Order) + 1)
  /\ phase \in {"exports", "completeness", "done"}
  /\ stack \in Seq([module : Modules, left : Seq(Modules)])
  /\ \A j, k \in DOMAIN stack : stack[j].module = stack[k].module => j = k
  /\ memo \in [Modules -> {"unknown", "complete", "incomplete"}]
  /\ complete \subseteq Modules

Init ==
  /\ graph \in Graphs
  /\ exported = graph.exportsClasses
  /\ changed = FALSE /\ cursor = 1 /\ phase = "exports"
  /\ stack = <<>> /\ memo = [m \in Modules |-> "unknown"] /\ complete = {}

-----------------------------------------------------------------------------
(* Exports.                                                                *)

(* Mutant of Gather: only what a module declares is passed on.             *)
Gather_OneLevel(m) ==
  exported[m] \cup UNION {graph.exportsClasses[x] : x \in graph.exportsModules[m]}

Gather(m) == exported[m] \cup UNION {exported[x] : x \in graph.exportsModules[m]}

PassOn ==
  /\ phase = "exports" /\ cursor <= Len(Order)
  /\ LET m == Order[cursor] IN
       /\ exported' = [exported EXCEPT ![m] = Gather(m)]
       /\ changed'  = (changed \/ Gather(m) # exported[m])
  /\ cursor' = cursor + 1
  /\ UNCHANGED <<graph, phase, stack, memo, complete>>

(* Mutant of EndRound: changed is not reset.                               *)
EndRound_StillChanged ==
  /\ phase = "exports" /\ cursor > Len(Order)
  /\ cursor' = 1 /\ changed' = changed
  /\ phase' = IF changed THEN "exports" ELSE "completeness"
  /\ UNCHANGED <<graph, exported, stack, memo, complete>>

EndRound ==
  /\ phase = "exports" /\ cursor > Len(Order)
  /\ cursor' = 1 /\ changed' = FALSE
  /\ phase' = IF changed THEN "exports" ELSE "completeness"
  /\ UNCHANGED <<graph, exported, stack, memo, complete>>

-----------------------------------------------------------------------------
(* Completeness.                                                           *)

Visiting(m) == \E k \in DOMAIN stack : stack[k].module = m

(* Mutant of Fails: an import that is being visited is not complete yet.   *)
Fails_Visiting(m) ==
  memo[m] = "incomplete" \/ (memo[m] = "unknown" /\ (m \in graph.incomplete \/ Visiting(m)))

Fails(m) == memo[m] = "incomplete" \/ (memo[m] = "unknown" /\ m \in graph.incomplete)

Push(m) == Append(stack, [module |-> m, left |-> graph.imports[m]])

Top == stack[Len(stack)]

Below == SubSeq(stack, 1, Len(stack) - 1)

(* The call for the next module of the list.                               *)
AskModule ==
  /\ phase = "completeness" /\ stack = <<>> /\ cursor <= Len(Order)
  /\ LET m == Order[cursor] IN
       \/ /\ memo[m] = "unknown" /\ ~Fails(m)
          /\ stack' = Push(m) /\ UNCHANGED <<cursor, complete>>
       \/ /\ memo[m] = "complete" \/ Fails(m)
          /\ complete' = IF memo[m] = "complete" THEN complete \cup {m} ELSE complete
          /\ cursor'   = cursor + 1
          /\ UNCHANGED stack
  /\ UNCHANGED <<graph, exported, changed, phase, memo>>

(* The next import of the module on top.  A module that is being visited   *)
(* counts as complete for now.                                             *)
AskImport ==
  /\ stack # <<>> /\ Top.left # <<>> /\ ~Fails(Head(Top.left))
  /\ LET m    == Head(Top.left)
         rest == Append(Below, [Top EXCEPT !.left = Tail(Top.left)])
     IN  stack' = IF memo[m] = "complete" \/ Visiting(m) THEN rest
                  ELSE Append(rest, [module |-> m, left |-> graph.imports[m]])
  /\ UNCHANGED <<graph, exported, changed, cursor, phase, memo, complete>>

(* All imports were complete.                                              *)
Succeed ==
  /\ stack # <<>> /\ Top.left = <<>>
  /\ memo'  = [memo EXCEPT ![Top.module] = "complete"]
  /\ stack' = Below
  /\ UNCHANGED <<graph, exported, changed, cursor, phase, complete>>

(* Mutant of Unwind: only the module that imports it is incomplete.        *)
Unwind_One ==
  /\ stack # <<>> /\ Top.left # <<>> /\ Fails(Head(Top.left))
  /\ memo'  = [memo EXCEPT ![Top.module] = "incomplete"]
  /\ stack' = IF Len(stack) = 1 THEN <<>>
              ELSE Append(SubSeq(stack, 1, Len(stack) - 2), stack[Len(stack) - 1])
  /\ UNCHANGED <<graph, exported, changed, cursor, phase, complete>>

(* An incomplete import ends all activations at once.                      *)
Unwind ==
  /\ stack # <<>> /\ Top.left # <<>> /\ Fails(Head(Top.left))
  /\ memo'  = [m \in Modules |-> IF Visiting(m) THEN "incomplete" ELSE memo[m]]
  /\ stack' = <<>>
  /\ UNCHANGED <<graph, exported, changed, cursor, phase, complete>>

Finish ==
  /\ phase = "completeness" /\ stack = <<>> /\ cursor > Len(Order)
  /\ phase' = "done"
  /\ UNCHANGED <<graph, exported, changed, cursor, stack, memo, complete>>

Next == PassOn \/ EndRound \/ AskModule \/ AskImport \/ Succeed \/ Unwind \/ Finish

Spec == Init /\ [][Next]_vars

FairSpec == Spec /\ WF_vars(Next)

-----------------------------------------------------------------------------
(* Properties.                                                             *)

(* A family of exports that re-exporting adds nothing to.                  *)
Closed(family) ==
  \A m \in Modules :
    /\ graph.exportsClasses[m] \subseteq family[m]
    /\ \A x \in graph.exportsModules[m] : family[x] \subseteq family[m]

(* Whatever cycles the re-exports form, the exports are in the end the     *)
(* least such family: nothing reachable is missing, and nothing is there   *)
(* that no chain of re-exports leads to.                                   *)
ExportsLeast ==
  phase # "exports" =>
    /\ Closed(exported)
    /\ \A family \in [Modules -> SUBSET Classes] :
         Closed(family) => \A m \in Modules : exported[m] \subseteq family[m]

(* A set of modules that holds, with a module, those that it imports.      *)
ImportClosed(ms) ==
  \A m \in ms : \A k \in DOMAIN graph.imports[m] : graph.imports[m][k] \in ms

(* A module is said to be incomplete only for a reason: some module that   *)
(* it imports, directly or not, has unresolved metadata.                   *)
IncompleteForAReason ==
  phase = "done" =>
    \A m \in Modules \ complete :
      \A ms \in SUBSET Modules :
        m \in ms /\ ImportClosed(ms) => ms \cap graph.incomplete # {}

(* Modules each of which imports one of them.                              *)
ImportCycle ==
  \E ms \in (SUBSET Modules) \ {{}} :
    \A m \in ms : \E k \in DOMAIN graph.imports[m] : graph.imports[m][k] \in ms

(* Conversely, a module is said to be complete only when everything that   *)
(* it imports, directly or not, is: whatever modules share imports and in  *)
(* whatever order they are asked, as long as no imports form a cycle.      *)
CompleteWithoutCycles ==
  phase = "done" /\ ~ImportCycle =>
    \A m \in complete :
      \E ms \in SUBSET Modules :
        m \in ms /\ ImportClosed(ms) /\ ms \cap graph.incomplete = {}

(* The resolution of a cyclic graph ends, too.                             *)
Resolves == <>(phase = "done")
=============================================================================

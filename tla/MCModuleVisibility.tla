-------------------------- MODULE MCModuleVisibility --------------------------
(* Instances of ModuleVisibility for TLC.                                  *)
EXTENDS ModuleVisibility, SequencesExt

CONSTANTS a, b, c, p, q

TheModules == {a, b, c}
InOrder    == <<a, b, c>>

(* No module imports itself; every list of imports has each at most once.  *)
ImportLists(m) == {s \in SeqOf(TheModules \ {m}, 2) : IsInjective(s)}

Graph(classes, modules, imports, incomplete) ==
  [exportsClasses |-> classes, exportsModules |-> modules, imports |-> imports,
   incomplete |-> incomplete]

(* Every way to re-export, cycles and self-exports included.               *)
ReExports ==
  {Graph([m \in TheModules |-> CASE m = a -> {p} [] m = b -> x [] OTHER -> {q}], f,
         [m \in TheModules |-> <<>>], {}) :
     x \in SUBSET {p, q}, f \in [TheModules -> SUBSET TheModules]}

(* Every way to import, and every set of modules with unresolved metadata. *)
AnyImports ==
  {Graph([m \in TheModules |-> {}], [m \in TheModules |-> {}], i, x) :
     i \in {f \in [TheModules -> UNION {ImportLists(m) : m \in TheModules}] :
              \A m \in TheModules : f[m] \in ImportLists(m)},
     x \in SUBSET TheModules}

TheGraphs == ReExports \cup AnyImports
=============================================================================

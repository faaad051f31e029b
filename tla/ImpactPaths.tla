------------------------------ MODULE ImpactPaths ------------------------------
(***************************************************************************)
(* The reverse search of a potential-impact report: pathsFromEndpoints     *)
(* (src/src/impact/graph.ts), which walks from a changed table back to the *)
(* endpoint, beside the forward trace of the same analysis.                *)
(*                                                                         *)
(* The search keeps no states seen: two paths to one method are two        *)
(* states, so that the order of its work list does not matter and a level  *)
(* of the breadth-first walk is one step here.                             *)
(***************************************************************************)
EXTENDS EndpointTrace

VARIABLES
  target,     (* The method whose table has changed, once one has.          *)
  frontier,   (* The states of the level that is expanded next.             *)
  found       (* TRUE once a path from the endpoint has been found.         *)

impactVars == <<traceVars, target, frontier, found>>

NoTarget == "none"

ASSUME NoTargetAssumption == NoTarget \notin Methods

BranchesOf(assertion) == {b \in facts.branches : assertion \in b.ids}

ImpactInit == TraceInit /\ target = NoTarget /\ frontier = {} /\ found = FALSE

(* The forward trace is there when the table that m accesses has changed.  *)
(* The first level of the search is m; only endpoints are searched for.    *)
Change(m) ==
  /\ Traced /\ facts.root = "endpoint" /\ target = NoTarget
  /\ target'   = m
  /\ frontier' = {[method |-> m, depth |-> 0, hops |-> 0, visited |-> {m},
                   branches |-> BranchesOf(Access(m))]}
  /\ UNCHANGED <<traceVars, found>>

-----------------------------------------------------------------------------
Back(s, n, assertion) ==
  [s EXCEPT !.method = n, !.visited = s.visited \cup {n},
            !.branches = s.branches \cup BranchesOf(assertion)]

(* Calls count against the bound along the whole path.                     *)
Callers(s) ==
  {[Back(s, n, Call(n, s.method)) EXCEPT !.depth = s.depth + 1] :
     n \in {x \in Methods : /\ <<x, s.method>> \in facts.calls
                            /\ s.depth < facts.limits.depth
                            /\ x \notin s.visited}}

(* Mutant of BranchAllows: the branches on the path are not looked at.     *)
BranchAllows_Any(s, i) == TRUE

(* A job is not followed back when no branch met so far matches it.        *)
BranchAllows(s, i) ==
  facts.kind[i] = "job" /\ s.branches # {} => \E b \in s.branches : i \in b.jobs

(* Mutant of Initiators: the bound on hops is one too tight.               *)
Initiators_HopTooFew(s) ==
  {[Back(s, facts.source[i], Initiate(facts.source[i], i)) EXCEPT !.hops = s.hops + 1] :
     i \in {j \in Interactions : /\ Handles(s.method, j)
                                 /\ BranchAllows(s, j)
                                 /\ s.hops + 1 < facts.limits.hops
                                 /\ facts.source[j] \notin s.visited}}

(* Registration of the handler is not asked for.                           *)
Initiators(s) ==
  {[Back(s, facts.source[i], Initiate(facts.source[i], i)) EXCEPT !.hops = s.hops + 1] :
     i \in {j \in Interactions : /\ Handles(s.method, j)
                                 /\ BranchAllows(s, j)
                                 /\ s.hops < facts.limits.hops
                                 /\ facts.source[j] \notin s.visited}}

Expand ==
  /\ frontier # {}
  /\ found'    = (found \/ \E s \in frontier : s.method \in facts.entries)
  /\ frontier' = UNION {Callers(s) \cup Initiators(s) : s \in frontier}
  /\ UNCHANGED <<traceVars, target>>

ImpactNext ==
  \/ TraceNext /\ UNCHANGED <<target, frontier, found>>
  \/ \E m \in Methods : Change(m)
  \/ Expand

ImpactSpec == ImpactInit /\ [][ImpactNext]_impactVars

Searched == target # NoTarget /\ frontier = {}

-----------------------------------------------------------------------------
(* Properties.                                                             *)

(* A call chain from one interaction to the next that the search counts    *)
(* together, where the trace starts to count again, can exceed the bound.  *)
DepthAmple == facts.limits.depth + 1 >= Cardinality(Methods) \/ \A m \in Methods : Sites(m) = {}

(* The endpoint whose trace ends in the table is among those that the      *)
(* impact of a change to the table names: the report "find[s] endpoints    *)
(* that reach that table" (docs/impact-analysis.md).  Needed for that: no  *)
(* worker dispatches on job names, because a branch met on the way back    *)
(* also rules out jobs of earlier workers, and the bound on calls is ample *)
(* for the whole path.                                                     *)
TracedIsFound ==
  Searched /\ facts.branches = {} /\ DepthAmple =>
    ((\E e \in effects : e[1] = target) => found)

(* Every branch matches only jobs that no other dispatching worker gets.   *)
BranchNamesApart ==
  \A b, c \in facts.branches : b.method # c.method => ~\E i \in b.jobs : Handles(c.method, i)

Does(m) ==
  {Access(m)} \cup {Call(m, n) : n \in {x \in Methods : <<m, x>> \in facts.calls}}
    \cup {Initiate(m, i) : i \in Sites(m)}

(* What a worker that dispatches does lies in its branches: the extractor   *)
(* makes what precedes and follows the dispatch branches for all jobs.     *)
BranchesCover ==
  \A b \in facts.branches :
    Does(b.method) \subseteq UNION {c.ids : c \in {d \in facts.branches : d.method = b.method}}

(* Conversely, and for a trace that reports itself complete: an endpoint   *)
(* found from a table all of whose handlers are proven is one whose trace  *)
(* ends there.  Needed for that: job names are not shared between workers  *)
(* that dispatch on them, because a branch of a later worker also lets the *)
(* jobs of an earlier one through; and the search lets every job through    *)
(* to what lies in no branch.                                              *)
FoundIsTraced ==
  Searched /\ diagnostics = {} /\ facts.registered = Methods
           /\ BranchesCover /\ BranchNamesApart /\ ~DispatcherRecurs =>
    (found => \E e \in effects : e[1] = target)
=============================================================================

-------------------------- MODULE SymbolDependents --------------------------
(***************************************************************************)
(* findSymbolDependentPaths (src/src/query/operations.ts): which methods,  *)
(* endpoints and handlers reach a symbol, searched backwards over the      *)
(* calls, breadth first, under limits on depth and on visited states.      *)
(***************************************************************************)
EXTENDS Naturals, FiniteSets, SequencesExt

CONSTANTS
  Methods,
  Others,       (* Endpoints and interaction handlers.                      *)
  Analyses,     (* Records as in AnalysisOK.                                *)
  Requests      (* maxDepth and maxStates, as the kernel's limits cap them. *)

ASSUME RequestsAssumption == \A r \in Requests : {r.maxDepth, r.maxStates} \subseteq Nat \ {0}

(* seeds: the methods of the symbol, sorted.  callers: for a method, the   *)
(* assertions that lead to it, sorted, each with its identifier.  An       *)
(* identifier is that of one assertion.                                    *)
Assertions(a) == UNION {ToSet(a.callers[m]) : m \in Methods}

AnalysisOK(a) ==
  /\ a.seeds \in Seq(Methods) /\ IsInjective(a.seeds)
  /\ a.callers \in [Methods -> Seq(Assertions(a))]
  /\ \A x \in Assertions(a) : x.subject \in Methods \cup Others
  /\ \A m, n \in Methods : \A j \in DOMAIN a.callers[m], k \in DOMAIN a.callers[n] :
       a.callers[m][j].assertion = a.callers[n][k].assertion => m = n /\ j = k

ASSUME AnalysesAssumption == \A a \in Analyses : AnalysisOK(a)

VARIABLES
  analysis, request,    (* What is asked of what; they never change.        *)
  queue,      (* States to expand: where they are, and the steps to there.  *)
  current,    (* The state being expanded.                                  *)
  left,       (* Its callers not yet looked at.                             *)
  paths,      (* In the order found.                                        *)
  visited,    (* visitedStates.                                             *)
  truncated,
  done

searchVars == <<analysis, request, queue, current, left, paths, visited, truncated, done>>

(* A state or a path: first the newest step, last the one into the seed.   *)
State(m, steps, seen) == [at |-> m, steps |-> steps, seen |-> seen]

Seeded == IF Len(analysis.seeds) < request.maxStates THEN Len(analysis.seeds) ELSE request.maxStates

SearchInit(analyses) ==
  /\ analysis \in analyses /\ request \in Requests
  /\ queue = [k \in 1..Seeded |-> State(analysis.seeds[k], <<>>, {analysis.seeds[k]})]
  /\ current = <<>> /\ left = <<>> /\ paths = <<>>
  /\ visited = Seeded
  /\ truncated = (Len(analysis.seeds) > Seeded)
  /\ done = FALSE

(* queue.shift(): the oldest state.                                        *)
Shift ==
  /\ current' = Head(queue)
  /\ queue'   = Tail(queue)

Take ==
  /\ ~done /\ left = <<>> /\ queue # <<>>
  /\ Shift
  /\ left' = IF Len(current'.steps) >= request.maxDepth THEN <<>>
             ELSE analysis.callers[current'.at]
  /\ UNCHANGED <<analysis, request, paths, visited, truncated, done>>

(* Mutant of Seen: a method is reached on one path only.                   *)
Seen_Anywhere(m) ==
  m \in current.seen \/ \E k \in DOMAIN paths : paths[k].at = m

Seen(m) == m \in current.seen

SkipSeen ==
  /\ ~done /\ left # <<>> /\ Seen(Head(left).subject)
  /\ left' = Tail(left)
  /\ UNCHANGED <<analysis, request, queue, current, paths, visited, truncated, done>>

Limited == visited >= request.maxStates

Extend ==
  /\ ~done /\ left # <<>> /\ ~Seen(Head(left).subject) /\ ~Limited
  /\ LET m     == Head(left).subject
         steps == <<Head(left).assertion>> \o current.steps
     IN  /\ paths' = Append(paths, [at |-> m, steps |-> steps])
         /\ queue' = IF m \notin Methods THEN queue
                     ELSE Append(queue, State(m, steps, current.seen \cup {m}))
  /\ visited' = visited + 1
  /\ left'    = Tail(left)
  /\ UNCHANGED <<analysis, request, current, truncated, done>>

(* The limit on states ends the whole search.                              *)
Truncate ==
  /\ ~done /\ left # <<>> /\ ~Seen(Head(left).subject) /\ Limited
  /\ truncated' = TRUE /\ done' = TRUE
  /\ UNCHANGED <<analysis, request, queue, current, left, paths, visited>>

Finish ==
  /\ ~done /\ left = <<>> /\ queue = <<>>
  /\ done' = TRUE
  /\ UNCHANGED <<analysis, request, queue, current, left, paths, visited, truncated>>

SearchNext == Take \/ SkipSeen \/ Extend \/ Truncate \/ Finish

-----------------------------------------------------------------------------
(* Properties.                                                             *)

Calls ==
  UNION {{[assertion |-> c.assertion, from |-> c.subject, to |-> m] :
             c \in ToSet(analysis.callers[m])} : m \in Methods}

(* The chains of calls from at to a method of the symbol that meet nothing *)
(* twice.                                                                  *)
AllPaths ==
  {[at |-> c[1].from, steps |-> [k \in DOMAIN c |-> c[k].assertion]] :
     c \in {x \in SeqOf(Calls, request.maxDepth) \ {<<>>} :
              /\ \A k \in 2..Len(x) : x[k].from = x[k - 1].to
              /\ Last(x).to \in ToSet(analysis.seeds)
              /\ \A j, k \in DOMAIN x : x[j].from # x[k].to \/ j = k + 1
              /\ \A j, k \in DOMAIN x : j # k => x[j].from # x[k].from}}

(* The search finds only chains of calls, each of them once, and unless it *)
(* says that it was truncated it finds all that the depth allows, however  *)
(* the calls form cycles.  When it is truncated, the dependents that are   *)
(* missing are not nearer than those found, if no seed was cut off.        *)
DependentsFound ==
  LET all == AllPaths
  IN  /\ IsInjective(paths) /\ ToSet(paths) \subseteq all
      /\ done /\ ~truncated => ToSet(paths) = all
      /\ Len(analysis.seeds) = Seeded =>
           \A x \in ToSet(paths) : \A y \in all \ ToSet(paths) :
             Len(x.steps) <= Len(y.steps)
=============================================================================

----------------------------- MODULE EndpointTrace -----------------------------
(***************************************************************************)
(* The forward traces: buildEndpointTrace and buildInteractionHandlerTrace *)
(* (src/src/tracing/), rooted at an endpoint or a handler.  A work list of *)
(* states (method, call depth, interaction hop, causal class, restriction) *)
(* is walked breadth first; a state that was seen before is dropped,       *)
(* whichever path led to it, and a method that is on the path already is   *)
(* not entered again.  What bounds and cycles cut off is to be diagnosed.  *)
(*                                                                         *)
(* Assertion identifiers are digests, so the order of the successors of    *)
(* one kind is arbitrary.                                                  *)
(***************************************************************************)
EXTENDS TraceFacts

VARIABLES
  queue,        (* The states to visit, in order; all states ever seen.     *)
  cursor,       (* The state of the queue that is visited next.             *)
  pending,      (* Successors of the last state still to be enqueued.       *)
  effects,      (* Terminals: whose table, under which causal class.        *)
  diagnostics   (* Generated diagnostics: code and subject.                 *)

traceVars == <<facts, queue, cursor, pending, effects, diagnostics>>

Classes == {"synchronous", "local_synchronous", "local_asynchronous",
            "critical_section", "distributed"}

Key(s) == <<s.method, s.depth, s.hop, s.class, s.filter>>

Codes == {"CALL_DEPTH_LIMIT", "INTERACTION_CYCLE_TRUNCATED",
          "HOP_LIMIT", "FAN_OUT_LIMIT", "STATE_LIMIT"}

RootClass ==
  [endpoint |-> "synchronous", event |-> "local_synchronous",
   async_event |-> "local_asynchronous", job |-> "distributed"][facts.root]

Root(m) ==
  [method |-> m, depth |-> 0, hop |-> 0, class |-> RootClass, path |-> {m}, filter |-> Everything]

TraceInit ==
  /\ \E k \in DOMAIN Analyses : facts \in Analyses[k]
  /\ queue = <<>> /\ cursor = 1
  /\ pending = {<<3, Root(m)>> : m \in facts.entries}
  /\ effects = {} /\ diagnostics = {}

-----------------------------------------------------------------------------
(* Successors of a state.                                                  *)

SectionClass(class) == IF class = "distributed" THEN "distributed" ELSE "critical_section"

(* The causal class on the other side of an interaction.                   *)
ClassAcross(class, kind) ==
  CASE kind = "job" \/ class = "distributed" -> "distributed"
    [] kind # "job" /\ class = "critical_section" -> "critical_section"
    [] kind = "async_event" /\ class \notin {"distributed", "critical_section"} ->
         "local_asynchronous"
    [] OTHER -> "local_synchronous"

(* selectJobQueueBranches: the branches of worker m that job i may take.   *)
Selected(m, i) ==
  LET dispatch == {b \in facts.branches : b.method = m}
  IN  IF facts.kind[i] # "job" \/ dispatch = {} THEN Everything
      ELSE Only(UNION {b.ids : b \in {d \in dispatch : i \in d.jobs}})

(* The critical section of the method, entered with its lock.              *)
Sections(s) ==
  IF SectionEffects(s.method) # {} /\ (s.filter.restricted => Lock(s.method) \in s.filter.ids)
    THEN {[s EXCEPT !.class = SectionClass(s.class), !.filter = Only(SectionEffects(s.method))]}
    ELSE {}

AppliedSites(s) == {i \in Sites(s.method) : AppliesDirectly(s.filter, Initiate(s.method, i))}

Matches(i) ==
  {facts.handlers[i][k] : k \in {j \in DOMAIN facts.handlers[i] : j <= facts.limits.fanOut}}

(* Mutant of ProvenHandlers: candidates are promoted to effects.           *)
ProvenHandlers_Candidates(i) == Matches(i)

ProvenHandlers(i) == Matches(i) \cap facts.registered

Across(s, i, m) ==
  [method |-> m, depth |-> 0, hop |-> s.hop + 1, class |-> ClassAcross(s.class, facts.kind[i]),
   path |-> s.path \cup {m}, filter |-> Everything]

(* The handlers of the interactions that s initiates, with the interaction. *)
Entered(s) ==
  {e \in AppliedSites(s) \X Methods :
     s.hop < facts.limits.hops /\ e[2] \in ProvenHandlers(e[1]) \ s.path}

Callees(s) ==
  {n \in Methods : <<s.method, n>> \in facts.calls /\ AppliesDirectly(s.filter, Call(s.method, n))}

(* A callee that is on the path already is dropped without a diagnostic.   *)
Calls(s) ==
  {[s EXCEPT !.method = n, !.depth = s.depth + 1, !.path = s.path \cup {n}, !.filter = Everything] :
     n \in {c \in Callees(s) : s.depth < facts.limits.depth /\ c \notin s.path}}

(* A trace rooted at an endpoint restricts a worker to the branches that   *)
(* the job selects.                                                        *)
Successors(s) ==
  ({1} \X Sections(s))
    \cup {<<2, [Across(s, e[1], e[2]) EXCEPT !.filter = Selected(e[2], e[1])]>> : e \in Entered(s)}
    \cup ({3} \X Calls(s))

(* A trace rooted at a handler enqueues calls first and selects nothing.   *)
HandlerSuccessors(s) ==
  ({1} \X Sections(s))
    \cup ({2} \X Calls(s))
    \cup {<<3, Across(s, e[1], e[2])>> : e \in Entered(s)}

(* Mutant of CutOffs: the bound on calls is applied but not reported.      *)
CutOffs_DepthUnsaid(s) ==
  {<<"INTERACTION_CYCLE_TRUNCATED", m>> :
     m \in s.path \cap UNION {ProvenHandlers(i) : i \in AppliedSites(s)}}

(* What is cut off here, and said so.                                      *)
CutOffs(s) ==
  {<<"FAN_OUT_LIMIT", i>> :
     i \in {j \in AppliedSites(s) : Len(facts.handlers[j]) > facts.limits.fanOut}}
    \cup {<<"INTERACTION_CYCLE_TRUNCATED", m>> :
            m \in s.path \cap UNION {ProvenHandlers(i) : i \in AppliedSites(s)}}
    \cup {<<"HOP_LIMIT", i>> :
            i \in {j \in AppliedSites(s) :
                     s.hop >= facts.limits.hops /\ ProvenHandlers(j) \ s.path # {}}}
    \cup (IF s.depth >= facts.limits.depth /\ Callees(s) # {}
             THEN {<<"CALL_DEPTH_LIMIT", s.method>>} ELSE {})

-----------------------------------------------------------------------------
(* The walk.                                                               *)

Seen(s) == \E q \in DOMAIN queue : Key(queue[q]) = Key(s)

(* The limit is reported once per trace.                                   *)
LimitReported == \E d \in diagnostics : d[1] = "STATE_LIMIT"

Enqueue ==
  \E p \in pending :
    /\ \A other \in pending : p[1] <= other[1]
    /\ pending' = pending \ {p}
    /\ \/ Seen(p[2]) /\ UNCHANGED <<queue, diagnostics>>
       \/ /\ ~Seen(p[2]) /\ Len(queue) >= facts.limits.states
          /\ diagnostics' = IF LimitReported THEN diagnostics
                            ELSE diagnostics \cup {<<"STATE_LIMIT", p[2].method>>}
          /\ UNCHANGED queue
       \/ /\ ~Seen(p[2]) /\ Len(queue) < facts.limits.states
          /\ queue' = Append(queue, p[2])
          /\ UNCHANGED diagnostics
    /\ UNCHANGED <<facts, cursor, effects>>

Visit ==
  /\ pending = {} /\ cursor <= Len(queue)
  /\ LET s == queue[cursor] IN
       /\ pending'     = IF facts.root = "endpoint" THEN Successors(s) ELSE HandlerSuccessors(s)
       /\ diagnostics' = diagnostics \cup CutOffs(s)
       /\ effects'     = effects \cup (IF AppliesDirectly(s.filter, Access(s.method))
                                         THEN {<<s.method, s.class>>} ELSE {})
  /\ cursor' = cursor + 1
  /\ UNCHANGED <<facts, queue>>

TraceNext == Enqueue \/ Visit

Traced == pending = {} /\ cursor > Len(queue)

-----------------------------------------------------------------------------
(* What the facts say, bounds and paths aside.  A story is a method and    *)
(* what happened on a way there: whether a job queue was crossed, whether  *)
(* a critical section was entered, how the last local listener was called, *)
(* and the job (if any) that the method was called with.                   *)

Stories ==
  [method : Methods, queued : BOOLEAN, locked : BOOLEAN,
   last : {"none", "sync", "async"}, job : SUBSET Interactions]

Happens(r, a) ==
  LET dispatch == {b \in facts.branches : b.method = r.method}
  IN  \/ r.job = {} \/ dispatch = {}
      \/ \E b \in dispatch : /\ r.job \subseteq b.jobs
                            /\ (a \in b.ids \/ (a \in facts.scoped /\ Lock(r.method) \in b.ids))

After(r, a) == r.locked \/ a \in facts.scoped

StoryClass(r, a) ==
  IF r.queued THEN "distributed" ELSE
  IF After(r, a) THEN "critical_section" ELSE
  [none |-> "synchronous", sync |-> "local_synchronous", async |-> "local_asynchronous"][r.last]

Told(r) ==
  {[r EXCEPT !.method = n, !.locked = After(r, Call(r.method, n)), !.job = {}] :
     n \in {x \in Methods : <<r.method, x>> \in facts.calls /\ Happens(r, Call(r.method, x))}}
  \cup
  UNION {{[method |-> m, queued |-> r.queued \/ facts.kind[i] = "job",
           locked |-> After(r, Initiate(r.method, i)),
           last   |-> IF facts.kind[i] = "async_event" THEN "async" ELSE "sync",
           job    |-> {i} \cap {j \in Interactions : facts.kind[j] = "job"}] :
            m \in {x \in facts.registered : Handles(x, i)}} :
         i \in {j \in Sites(r.method) : Happens(r, Initiate(r.method, j))}}

Closure[rs \in SUBSET Stories] ==
  LET more == rs \cup UNION {Told(r) : r \in rs}
  IN  IF more = rs THEN rs ELSE Closure[more]

Reachable ==
  Closure[{[method |-> m, queued |-> facts.root = "job", locked |-> FALSE, job |-> {},
            last |-> [endpoint |-> "none", event |-> "sync", async_event |-> "async",
                      job |-> "none"][facts.root]] :
             m \in facts.entries}]

TrueEffects ==
  {<<r.method, StoryClass(r, Access(r.method))>> :
     r \in {x \in Reachable : Happens(x, Access(x.method))}}

-----------------------------------------------------------------------------
(* Properties.                                                             *)

(* Nothing is invented: an effect is listed under a causal class only if   *)
(* some chain of calls, proven handlers, selected branches and critical    *)
(* sections from the root has this class.  In particular a synchronous     *)
(* effect is reached by calls alone.  A trace rooted at a handler does not *)
(* select branches, and this needs there to be none.                       *)
EffectsProven ==
  Traced /\ (facts.root = "endpoint" \/ facts.branches = {}) => effects \subseteq TrueEffects

Links(m) ==
  {n \in Methods : <<m, n>> \in facts.calls}
    \cup {n \in facts.registered : \E i \in Sites(m) : Handles(n, i)}

Below[ms \in SUBSET Methods] ==
  LET more == ms \cup UNION {Links(m) : m \in ms}
  IN  IF more = ms THEN ms ELSE Below[more]

(* A worker that dispatches on job names is called by what it leads to.    *)
DispatcherRecurs ==
  \E b \in facts.branches : \E n \in Below[{b.method}] : <<n, b.method>> \in facts.calls

(* No method's effect is missing from a trace that reports itself complete *)
(* (causalSummary.completeness): whatever bounds and cycles cut off leaves *)
(* a diagnostic.  The exception is a call back into a method that is on    *)
(* the path under a restriction to branches.                               *)
NothingSilentlyCut ==
  Traced /\ diagnostics = {} /\ ~DispatcherRecurs =>
    {e[1] : e \in TrueEffects} \subseteq {e[1] : e \in effects}
=============================================================================

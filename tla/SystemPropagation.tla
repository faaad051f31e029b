-------------------------- MODULE SystemPropagation --------------------------
(***************************************************************************)
(* propagateConditionalSystemImpact (src/src/system-impact/propagate.ts):  *)
(* how far a change may spread from producers through brokers to the       *)
(* handlers of other services, on the side before and the side after.      *)
(*                                                                         *)
(* Each side is searched breadth first from its seeds; the side after gets *)
(* what the side before left of the limits.  Identifiers of assertions and *)
(* evidence, and the overlay drawn from the paths, are left out.           *)
(***************************************************************************)
EXTENDS Naturals, FiniteSets, SequencesExt

CONSTANTS
  Producers, Consumers,
  Systems,    (* Pairs of sides to search: functions from Sides to sides.   *)
  Limits      (* The limits considered: hops, effects, and, for both sides  *)
              (* together, paths and states.                                *)

ASSUME LimitsAssumption ==
  \A l \in Limits : {l.hops, l.paths, l.effects, l.states} \subseteq Nat \ {0}

Sides == {"before", "after"}

(* A search starts from producers that changed endpoints of a service      *)
(* reach, and from producers that are changed themselves.                  *)
SeedKinds == {"local", "changed"}

(* seeds: the seeds with their producers, sorted.  routes: the traversable *)
(* correlations of a producer, each the list of its consumers.  handled:   *)
(* the consumers whose handler trace can be built.  effects, onward: the   *)
(* number of effects, and the producers, a consumer's handler leads to     *)
(* when a given producer is what it handles.                               *)
SideOK(s) ==
  /\ s.seeds   \in Seq([seed : SeedKinds, producer : Producers])
  /\ s.routes  \in [Producers -> Seq(Seq(Consumers))]
  /\ s.handled \subseteq Consumers
  /\ s.effects \in [Producers -> [Consumers -> Nat]]
  /\ s.onward  \in [Producers -> [Consumers -> Seq(Producers)]]

ASSUME SystemsAssumption == \A y \in Systems : \A s \in Sides : SideOK(y[s])

VARIABLES
  system,     (* The system that is searched; it never changes.             *)
  limits,     (* The limits it is searched with; they never change.         *)
  side,       (* "before", "after" or "done".                               *)
  queue,      (* The traversal states not yet taken.                        *)
  current,    (* The one being expanded.                                    *)
  visits,     (* Its correlations and consumers not yet visited.            *)
  found       (* For each side, its paths and its counters.                 *)

vars == <<system, limits, side, queue, current, visits, found>>

Here == system[side]

Hops == [producer : Producers, route : Nat, consumer : Consumers]

-----------------------------------------------------------------------------
StatesOf(s) ==
  [k \in DOMAIN s.seeds |->
     [seed |-> s.seeds[k].seed, producer |-> s.seeds[k].producer,
      hops |-> <<>>, visited |-> {s.seeds[k].producer}]]

Nothing == [paths |-> {}, omitted |-> 0, effectsOmitted |-> 0, states |-> 0, stopped |-> FALSE]

Init ==
  /\ system \in Systems /\ limits \in Limits
  /\ side = "before" /\ queue = StatesOf(system["before"])
  /\ current = <<>> /\ visits = <<>>
  /\ found = [s \in Sides |-> Nothing]

Left(limit, used) == IF side = "before" THEN limit ELSE limit - used

PathsLeft  == Left(limits.paths, Cardinality(found["before"].paths))
StatesLeft == Left(limits.states, found["before"].states)

Exhausted == found[side].states >= StatesLeft

(* A path that is truncated ends before the producer at.                   *)
Path(hops, end, at, effects) ==
  [seed |-> current.seed, hops |-> hops, end |-> end, at |-> at, effects |-> effects]

AddPath(f, path) ==
  CASE path \in f.paths -> f
    [] path \notin f.paths /\ Cardinality(f.paths) >= PathsLeft ->
         [f EXCEPT !.omitted = @ + 1]
    [] OTHER -> [f EXCEPT !.paths = @ \cup {path}]

(* The elements of s that are in S, in their order.                        *)
Only(s, S) == FoldLeft(LAMBDA kept, x : IF x \in S THEN Append(kept, x) ELSE kept, <<>>, s)

Counted == [found[side] EXCEPT !.states = @ + 1]

-----------------------------------------------------------------------------
(* The next state of the queue.                                            *)

VisitsOf(producer) ==
  FlattenSeq([r \in DOMAIN Here.routes[producer] |->
                [k \in DOMAIN Here.routes[producer][r] |->
                   [route |-> r, consumer |-> Here.routes[producer][r][k]]]])

(* Mutant of AtHopLimit: one hop too many.                                 *)
AtHopLimit_Past(state) == Len(state.hops) > limits.hops

AtHopLimit(state) == Len(state.hops) >= limits.hops

Take ==
  /\ side \in Sides /\ visits = <<>> /\ queue # <<>> /\ ~Exhausted
  /\ queue' = Tail(queue)
  /\ current' = Head(queue)
  /\ \/ /\ AtHopLimit(Head(queue))
        /\ found' = [found EXCEPT ![side] =
             AddPath(Counted, [seed |-> Head(queue).seed, hops |-> Head(queue).hops,
                               end |-> "hop_limit", at |-> {Head(queue).producer},
                               effects |-> 0])]
        /\ UNCHANGED visits
     \/ /\ ~AtHopLimit(Head(queue))
        /\ found'  = [found EXCEPT ![side] = Counted]
        /\ visits' = VisitsOf(Head(queue).producer)
  /\ UNCHANGED <<system, limits, side>>

(* The limit on states ends the search; what is queued is counted.         *)
StopAtStateLimit ==
  /\ side \in Sides /\ visits = <<>> /\ queue # <<>> /\ Exhausted
  /\ queue' = <<>>
  /\ found' = [found EXCEPT ![side].stopped = TRUE, ![side].omitted = @ + Len(queue)]
  /\ UNCHANGED <<system, limits, side, current, visits>>

-----------------------------------------------------------------------------
(* The next consumer that the current state's producer may reach.          *)

Arrived ==
  Append(current.hops, [producer |-> current.producer, route |-> Head(visits).route,
                        consumer |-> Head(visits).consumer])

EffectsHere == Here.effects[current.producer][Head(visits).consumer]

KeptEffects == IF EffectsHere < limits.effects THEN EffectsHere ELSE limits.effects

OnwardHere == Here.onward[current.producer][Head(visits).consumer]

(* Mutant of NewPaths: where the search runs into a cycle is not reported. *)
NewPaths_NoCycles == <<Path(Arrived, "none", {}, KeptEffects)>>

(* Mutant of NewPaths: cycles are reported first.                          *)
NewPaths_CyclesFirst ==
  LET cyclic == Only(OnwardHere, current.visited)
  IN  Append([k \in DOMAIN cyclic |-> Path(Arrived, "cycle", {cyclic[k]}, 0)],
             Path(Arrived, "none", {}, KeptEffects))

NewPaths ==
  LET cyclic == Only(OnwardHere, current.visited)
  IN  <<Path(Arrived, "none", {}, KeptEffects)>>
        \o [k \in DOMAIN cyclic |-> Path(Arrived, "cycle", {cyclic[k]}, 0)]

NewStates ==
  LET onward == Only(OnwardHere, Producers \ current.visited)
  IN  [k \in DOMAIN onward |->
         [seed |-> current.seed, producer |-> onward[k], hops |-> Arrived,
          visited |-> current.visited \cup {onward[k]}]]

Visit ==
  /\ visits # <<>> /\ ~Exhausted /\ Head(visits).consumer \in Here.handled
  /\ found' = [found EXCEPT ![side] =
       FoldLeft(AddPath, [Counted EXCEPT !.effectsOmitted = @ + (EffectsHere - KeptEffects)],
                NewPaths)]
  /\ queue'  = queue \o NewStates
  /\ visits' = Tail(visits)
  /\ UNCHANGED <<system, limits, side, current>>

(* No handler trace: the consumer is counted as a state and no more.       *)
PassOver ==
  /\ visits # <<>> /\ ~Exhausted /\ Head(visits).consumer \notin Here.handled
  /\ found'  = [found EXCEPT ![side] = Counted]
  /\ visits' = Tail(visits)
  /\ UNCHANGED <<system, limits, side, queue, current>>

(* The limit on states ends the loop over one correlation's consumers; one *)
(* path is counted however many are left.                                  *)
SkipRoute ==
  /\ visits # <<>> /\ Exhausted
  /\ found'  = [found EXCEPT ![side].stopped = TRUE, ![side].omitted = @ + 1]
  /\ visits' = Only(visits, {v \in ToSet(visits) : v.route # Head(visits).route})
  /\ UNCHANGED <<system, limits, side, queue, current>>

EndSide ==
  /\ side \in Sides /\ visits = <<>> /\ queue = <<>>
  /\ side'  = IF side = "before" THEN "after" ELSE "done"
  /\ queue' = IF side = "before" THEN StatesOf(system["after"]) ELSE <<>>
  /\ UNCHANGED <<system, limits, current, visits, found>>

Next == Take \/ StopAtStateLimit \/ Visit \/ PassOver \/ SkipRoute \/ EndSide

Spec == Init /\ [][Next]_vars

-----------------------------------------------------------------------------
(* Properties.                                                             *)

(* The hops that are possible on a side.                                   *)
HopsOn(s) ==
  {h \in [producer : Producers,
          route : UNION {DOMAIN s.routes[p] : p \in Producers}, consumer : s.handled] :
     /\ h.route \in DOMAIN s.routes[h.producer]
     /\ h.consumer \in ToSet(s.routes[h.producer][h.route])}

(* Chains of hops from a producer, each of another producer.               *)
Chains(s, first) ==
  {c \in SeqOf(HopsOn(s), limits.hops) \ {<<>>} :
     /\ c[1].producer = first
     /\ \A k \in 2..Len(c) :
          c[k].producer \in ToSet(s.onward[c[k - 1].producer][c[k - 1].consumer])
     /\ \A j, k \in DOMAIN c : c[j].producer = c[k].producer => j = k}

(* What a chain says by itself, and where it cannot go on.                 *)
PathsOf(s, seed, c) ==
  LET last     == c[Len(c)]
      onward   == ToSet(s.onward[last.producer][last.consumer])
      repeated == {p \in onward : \E k \in DOMAIN c : c[k].producer = p}
      cut(end, ps) ==
        {[seed |-> seed, hops |-> c, end |-> end, at |-> {p}, effects |-> 0] : p \in ps}
  IN  {[seed |-> seed, hops |-> c, end |-> "none", at |-> {},
        effects |-> s.effects[last.producer][last.consumer]]}
        \cup cut("cycle", repeated)
        \cup (IF Len(c) = limits.hops THEN cut("hop_limit", onward \ repeated) ELSE {})

AllPaths(s) ==
  UNION {UNION {PathsOf(s, x.seed, c) : c \in Chains(s, x.producer)} : x \in ToSet(s.seeds)}

(* No limit and no cycle hides anything: when the counters say that nothing*)
(* was omitted, the paths are all there are, all effects included, and one *)
(* says so wherever the search was cut.                                    *)
NothingSilent ==
  side = "done" =>
    \A s \in Sides :
      found[s].omitted = 0 /\ found[s].effectsOmitted = 0 =>
        found[s].paths = AllPaths(system[s])

(* Limits cut the far end: whatever is reported at some distance, all that *)
(* leads to it is reported too.                                            *)
PrefixesKept ==
  \A s \in Sides : \A x \in found[s].paths :
    \A n \in 1..Len(x.hops) :
      n < Len(x.hops) \/ x.end # "none" =>
        \E y \in found[s].paths :
          y.seed = x.seed /\ y.hops = SubSeq(x.hops, 1, n) /\ y.end = "none"
=============================================================================

-------------------------- MODULE ImpactPaths_proofs --------------------------
(***************************************************************************)
(* Proofs about traces and the impact search (EndpointTrace, ImpactPaths), *)
(* for every analysis.                                                     *)
(***************************************************************************)
EXTENDS ImpactPaths, FiniteSetTheorems, TLAPS

-----------------------------------------------------------------------------
(* A closure that is written as a recursive function on sets is the least   *)
(* closed set, if the elements are finite in number.                        *)

Grown(grow, rs) == rs \cup UNION {grow[r] : r \in rs}

Recursion(S, grow, f) ==
  [rs \in SUBSET S |-> IF Grown(grow, rs) = rs THEN rs ELSE f[Grown(grow, rs)]]

ClosedSets(S, grow) == {T \in SUBSET S : \A r \in T : grow[r] \subseteq T}

Least(S, grow, rs) == {x \in S : \A T \in ClosedSets(S, grow) : rs \subseteq T => x \in T}

LEMMA LeastFacts ==
  ASSUME NEW S, NEW grow \in [S -> SUBSET S], NEW rs \in SUBSET S
  PROVE  /\ rs \subseteq Least(S, grow, rs)
         /\ Least(S, grow, rs) \in ClosedSets(S, grow)
         /\ \A T \in ClosedSets(S, grow) : rs \subseteq T => Least(S, grow, rs) \subseteq T
  <1>1. rs \subseteq Least(S, grow, rs)
    BY DEF Least
  <1>2. ASSUME NEW r \in Least(S, grow, rs), NEW x \in grow[r]
        PROVE  x \in Least(S, grow, rs)
    <2>1. r \in S /\ x \in S
      BY <1>2 DEF Least
    <2>2. ASSUME NEW T \in ClosedSets(S, grow), rs \subseteq T
          PROVE  x \in T
      <3>1. r \in T
        BY <2>2 DEF Least
      <3> QED
        BY <3>1, <1>2 DEF ClosedSets
    <2> QED
      BY <2>1, <2>2 DEF Least
  <1>3. Least(S, grow, rs) \in ClosedSets(S, grow)
    BY <1>2 DEF Least, ClosedSets
  <1> QED
    BY <1>1, <1>3 DEF Least

LEMMA LeastGrown ==
  ASSUME NEW S, NEW grow \in [S -> SUBSET S], NEW rs \in SUBSET S
  PROVE  /\ Grown(grow, rs) \in SUBSET S
         /\ Least(S, grow, Grown(grow, rs)) = Least(S, grow, rs)
         /\ Grown(grow, rs) = rs => Least(S, grow, rs) = rs
  <1>1. Grown(grow, rs) \in SUBSET S
    BY DEF Grown
  <1>2. ASSUME NEW T \in ClosedSets(S, grow)
        PROVE  rs \subseteq T <=> Grown(grow, rs) \subseteq T
    BY DEF Grown, ClosedSets
  <1>3. Least(S, grow, Grown(grow, rs)) = Least(S, grow, rs)
    BY <1>2 DEF Least
  <1>4. ASSUME Grown(grow, rs) = rs
        PROVE  Least(S, grow, rs) = rs
    <2>1. rs \in ClosedSets(S, grow)
      BY <1>4 DEF Grown, ClosedSets
    <2>2. Least(S, grow, rs) \subseteq rs
      BY <2>1, LeastFacts
    <2>3. rs \subseteq Least(S, grow, rs)
      BY LeastFacts
    <2> QED
      BY <2>2, <2>3
  <1> QED
    BY <1>1, <1>3, <1>4

LEMMA RecursionIsLeast ==
  ASSUME NEW S, IsFiniteSet(S), NEW grow \in [S -> SUBSET S],
         NEW f, f = Recursion(S, grow, f), NEW rs \in SUBSET S
  PROVE  f[rs] = Least(S, grow, rs)
  <1> SUFFICES ASSUME f[rs] # Least(S, grow, rs)
               PROVE  FALSE
    OBVIOUS
  <1> DEFINE Wrong == {S \ ts : ts \in {us \in SUBSET S : f[us] # Least(S, grow, us)}}
  <1>1. Wrong \subseteq FiniteSubsetsOf(S)
    <2>1. \A w \in Wrong : w \in SUBSET S
      OBVIOUS
    <2>2. \A w \in SUBSET S : IsFiniteSet(w)
      BY FS_Subset
    <2> QED
      BY <2>1, <2>2 DEF FiniteSubsetsOf
  <1>2. Wrong # {}
    OBVIOUS
  <1>3. IsWellFoundedOn(StrictSubsetOrdering(S), FiniteSubsetsOf(S))
    BY FS_StrictSubsetOrderingWellFounded
  <1>4. PICK w \in Wrong : \A v \in Wrong : <<v, w>> \notin StrictSubsetOrdering(S)
    <2> HIDE DEF Wrong
    <2> QED
      BY <1>1, <1>2, <1>3, WFMin
  <1>5. PICK ts \in SUBSET S : w = S \ ts /\ f[ts] # Least(S, grow, ts)
    OBVIOUS
  <1> DEFINE more == Grown(grow, ts)
  <1>6. more \in SUBSET S /\ ts \subseteq more
    BY DEF Grown
  <1>7. f[ts] = IF more = ts THEN ts ELSE f[more]
    BY DEF Recursion
  <1> HIDE DEF more
  <1>8. more # ts
    BY <1>5, <1>7, LeastGrown DEF more
  <1>9. f[more] = Least(S, grow, more)
    <2>1. SUFFICES ASSUME f[more] # Least(S, grow, more)
                   PROVE  FALSE
      OBVIOUS
    <2>2. S \ more \in Wrong
      BY <1>6, <2>1
    <2>3. <<S \ more, w>> \in StrictSubsetOrdering(S)
      BY <1>5, <1>6, <1>8 DEF StrictSubsetOrdering
    <2> QED
      BY <1>4, <2>2, <2>3
  <1> QED
    BY <1>5, <1>7, <1>8, <1>9, LeastGrown DEF more

LEMMA RecursionExists ==
  ASSUME NEW S, NEW grow \in [S -> SUBSET S]
  PROVE  \E f : f = Recursion(S, grow, f)
  <1> DEFINE f == [rs \in SUBSET S |-> Least(S, grow, rs)]
  <1>1. \A rs \in SUBSET S :
          f[rs] = IF Grown(grow, rs) = rs THEN rs ELSE f[Grown(grow, rs)]
    BY LeastGrown
  <1>2. f = Recursion(S, grow, f)
    BY <1>1 DEF Recursion
  <1> QED
    BY <1>2

-----------------------------------------------------------------------------
(* Stories and links.                                                       *)

LEMMA StoriesFinite == IsFiniteSet(Stories)
  <1> DEFINE Lasts == {"none", "sync", "async"}
             Tuples == (((Methods \X BOOLEAN) \X BOOLEAN) \X Lasts) \X SUBSET Interactions
             story == [t \in Tuples |->
                         [method |-> t[1][1][1][1], queued |-> t[1][1][1][2],
                          locked |-> t[1][1][2], last |-> t[1][2], job |-> t[2]]]
  <1>1. IsFiniteSet(BOOLEAN) /\ IsFiniteSet(Lasts)
    <2>1. IsFiniteSet(({} \cup {TRUE}) \cup {FALSE})
      BY FS_EmptySet, FS_AddElement
    <2>2. IsFiniteSet((({} \cup {"none"}) \cup {"sync"}) \cup {"async"})
      BY FS_EmptySet, FS_AddElement
    <2>3. BOOLEAN = ({} \cup {TRUE}) \cup {FALSE}
      OBVIOUS
    <2>4. Lasts = (({} \cup {"none"}) \cup {"sync"}) \cup {"async"}
      OBVIOUS
    <2> QED
      BY <2>1, <2>2, <2>3, <2>4
  <1>2. IsFiniteSet(Methods) /\ IsFiniteSet(SUBSET Interactions)
    BY FiniteAssumption, FS_SUBSET
  <1> HIDE DEF Lasts
  <1>3. IsFiniteSet(Tuples)
    <2>1. IsFiniteSet(Methods \X BOOLEAN)
      BY <1>1, <1>2, FS_Product
    <2>2. IsFiniteSet((Methods \X BOOLEAN) \X BOOLEAN)
      BY <1>1, <2>1, FS_Product
    <2>3. IsFiniteSet(((Methods \X BOOLEAN) \X BOOLEAN) \X Lasts)
      BY <1>1, <2>2, FS_Product
    <2> QED
      BY <1>2, <2>3, FS_Product
  <1>4. \A t \in Tuples : story[t] \in Stories
    BY DEF Stories, Lasts
  <1>5. \A r \in Stories : \E t \in Tuples : story[t] = r
    <2> TAKE r \in Stories
    <2> DEFINE t == << << << <<r.method, r.queued>>, r.locked>>, r.last>>, r.job>>
    <2>1. t \in Tuples
      BY DEF Stories, Lasts
    <2>2. story[t] = r
      BY <2>1 DEF Stories
    <2> QED
      BY <2>1, <2>2
  <1> HIDE DEF Tuples
  <1>6. story \in Surjection(Tuples, Stories)
    <2>1. story \in [Tuples -> Stories]
      BY <1>4
    <2> HIDE DEF story
    <2> QED
      BY <1>5, <2>1 DEF Surjection
  <1> HIDE DEF story
  <1> QED
    BY <1>3, <1>6, FS_Surjection

LEMMA BelowIsRecursion ==
  ASSUME FactsOK(facts)
  PROVE  LET links == [m \in Methods |-> Links(m)]
         IN  /\ links \in [Methods -> SUBSET Methods]
             /\ Below = Recursion(Methods, links, Below)
  <1> DEFINE links == [m \in Methods |-> Links(m)]
             more(ms) == ms \cup UNION {Links(m) : m \in ms}
             once(f) == [ms \in SUBSET Methods |-> IF more(ms) = ms THEN ms ELSE f[more(ms)]]
  <1>1. links \in [Methods -> SUBSET Methods]
    <2>1. \A m \in Methods : Links(m) \subseteq Methods
      BY DEF Links, FactsOK
    <2> QED
      BY <2>1
  <1>2. \A ms \in SUBSET Methods : more(ms) = Grown(links, ms)
    BY DEF Grown
  <1>3. \A f : once(f) = Recursion(Methods, links, f)
    <2> HIDE DEF more, links
    <2> QED
      BY <1>2 DEF Recursion
  <1>4. \E f : f = once(f)
    <2> HIDE DEF links, once
    <2> QED
      BY <1>1, <1>3, RecursionExists
  <1>5. Below = once(Below)
    <2>1. Below = CHOOSE f : f = once(f)
      BY DEF Below
    <2> HIDE DEF once
    <2> QED
      BY <1>4, <2>1
  <1> QED
    <2> HIDE DEF once, links
    <2>1. Below = Recursion(Methods, links, Below)
      BY <1>3, <1>5
    <2> QED
      BY <1>1, <2>1 DEF links
LEMMA BelowFacts ==
  ASSUME FactsOK(facts), NEW m \in Methods
  PROVE  /\ m \in Below[{m}] /\ Below[{m}] \subseteq Methods
         /\ \A n \in Below[{m}] : Links(n) \subseteq Below[{m}]
  <1> DEFINE links == [x \in Methods |-> Links(x)]
  <1>1. links \in [Methods -> SUBSET Methods] /\ Below = Recursion(Methods, links, Below)
    BY BelowIsRecursion
  <1>2. IsFiniteSet(Methods)
    BY FiniteAssumption
  <1>3. Below[{m}] = Least(Methods, links, {m})
    <2> HIDE DEF links
    <2> QED
      BY <1>1, <1>2, RecursionIsLeast
  <1>4. \A T : T \in ClosedSets(Methods, links) <=>
                 T \in SUBSET Methods /\ \A n \in T : Links(n) \subseteq T
    BY DEF ClosedSets
  <1> HIDE DEF links
  <1>5. {m} \subseteq Below[{m}] /\ Below[{m}] \in ClosedSets(Methods, links)
    BY <1>1, <1>3, LeastFacts
  <1> QED
    BY <1>4, <1>5

(* What a story leads to is a story.                                        *)
LEMMA ToldAreStories ==
  ASSUME FactsOK(facts), NEW r \in Stories
  PROVE  Told(r) \subseteq Stories
  <1> DEFINE calls == {n \in Methods : <<r.method, n>> \in facts.calls
                                         /\ Happens(r, Call(r.method, n))}
             sites == {j \in Sites(r.method) : Happens(r, Initiate(r.method, j))}
             called(n) == [r EXCEPT !.method = n, !.locked = After(r, Call(r.method, n)),
                                    !.job = {}]
             across(i, m) ==
               [method |-> m, queued |-> r.queued \/ facts.kind[i] = "job",
                locked |-> After(r, Initiate(r.method, i)),
                last   |-> IF facts.kind[i] = "async_event" THEN "async" ELSE "sync",
                job    |-> {i} \cap {j \in Interactions : facts.kind[j] = "job"}]
             handlers(i) == {x \in facts.registered : Handles(x, i)}
  <1>1. r.locked \in BOOLEAN /\ r.queued \in BOOLEAN
    BY DEF Stories
  <1>2. \A a : After(r, a) \in BOOLEAN
    BY <1>1 DEF After
  <1>3. \A n \in calls : called(n) \in Stories
    <2> TAKE n \in calls
    <2> DEFINE later == After(r, Call(r.method, n))
    <2>1. n \in Methods /\ later \in BOOLEAN
      BY <1>2
    <2> HIDE DEF later, calls
    <2> QED
      BY <2>1 DEF Stories, later
  <1>4. \A i \in sites : \A m \in handlers(i) : across(i, m) \in Stories
    <2> TAKE i \in sites
    <2> TAKE m \in handlers(i)
    <2> DEFINE later == After(r, Initiate(r.method, i))
               also == r.queued \/ facts.kind[i] = "job"
               jobs == {i} \cap {j \in Interactions : facts.kind[j] = "job"}
    <2>1. m \in Methods
      BY DEF FactsOK
    <2>2. later \in BOOLEAN /\ also \in BOOLEAN /\ jobs \in SUBSET Interactions
      BY <1>1, <1>2
    <2> HIDE DEF later, also, jobs, sites, handlers
    <2> QED
      BY <2>1, <2>2 DEF Stories, later, also, jobs
  <1>5. Told(r) = {called(n) : n \in calls}
                    \cup UNION {{across(i, m) : m \in handlers(i)} : i \in sites}
    BY DEF Told
  <1> HIDE DEF calls, sites, called, across, handlers
  <1> QED
    BY <1>3, <1>4, <1>5

LEMMA ClosureIsRecursion ==
  ASSUME FactsOK(facts)
  PROVE  LET telling == [r \in Stories |-> Told(r)]
         IN  /\ telling \in [Stories -> SUBSET Stories]
             /\ Closure = Recursion(Stories, telling, Closure)
  <1> DEFINE telling == [r \in Stories |-> Told(r)]
             more(rs) == rs \cup UNION {Told(r) : r \in rs}
             once(f) == [rs \in SUBSET Stories |-> IF more(rs) = rs THEN rs ELSE f[more(rs)]]
  <1>1. telling \in [Stories -> SUBSET Stories]
    BY ToldAreStories
  <1>2. \A rs \in SUBSET Stories : more(rs) = Grown(telling, rs)
    BY DEF Grown
  <1>3. \A f : once(f) = Recursion(Stories, telling, f)
    <2> HIDE DEF more, telling
    <2> QED
      BY <1>2 DEF Recursion
  <1>4. \E f : f = once(f)
    <2> HIDE DEF telling, once
    <2> QED
      BY <1>1, <1>3, RecursionExists
  <1>5. Closure = once(Closure)
    <2>1. Closure = CHOOSE f : f = once(f)
      BY DEF Closure
    <2> HIDE DEF once
    <2> QED
      BY <1>4, <2>1
  <1> QED
    <2> HIDE DEF once, telling
    <2>1. Closure = Recursion(Stories, telling, Closure)
      BY <1>3, <1>5
    <2> QED
      BY <1>1, <2>1 DEF telling

Beginnings ==
  {[method |-> m, queued |-> facts.root = "job", locked |-> FALSE, job |-> {},
    last |-> [endpoint |-> "none", event |-> "sync", async_event |-> "async",
              job |-> "none"][facts.root]] : m \in facts.entries}

LEMMA BeginningsAreStories ==
  ASSUME FactsOK(facts)
  PROVE  Beginnings \subseteq Stories
  <1> DEFINE first == [endpoint |-> "none", event |-> "sync", async_event |-> "async",
                       job |-> "none"][facts.root]
             queued == facts.root = "job"
             story(m) == [method |-> m, queued |-> queued, locked |-> FALSE, job |-> {},
                          last |-> first]
  <1>1. facts.entries \subseteq Methods /\ facts.root \in {"endpoint"} \cup Kinds
    BY DEF FactsOK
  <1>2. first \in {"none", "sync", "async"} /\ queued \in BOOLEAN
    BY <1>1 DEF Kinds
  <1>3. Beginnings = {story(m) : m \in facts.entries}
    BY DEF Beginnings
  <1>4. \A m \in facts.entries : story(m) \in Stories
    <2> HIDE DEF first, queued
    <2> QED
      BY <1>1, <1>2 DEF Stories
  <1> HIDE DEF story
  <1> QED
    BY <1>3, <1>4

(* A set of stories that has the beginnings and what its stories lead to.   *)
Complete(T) ==
  /\ T \in SUBSET Stories /\ Beginnings \subseteq T
  /\ \A r \in T : Told(r) \subseteq T

LEMMA ReachableIsLeast ==
  ASSUME FactsOK(facts)
  PROVE  /\ Complete(Reachable)
         /\ \A T : Complete(T) => Reachable \subseteq T
  <1> DEFINE telling == [r \in Stories |-> Told(r)]
  <1>1. telling \in [Stories -> SUBSET Stories] /\ Closure = Recursion(Stories, telling, Closure)
    BY ClosureIsRecursion
  <1>2. Beginnings \in SUBSET Stories
    BY BeginningsAreStories
  <1>3. Reachable = Closure[Beginnings]
    BY DEF Reachable, Beginnings
  <1>4. Reachable = Least(Stories, telling, Beginnings)
    <2> HIDE DEF telling
    <2> QED
      BY <1>1, <1>2, <1>3, StoriesFinite, RecursionIsLeast
  <1>5. \A T : T \in ClosedSets(Stories, telling) <=>
                 T \in SUBSET Stories /\ \A r \in T : Told(r) \subseteq T
    BY DEF ClosedSets
  <1> HIDE DEF telling
  <1>6. /\ Beginnings \subseteq Reachable
        /\ Reachable \in ClosedSets(Stories, telling)
        /\ \A T \in ClosedSets(Stories, telling) : Beginnings \subseteq T => Reachable \subseteq T
    BY <1>1, <1>2, <1>4, LeastFacts
  <1> QED
    BY <1>5, <1>6 DEF Complete

-----------------------------------------------------------------------------
(* The facts do not change, and so nothing does that is made of them.       *)

LEMMA HappensStays ==
  ASSUME facts' = facts, NEW r, NEW a
  PROVE  Happens(r, a)' <=> Happens(r, a)
  BY DEF Happens, Lock

LEMMA ToldStays ==
  ASSUME facts' = facts, NEW r
  PROVE  Told(r)' = Told(r)
  BY DEF Told, Happens, Lock, After, Call, Initiate, Sites, Handles

LEMMA ReachableStays ==
  ASSUME facts' = facts
  PROVE  Reachable' = Reachable
  BY DEF Reachable, Closure, Told, Happens, Lock, After, Call, Initiate, Sites, Handles

LEMMA BelowStays ==
  ASSUME facts' = facts
  PROVE  Below' = Below
  BY DEF Below, Links, Sites, Handles

LEMMA TrueEffectsStay ==
  ASSUME facts' = facts
  PROVE  TrueEffects' = TrueEffects
  BY ReachableStays DEF TrueEffects, Happens, Lock, StoryClass, After, Access

-----------------------------------------------------------------------------
(* The states of a trace.                                                   *)

Filters == [restricted : BOOLEAN, ids : SUBSET Assertions]

TraceStates ==
  [method : Methods, depth : Nat, hop : Nat, class : Classes, path : SUBSET Methods,
   filter : Filters]

Kept == {queue[k] : k \in DOMAIN queue} \cup {p[2] : p \in pending}

(* Every state is within the bounds and on its own path.                    *)
Bounded(s) ==
  /\ s.depth <= facts.limits.depth /\ s.hop <= facts.limits.hops
  /\ s.method \in s.path

TraceTyped ==
  /\ FactsOK(facts)
  /\ queue \in Seq(TraceStates) /\ cursor \in Nat \ {0} /\ cursor <= Len(queue) + 1
  /\ pending \subseteq (1..3) \X TraceStates
  /\ \A s \in Kept : Bounded(s)

NextStates(s) == IF facts.root = "endpoint" THEN Successors(s) ELSE HandlerSuccessors(s)

(* The restriction under which a handler is entered.                        *)
Entry(m, i) == IF facts.root = "endpoint" THEN Selected(m, i) ELSE Everything

Entering(s, i, m) == [Across(s, i, m) EXCEPT !.filter = Entry(m, i)]

Following(s) == Sections(s) \cup Calls(s) \cup {Entering(s, e[1], e[2]) : e \in Entered(s)}

LEMMA FiltersTyped ==
  ASSUME FactsOK(facts), NEW m
  PROVE  /\ Everything \in Filters /\ Only(SectionEffects(m)) \in Filters
         /\ \A i : Selected(m, i) \in Filters
  <1>1. Everything \in Filters
    BY DEF Everything, Filters
  <1>2. \A ids \in SUBSET Assertions : Only(ids) \in Filters
    BY DEF Only, Filters
  <1>3. SectionEffects(m) \in SUBSET Assertions
    BY DEF SectionEffects, FactsOK
  <1>4. ASSUME NEW i
        PROVE  Selected(m, i) \in Filters
    <2> DEFINE dispatch == {b \in facts.branches : b.method = m}
               ids == UNION {b.ids : b \in {d \in dispatch : i \in d.jobs}}
    <2>1. ids \in SUBSET Assertions
      BY DEF FactsOK
    <2>2. Selected(m, i) \in {Everything, Only(ids)}
      BY DEF Selected
    <2> HIDE DEF ids
    <2> QED
      BY <1>1, <1>2, <2>1, <2>2
  <1> QED
    BY <1>1, <1>2, <1>3, <1>4

LEMMA AcrossEqual ==
  ASSUME NEW s, NEW i, NEW m
  PROVE  /\ [Across(s, i, m) EXCEPT !.filter = Everything] = Across(s, i, m)
         /\ \A f : [Across(s, i, m) EXCEPT !.filter = f] =
                     [method |-> m, depth |-> 0, hop |-> s.hop + 1,
                      class |-> ClassAcross(s.class, facts.kind[i]),
                      path |-> s.path \cup {m}, filter |-> f]
  BY DEF Across

LEMMA EnteringFields ==
  ASSUME NEW s, NEW i, NEW m
  PROVE  LET t == Entering(s, i, m)
         IN  /\ t.method = m /\ t.depth = 0 /\ t.hop = s.hop + 1
             /\ t.class = ClassAcross(s.class, facts.kind[i])
             /\ t.path = s.path \cup {m} /\ t.filter = Entry(m, i)
  <1> DEFINE t == Entering(s, i, m)
  <1>1. t = [method |-> m, depth |-> 0, hop |-> s.hop + 1,
             class |-> ClassAcross(s.class, facts.kind[i]),
             path |-> s.path \cup {m}, filter |-> Entry(m, i)]
    BY AcrossEqual DEF Entering
  <1> HIDE DEF t
  <1> QED
    BY <1>1 DEF t

LEMMA NextIsFollowing ==
  ASSUME NEW s
  PROVE  /\ NextStates(s) \subseteq (1..3) \X Following(s)
         /\ \A t \in Following(s) : \E p \in NextStates(s) : p[2] = t
  <1> DEFINE entered == {Entering(s, e[1], e[2]) : e \in Entered(s)}
  <1>1. Following(s) = Sections(s) \cup Calls(s) \cup entered
    BY DEF Following
  <1>2. CASE facts.root = "endpoint"
    <2>1. NextStates(s) = ({1} \X Sections(s)) \cup {<<2, Entering(s, e[1], e[2])>> : e \in Entered(s)}
                            \cup ({3} \X Calls(s))
      BY <1>2 DEF NextStates, Successors, Entering, Entry
    <2>2. {<<2, Entering(s, e[1], e[2])>> : e \in Entered(s)} = {2} \X entered
      OBVIOUS
    <2>3. NextStates(s) = ({1} \X Sections(s)) \cup ({2} \X entered) \cup ({3} \X Calls(s))
      BY <2>1, <2>2
    <2> HIDE DEF entered
    <2>4. ASSUME NEW t \in Following(s)
          PROVE  \E p \in NextStates(s) : p[2] = t
      <3>1. <<1, t>> \in NextStates(s) \/ <<2, t>> \in NextStates(s) \/ <<3, t>> \in NextStates(s)
        BY <1>1, <2>3
      <3> QED
        BY <3>1
    <2> QED
      BY <1>1, <2>3, <2>4
  <1>3. CASE facts.root # "endpoint"
    <2>1. \A e : Entering(s, e[1], e[2]) = Across(s, e[1], e[2])
      BY <1>3, AcrossEqual DEF Entering, Entry
    <2>2. NextStates(s) = ({1} \X Sections(s)) \cup ({2} \X Calls(s))
                            \cup {<<3, Entering(s, e[1], e[2])>> : e \in Entered(s)}
      BY <1>3, <2>1 DEF NextStates, HandlerSuccessors
    <2>3. {<<3, Entering(s, e[1], e[2])>> : e \in Entered(s)} = {3} \X entered
      OBVIOUS
    <2>4. NextStates(s) = ({1} \X Sections(s)) \cup ({2} \X Calls(s)) \cup ({3} \X entered)
      BY <2>2, <2>3
    <2> HIDE DEF entered
    <2>5. ASSUME NEW t \in Following(s)
          PROVE  \E p \in NextStates(s) : p[2] = t
      <3>1. <<1, t>> \in NextStates(s) \/ <<2, t>> \in NextStates(s) \/ <<3, t>> \in NextStates(s)
        BY <1>1, <2>4
      <3> QED
        BY <3>1
    <2> QED
      BY <1>1, <2>4, <2>5
  <1> QED
    BY <1>2, <1>3

LEMMA FollowingTyped ==
  ASSUME FactsOK(facts), NEW s \in TraceStates, Bounded(s)
  PROVE  /\ Following(s) \subseteq TraceStates
         /\ \A t \in Following(s) : Bounded(t)
  <1>1. /\ s.method \in Methods /\ s.depth \in Nat /\ s.hop \in Nat /\ s.class \in Classes
        /\ s.path \in SUBSET Methods /\ s.filter \in Filters
    BY DEF TraceStates
  <1>2. facts.limits.depth \in Nat /\ facts.limits.hops \in Nat
    BY DEF FactsOK
  <1>3. ASSUME NEW t \in Sections(s)
        PROVE  t \in TraceStates /\ Bounded(t)
    <2>1. t = [s EXCEPT !.class = SectionClass(s.class), !.filter = Only(SectionEffects(s.method))]
      BY DEF Sections
    <2>2. SectionClass(s.class) \in Classes
      BY DEF SectionClass, Classes
    <2>3. Only(SectionEffects(s.method)) \in Filters
      BY <1>1, FiltersTyped
    <2> QED
      BY <1>1, <2>1, <2>2, <2>3 DEF TraceStates, Bounded
  <1>4. ASSUME NEW t \in Calls(s)
        PROVE  t \in TraceStates /\ Bounded(t)
    <2>1. PICK n \in Methods :
            /\ s.depth < facts.limits.depth
            /\ t = [s EXCEPT !.method = n, !.depth = s.depth + 1, !.path = s.path \cup {n},
                             !.filter = Everything]
      BY DEF Calls, Callees
    <2>2. Everything \in Filters
      BY DEF Everything, Filters
    <2>3. t = [method |-> n, depth |-> s.depth + 1, hop |-> s.hop, class |-> s.class,
               path |-> s.path \cup {n}, filter |-> Everything]
      BY <2>1 DEF TraceStates
    <2> QED
      BY <1>1, <1>2, <2>1, <2>2, <2>3 DEF TraceStates, Bounded
  <1>5. ASSUME NEW e \in Entered(s)
        PROVE  Entering(s, e[1], e[2]) \in TraceStates /\ Bounded(Entering(s, e[1], e[2]))
    <2>1. e[1] \in Interactions /\ e[2] \in Methods /\ s.hop < facts.limits.hops
      BY DEF Entered, AppliedSites, Sites
    <2>2. Entry(e[2], e[1]) \in Filters
      BY <2>1, FiltersTyped DEF Entry
    <2>3. ClassAcross(s.class, facts.kind[e[1]]) \in Classes
      BY DEF ClassAcross, Classes
    <2>4. Entering(s, e[1], e[2]) =
            [method |-> e[2], depth |-> 0, hop |-> s.hop + 1,
             class |-> ClassAcross(s.class, facts.kind[e[1]]),
             path |-> s.path \cup {e[2]}, filter |-> Entry(e[2], e[1])]
      BY AcrossEqual DEF Entering
    <2> QED
      BY <1>1, <1>2, <2>1, <2>2, <2>3, <2>4 DEF TraceStates, Bounded
  <1> QED
    BY <1>3, <1>4, <1>5 DEF Following
-----------------------------------------------------------------------------
(* The walk keeps to states that are typed and bounded.                     *)

LEMMA EnqueueKeeps ==
  ASSUME TraceTyped, Enqueue
  PROVE  /\ TraceTyped' /\ Kept' \subseteq Kept
         /\ {queue[k] : k \in DOMAIN queue} \subseteq {queue[k] : k \in DOMAIN queue}'
  <1>1. PICK p \in pending :
          /\ pending' = pending \ {p}
          /\ queue' = queue \/ queue' = Append(queue, p[2])
          /\ UNCHANGED <<facts, cursor, effects>>
    BY DEF Enqueue
  <1>2. p[2] \in TraceStates /\ queue \in Seq(TraceStates) /\ cursor \in Nat \ {0}
    BY DEF TraceTyped
  <1>3. queue' \in Seq(TraceStates) /\ cursor' \in Nat \ {0} /\ cursor' <= Len(queue') + 1
    BY <1>1, <1>2 DEF TraceTyped
  <1>4. \A k \in DOMAIN queue' : queue'[k] = p[2] \/ (k \in DOMAIN queue /\ queue'[k] = queue[k])
    BY <1>1, <1>2
  <1>5. \A k \in DOMAIN queue : k \in DOMAIN queue' /\ queue'[k] = queue[k]
    BY <1>1, <1>2
  <1>6. Kept' \subseteq Kept
    BY <1>1, <1>4 DEF Kept
  <1>7. \A s : Bounded(s)' <=> Bounded(s)
    BY <1>1 DEF Bounded
  <1>8. FactsOK(facts)' /\ pending' \subseteq (1..3) \X TraceStates
    BY <1>1 DEF TraceTyped
  <1>9. (\A s \in Kept : Bounded(s))'
    BY <1>6, <1>7 DEF TraceTyped
  <1> QED
    BY <1>3, <1>5, <1>6, <1>8, <1>9 DEF TraceTyped

LEMMA VisitKeeps ==
  ASSUME TraceTyped, Visit
  PROVE  /\ TraceTyped'
         /\ queue[cursor] \in Kept /\ queue[cursor] \in TraceStates
         /\ \A s \in Kept' : (\E k \in DOMAIN queue : s = queue[k]) \/ s \in Following(queue[cursor])
  <1> DEFINE s == queue[cursor]
  <1>1. /\ pending = {} /\ cursor <= Len(queue)
        /\ pending' = NextStates(s) /\ cursor' = cursor + 1
        /\ UNCHANGED <<facts, queue>>
    BY DEF Visit, NextStates
  <1>2. s \in TraceStates /\ cursor \in DOMAIN queue /\ queue \in Seq(TraceStates)
    BY <1>1 DEF TraceTyped
  <1>3. s \in Kept
    BY <1>2 DEF Kept
  <1>4. Bounded(s) /\ FactsOK(facts)
    BY <1>3 DEF TraceTyped
  <1> HIDE DEF s
  <1>5. Following(s) \subseteq TraceStates /\ \A t \in Following(s) : Bounded(t)
    BY <1>2, <1>4, FollowingTyped
  <1>6. NextStates(s) \subseteq (1..3) \X Following(s)
    BY NextIsFollowing
  <1>7. \A t \in Kept' : (\E k \in DOMAIN queue : t = queue[k]) \/ t \in Following(s)
    BY <1>1, <1>6 DEF Kept
  <1>8. \A t : Bounded(t)' <=> Bounded(t)
    BY <1>1 DEF Bounded
  <1>9. \A k \in DOMAIN queue : Bounded(queue[k])
    BY DEF Kept, TraceTyped
  <1>10. (\A t \in Kept : Bounded(t))'
    BY <1>5, <1>7, <1>8, <1>9
  <1>11. pending' \subseteq (1..3) \X TraceStates
    BY <1>1, <1>5, <1>6
  <1>12. FactsOK(facts)' /\ queue' \in Seq(TraceStates)
    BY <1>1, <1>2, <1>4
  <1>13. cursor' \in Nat \ {0} /\ cursor' <= Len(queue') + 1
    BY <1>1, <1>2 DEF TraceTyped
  <1>14. TraceTyped'
    BY <1>10, <1>11, <1>12, <1>13 DEF TraceTyped
  <1> QED
    BY <1>2, <1>3, <1>7, <1>14 DEF s

LEMMA TraceBegins ==
  ASSUME TraceInit
  PROVE  /\ TraceTyped /\ queue = <<>>
         /\ \A s \in Kept : \E m \in facts.entries : s = Root(m)
  <1>1. FactsOK(facts)
    BY AnalysesAssumption DEF TraceInit
  <1>2. queue = <<>> /\ cursor = 1 /\ pending = {<<3, Root(m)>> : m \in facts.entries}
    BY DEF TraceInit
  <1>3. ASSUME NEW m \in facts.entries
        PROVE  Root(m) \in TraceStates /\ Bounded(Root(m))
    <2>1. m \in Methods /\ facts.limits.depth \in Nat /\ facts.limits.hops \in Nat
      BY <1>1 DEF FactsOK
    <2>2. RootClass \in Classes
      <3>1. facts.root \in {"endpoint", "event", "async_event", "job"}
        BY <1>1 DEF FactsOK, Kinds
      <3> QED
        BY <3>1 DEF RootClass, Classes
    <2>3. Everything \in Filters
      BY DEF Everything, Filters
    <2> QED
      BY <2>1, <2>2, <2>3 DEF Root, TraceStates, Bounded
  <1>4. \A s \in Kept : \E m \in facts.entries : s = Root(m)
    BY <1>2 DEF Kept
  <1>5. pending \subseteq (1..3) \X TraceStates
    BY <1>2, <1>3
  <1>6. queue \in Seq(TraceStates) /\ cursor \in Nat \ {0} /\ cursor <= Len(queue) + 1
    BY <1>2
  <1> QED
    BY <1>1, <1>2, <1>3, <1>4, <1>5, <1>6 DEF TraceTyped
LEMMA StepsOfTheTrace ==
  ASSUME [ImpactNext]_impactVars
  PROVE  Enqueue \/ Visit \/ UNCHANGED traceVars
  BY DEF ImpactNext, impactVars, TraceNext, Change, Expand

LEMMA NothingMoves ==
  ASSUME UNCHANGED traceVars
  PROVE  Kept' = Kept /\ (TraceTyped => TraceTyped')
  <1>1. UNCHANGED <<facts, queue, cursor, pending>>
    BY DEF traceVars
  <1>2. Kept' = Kept
    BY <1>1 DEF Kept
  <1> QED
    BY <1>1, <1>2 DEF TraceTyped, Bounded

(* Whatever the analysis, the walk keeps to states that are well formed and *)
(* within the bounds on calls and interactions.                             *)
THEOREM TraceIsTyped == ImpactSpec => []TraceTyped
  <1>1. ImpactInit => TraceTyped
    BY TraceBegins DEF ImpactInit
  <1>2. TraceTyped /\ [ImpactNext]_impactVars => TraceTyped'
    BY StepsOfTheTrace, EnqueueKeeps, VisitKeeps, NothingMoves
  <1> QED
    BY <1>1, <1>2, PTL DEF ImpactSpec

-----------------------------------------------------------------------------
(* Every state has a story that explains it: what the state looks at        *)
(* happens in the story, and with the class of the state.                   *)

Explains(s, r) ==
  /\ r.method = s.method
  /\ \A a \in Assertions :
       a[2] = s.method /\ AppliesDirectly(s.filter, a) => Happens(r, a) /\ StoryClass(r, a) = s.class
  /\ (s.filter.restricted => Lock(s.method) \in s.filter.ids) =>
       \A a \in SectionEffects(s.method) : Happens(r, a) /\ StoryClass(r, a) = SectionClass(s.class)

(* Where workers with branches are entered under the branches of the job.   *)
Selective == facts.root = "endpoint" \/ facts.branches = {}

LEMMA ClassOfStory ==
  ASSUME NEW r \in Stories, NEW a
  PROVE  /\ r.queued => StoryClass(r, a) = "distributed"
         /\ ~r.queued /\ After(r, a) => StoryClass(r, a) = "critical_section"
         /\ ~r.queued /\ ~After(r, a) =>
              /\ r.last = "none" => StoryClass(r, a) = "synchronous"
              /\ r.last = "sync" => StoryClass(r, a) = "local_synchronous"
              /\ r.last = "async" => StoryClass(r, a) = "local_asynchronous"
         /\ r.last \in {"none", "sync", "async"}
  BY DEF Stories, StoryClass

LEMMA SectionExplained ==
  ASSUME FactsOK(facts), NEW s \in TraceStates, NEW r \in Stories, Explains(s, r),
         NEW t \in Sections(s)
  PROVE  Explains(t, r)
  <1>1. /\ t = [s EXCEPT !.class = SectionClass(s.class), !.filter = Only(SectionEffects(s.method))]
        /\ s.filter.restricted => Lock(s.method) \in s.filter.ids
    BY DEF Sections
  <1>2. /\ t.method = s.method /\ t.class = SectionClass(s.class)
        /\ t.filter = Only(SectionEffects(s.method))
    BY <1>1 DEF TraceStates
  <1>3. \A a \in SectionEffects(s.method) : Happens(r, a) /\ StoryClass(r, a) = SectionClass(s.class)
    BY <1>1 DEF Explains
  <1>4. SectionClass(SectionClass(s.class)) = SectionClass(s.class)
    BY DEF SectionClass
  <1>5. r.method = s.method
    BY DEF Explains
  <1>6. \A a : AppliesDirectly(t.filter, a) => a \in SectionEffects(s.method)
    BY <1>2 DEF AppliesDirectly, Only
  <1> QED
    BY <1>2, <1>3, <1>4, <1>5, <1>6 DEF Explains

LEMMA CallExplained ==
  ASSUME FactsOK(facts), NEW s \in TraceStates, NEW r \in Stories, Explains(s, r),
         NEW t \in Calls(s)
  PROVE  \E q \in Told(r) : Explains(t, q)
  <1>1. PICK n \in Methods :
          /\ <<s.method, n>> \in facts.calls /\ AppliesDirectly(s.filter, Call(s.method, n))
          /\ t = [s EXCEPT !.method = n, !.depth = s.depth + 1, !.path = s.path \cup {n},
                           !.filter = Everything]
    BY DEF Calls, Callees
  <1>2. t.method = n /\ t.class = s.class /\ t.filter = Everything
    BY <1>1 DEF TraceStates
  <1> DEFINE c == Call(s.method, n)
             q == [r EXCEPT !.method = n, !.locked = After(r, c), !.job = {}]
  <1>3. s.method \in Methods /\ c \in Assertions /\ c[2] = s.method
    BY DEF TraceStates, Assertions, Call
  <1>4. r.method = s.method /\ Happens(r, c) /\ StoryClass(r, c) = s.class
    BY <1>1, <1>3 DEF Explains
  <1>5. q \in Told(r)
    BY <1>1, <1>4 DEF Told
  <1>6. /\ q.method = n /\ q.queued = r.queued /\ q.last = r.last /\ q.job = {}
        /\ q.locked = After(r, c)
    BY DEF Stories
  <1>7. q \in Stories
    BY <1>5, ToldAreStories
  <1> HIDE DEF q, c
  <1>8. \A a : Happens(q, a)
    BY <1>6 DEF Happens
  <1>9. ASSUME NEW a, a \notin facts.scoped
        PROVE  StoryClass(q, a) = s.class
    <2>1. After(q, a) = After(r, c)
      BY <1>6, <1>9, <1>7 DEF After, Stories
    <2> QED
      BY <1>4, <1>6, <2>1 DEF StoryClass
  <1>10. ASSUME NEW a \in facts.scoped
         PROVE  StoryClass(q, a) = SectionClass(s.class)
    <2>1. After(q, a)
      BY DEF After
    <2>2. CASE r.queued
      BY <1>4, <1>6, <1>7, <2>2, ClassOfStory DEF SectionClass
    <2>3. CASE ~r.queued
      <3>1. s.class # "distributed"
        BY <1>4, <2>3, ClassOfStory
      <3>2. StoryClass(q, a) = "critical_section"
        BY <1>6, <1>7, <2>1, <2>3, ClassOfStory
      <3> QED
        BY <3>1, <3>2 DEF SectionClass
    <2> QED
      BY <2>2, <2>3
  <1>11. \A a : AppliesDirectly(t.filter, a) => a \notin facts.scoped
    BY <1>2 DEF AppliesDirectly, Everything
  <1>12. SectionEffects(t.method) \subseteq facts.scoped
    BY DEF SectionEffects
  <1>13. Explains(t, q)
    BY <1>2, <1>6, <1>8, <1>9, <1>10, <1>11, <1>12 DEF Explains
  <1> QED
    BY <1>5, <1>13

LEMMA EntryExplained ==
  ASSUME FactsOK(facts), Selective, NEW s \in TraceStates, NEW r \in Stories, Explains(s, r),
         NEW e \in Entered(s)
  PROVE  \E q \in Told(r) : Explains(Entering(s, e[1], e[2]), q)
  <1> DEFINE i == e[1]
             m == e[2]
             t == Entering(s, i, m)
             c == Initiate(s.method, i)
             jobs == {i} \cap {j \in Interactions : facts.kind[j] = "job"}
             q == [method |-> m, queued |-> r.queued \/ facts.kind[i] = "job",
                   locked |-> After(r, c),
                   last   |-> IF facts.kind[i] = "async_event" THEN "async" ELSE "sync",
                   job    |-> jobs]
  <1>1. /\ i \in Sites(s.method) /\ AppliesDirectly(s.filter, c)
        /\ m \in Methods /\ m \in ProvenHandlers(i)
    BY DEF Entered, AppliedSites
  <1>2. i \in Interactions /\ s.method \in Methods
    BY <1>1 DEF Sites, TraceStates
  <1>3. m \in facts.registered /\ Handles(m, i)
    BY <1>1 DEF ProvenHandlers, Matches, Handles
  <1>4. c \in Assertions /\ c[2] = s.method
    BY <1>2 DEF Assertions, Initiate
  <1>5. r.method = s.method /\ Happens(r, c) /\ StoryClass(r, c) = s.class
    BY <1>1, <1>4 DEF Explains
  <1>6. /\ t.method = m /\ t.class = ClassAcross(s.class, facts.kind[i])
        /\ t.filter = Entry(m, i)
    BY EnteringFields
  <1>7. q \in Told(r)
    <2> DEFINE here == {j \in Sites(r.method) : Happens(r, Initiate(r.method, j))}
               there(j) == {x \in facts.registered : Handles(x, j)}
               entered(j, x) ==
                 [method |-> x, queued |-> r.queued \/ facts.kind[j] = "job",
                  locked |-> After(r, Initiate(r.method, j)),
                  last   |-> IF facts.kind[j] = "async_event" THEN "async" ELSE "sync",
                  job    |-> {j} \cap {k \in Interactions : facts.kind[k] = "job"}]
    <2>1. UNION {{entered(j, x) : x \in there(j)} : j \in here} \subseteq Told(r)
      BY DEF Told
    <2>2. q = entered(i, m)
      BY <1>5
    <2>3. i \in here /\ m \in there(i)
      BY <1>1, <1>3, <1>5
    <2> HIDE DEF here, there, entered, q, i, m
    <2> QED
      BY <2>1, <2>2, <2>3
  <1>8. q \in Stories
    BY <1>7, ToldAreStories
  <1>9. facts.kind[i] \in Kinds
    BY <1>2 DEF FactsOK
  <1>10. /\ q.method = m /\ q.queued = (r.queued \/ facts.kind[i] = "job")
         /\ q.locked = After(r, c) /\ q.job = jobs
         /\ q.last = IF facts.kind[i] = "async_event" THEN "async" ELSE "sync"
    OBVIOUS
  <1>11. IF facts.kind[i] = "job" THEN jobs = {i} ELSE jobs = {}
    BY <1>2
  <1>12. Selected(m, i) =
           IF facts.kind[i] # "job" \/ {b \in facts.branches : b.method = m} = {} THEN Everything
           ELSE Only(UNION {b.ids : b \in {d \in {b \in facts.branches : b.method = m} : i \in d.jobs}})
    BY DEF Selected
  <1> HIDE DEF q, c, t, i, m, jobs
  <1>13. \A a : After(q, a) <=> After(r, c) \/ a \in facts.scoped
    BY <1>10 DEF After
  (* The class on the other side, inside and outside of critical sections.   *)
  <1>14. ASSUME NEW a, a \notin facts.scoped
         PROVE  StoryClass(q, a) = t.class
    <2>1. CASE q.queued
      <3>1. facts.kind[i] = "job" \/ s.class = "distributed"
        BY <1>5, <1>10, <2>1, ClassOfStory
      <3> QED
        BY <1>6, <1>8, <2>1, <3>1, ClassOfStory DEF ClassAcross
    <2>2. CASE ~q.queued
      <3>1. ~r.queued /\ facts.kind[i] # "job" /\ s.class # "distributed"
        BY <1>5, <1>10, <2>2, ClassOfStory
      <3>2. s.class = "critical_section" <=> After(r, c)
        BY <1>5, <3>1, ClassOfStory
      <3>3. CASE After(r, c)
        <4>1. StoryClass(q, a) = "critical_section"
          BY <1>8, <1>13, <2>2, <3>3, ClassOfStory
        <4> QED
          BY <1>6, <3>1, <3>2, <3>3, <4>1 DEF ClassAcross
      <3>4. CASE ~After(r, c)
        <4>1. ~After(q, a)
          BY <1>13, <1>14, <3>4
        <4>2. CASE facts.kind[i] = "async_event"
          <5>1. StoryClass(q, a) = "local_asynchronous"
            BY <1>8, <1>10, <2>2, <4>1, <4>2, ClassOfStory
          <5> QED
            BY <1>6, <3>1, <3>2, <3>4, <4>2, <5>1 DEF ClassAcross
        <4>3. CASE facts.kind[i] # "async_event"
          <5>1. StoryClass(q, a) = "local_synchronous"
            BY <1>8, <1>10, <2>2, <4>1, <4>3, ClassOfStory
          <5> QED
            BY <1>6, <3>1, <3>2, <3>4, <4>3, <5>1 DEF ClassAcross
        <4> QED
          BY <4>2, <4>3
      <3> QED
        BY <3>3, <3>4
    <2> QED
      BY <2>1, <2>2
  <1>15. t.class = "distributed" <=> q.queued
    <2>1. q.queued <=> facts.kind[i] = "job" \/ s.class = "distributed"
      BY <1>5, <1>10, ClassOfStory
    <2> QED
      BY <1>6, <2>1 DEF ClassAcross
  <1>16. ASSUME NEW a \in facts.scoped
         PROVE  StoryClass(q, a) = SectionClass(t.class)
    <2>1. After(q, a)
      BY <1>13
    <2> QED
      BY <1>8, <1>15, <2>1, ClassOfStory DEF SectionClass
  <1>17. SectionEffects(t.method) \subseteq facts.scoped
    BY DEF SectionEffects
  (* What is looked at happens, and everything in a section that is entered. *)
  <1>18. CASE t.filter = Everything /\ \A a : Happens(q, a)
    <2>1. \A a : AppliesDirectly(t.filter, a) => a \notin facts.scoped
      BY <1>18 DEF AppliesDirectly, Everything
    <2>2. Explains(t, q)
      BY <1>6, <1>10, <1>14, <1>16, <1>17, <1>18, <2>1 DEF Explains
    <2> QED
      BY <1>7, <2>2 DEF t, i, m
  <1> DEFINE dispatch == {b \in facts.branches : b.method = m}
             ids == UNION {b.ids : b \in {d \in dispatch : i \in d.jobs}}
  <1>19. CASE t.filter = Only(ids) /\ dispatch # {} /\ facts.kind[i] = "job"
    <2>1. q.job = {i} /\ q.queued
      BY <1>10, <1>11, <1>19
    <2>2. \A a \in ids : Happens(q, a)
      BY <1>10, <2>1 DEF Happens
    <2>3. ASSUME Lock(m) \in ids
          PROVE  \A a \in facts.scoped : Happens(q, a)
      BY <1>10, <2>1, <2>3 DEF Happens
    <2>4. \A a : AppliesDirectly(t.filter, a) <=> a \in ids
      BY <1>19 DEF AppliesDirectly, Only
    <2>5. t.filter.restricted /\ t.filter.ids = ids
      BY <1>19 DEF Only
    <2>6. \A a : StoryClass(q, a) = "distributed" /\ t.class = "distributed"
      BY <1>8, <1>15, <2>1, ClassOfStory
    <2> HIDE DEF ids, dispatch
    <2>7. Explains(t, q)
      BY <1>6, <1>10, <1>16, <1>17, <2>2, <2>3, <2>4, <2>5, <2>6 DEF Explains
    <2> QED
      BY <1>7, <2>7 DEF t, i, m
  <1>20. CASE dispatch = {} \/ facts.kind[i] # "job"
    <2>1. \A a : Happens(q, a)
      BY <1>10, <1>11, <1>20 DEF Happens
    <2>2. t.filter = Everything
      BY <1>6, <1>12, <1>20 DEF Entry
    <2> QED
      BY <1>18, <2>1, <2>2
  <1>21. CASE dispatch # {} /\ facts.kind[i] = "job"
    <2>1. facts.root = "endpoint"
      BY <1>21 DEF Selective
    <2>2. t.filter = Only(ids)
      BY <1>6, <1>12, <1>21, <2>1 DEF Entry
    <2> QED
      BY <1>19, <1>21, <2>2
  <1> QED
    BY <1>20, <1>21

LEMMA RootExplained ==
  ASSUME FactsOK(facts), NEW m \in facts.entries
  PROVE  \E r \in Beginnings : Explains(Root(m), r)
  <1> DEFINE first == [endpoint |-> "none", event |-> "sync", async_event |-> "async",
                       job |-> "none"][facts.root]
             r == [method |-> m, queued |-> facts.root = "job", locked |-> FALSE, job |-> {},
                   last |-> first]
  <1>1. r \in Beginnings
    BY DEF Beginnings
  <1>2. r \in Stories
    BY <1>1, BeginningsAreStories
  <1>3. facts.root \in {"endpoint", "event", "async_event", "job"}
    BY DEF FactsOK, Kinds
  <1>4. /\ r.method = m /\ r.queued = (facts.root = "job") /\ r.locked = FALSE /\ r.job = {}
        /\ r.last = first
    OBVIOUS
  <1>5. CASE facts.root = "job"
    <2>1. r.queued /\ RootClass = "distributed"
      <3>1. r.queued
        BY <1>4, <1>5
      <3>2. RootClass = "distributed"
        BY <1>5 DEF RootClass
      <3> QED
        BY <3>1, <3>2
    <2>2. \A a : StoryClass(r, a) = "distributed"
      BY <1>2, <2>1, ClassOfStory
    <2>3. \A a : Happens(r, a)
      BY <1>4 DEF Happens
    <2>4. Root(m).method = m /\ Root(m).class = "distributed"
      BY <2>1 DEF Root
    <2> HIDE DEF r
    <2>5. Explains(Root(m), r)
      BY <1>4, <2>2, <2>3, <2>4 DEF Explains, SectionClass
    <2> QED
      BY <1>1, <2>5
  <1>6. CASE facts.root # "job"
    <2>1. ~r.queued /\ RootClass # "distributed"
      <3>1. ~r.queued
        BY <1>4, <1>6
      <3>2. RootClass # "distributed"
        BY <1>3, <1>6 DEF RootClass
      <3> QED
        BY <3>1, <3>2
    <2>2. /\ first = "none" => RootClass = "synchronous"
          /\ first = "sync" => RootClass = "local_synchronous"
          /\ first = "async" => RootClass = "local_asynchronous"
      BY <1>3, <1>6 DEF RootClass
    <2>3. \A a : Happens(r, a)
      BY <1>4 DEF Happens
    <2>4. /\ Root(m).method = m /\ Root(m).class = RootClass
          /\ \A a : AppliesDirectly(Root(m).filter, a) => a \notin facts.scoped
      BY DEF Root, AppliesDirectly, Everything
    <2> HIDE DEF r, first
    <2>5. \A a : After(r, a) <=> a \in facts.scoped
      BY <1>4 DEF After
    <2>6. \A a : a \notin facts.scoped => StoryClass(r, a) = RootClass
      BY <1>2, <1>4, <2>1, <2>2, <2>5, ClassOfStory
    <2>7. \A a \in facts.scoped : StoryClass(r, a) = SectionClass(RootClass)
      BY <1>2, <2>1, <2>5, ClassOfStory DEF SectionClass
    <2>8. SectionEffects(m) \subseteq facts.scoped
      BY DEF SectionEffects
    <2>9. Explains(Root(m), r)
      BY <1>4, <2>3, <2>4, <2>6, <2>7, <2>8 DEF Explains
    <2> QED
      BY <1>1, <2>9
  <1> QED
    BY <1>5, <1>6

Explained ==
  Selective => /\ \A s \in Kept : \E r \in Reachable : Explains(s, r)
               /\ effects \subseteq TrueEffects

LEMMA ExplainsStays ==
  ASSUME facts' = facts, NEW s, NEW r
  PROVE  /\ Explains(s, r)' <=> Explains(s, r)
         /\ Selective' <=> Selective
  BY DEF Explains, Selective, Happens, Lock, After, StoryClass, SectionEffects, AppliesDirectly

LEMMA VisitExplained ==
  ASSUME TraceTyped, Explained, Visit
  PROVE  Explained'
  <1> SUFFICES ASSUME Selective'
               PROVE  /\ \A t \in Kept' : \E r \in Reachable' : Explains(t, r)'
                      /\ effects' \subseteq TrueEffects'
    BY DEF Explained
  <1> DEFINE s == queue[cursor]
  <1>1. facts' = facts /\ FactsOK(facts)
    BY DEF Visit, TraceTyped
  <1>2. Selective /\ Reachable' = Reachable /\ TrueEffects' = TrueEffects
    BY <1>1, ExplainsStays, ReachableStays, TrueEffectsStay
  <1>3. /\ s \in Kept /\ s \in TraceStates
        /\ \A t \in Kept' : (\E k \in DOMAIN queue : t = queue[k]) \/ t \in Following(s)
    BY VisitKeeps
  <1>4. effects' = effects \cup (IF AppliesDirectly(s.filter, Access(s.method))
                                   THEN {<<s.method, s.class>>} ELSE {})
    BY DEF Visit
  <1> HIDE DEF s
  <1>5. PICK r \in Reachable : Explains(s, r)
    BY <1>2, <1>3 DEF Explained
  <1>6. Reachable \subseteq Stories /\ Told(r) \subseteq Reachable
    BY <1>1, ReachableIsLeast DEF Complete
  <1>7. \A t \in Following(s) : \E q \in Reachable : Explains(t, q)
    BY <1>1, <1>2, <1>3, <1>5, <1>6, SectionExplained, CallExplained, EntryExplained DEF Following
  <1>8. \A t \in Kept' : \E q \in Reachable : Explains(t, q)
    <2>1. \A k \in DOMAIN queue : queue[k] \in Kept
      BY DEF Kept
    <2> QED
      BY <1>2, <1>3, <1>7, <2>1 DEF Explained
  <1>9. ASSUME AppliesDirectly(s.filter, Access(s.method))
        PROVE  <<s.method, s.class>> \in TrueEffects
    <2>1. Access(s.method) \in Assertions /\ Access(s.method)[2] = s.method
      BY <1>3 DEF Access, Assertions, TraceStates
    <2>2. r.method = s.method /\ Happens(r, Access(r.method)) /\ StoryClass(r, Access(r.method)) = s.class
      BY <1>5, <1>9, <2>1 DEF Explains
    <2> QED
      BY <1>5, <2>2 DEF TrueEffects
  <1>10. effects' \subseteq TrueEffects
    BY <1>2, <1>4, <1>9 DEF Explained
  <1> QED
    BY <1>1, <1>2, <1>8, <1>10, ExplainsStays

(* Nothing is invented, whatever the analysis: as every effect is recorded  *)
(* by a state that a story explains, its class is that of a story.          *)
THEOREM EffectsAreProven == ImpactSpec => []EffectsProven
  <1>1. ASSUME ImpactInit
        PROVE  TraceTyped /\ Explained
    <2>1. TraceInit
      BY <1>1 DEF ImpactInit
    <2>2. TraceTyped /\ FactsOK(facts) /\ \A s \in Kept : \E m \in facts.entries : s = Root(m)
      BY <2>1, TraceBegins DEF TraceTyped
    <2>3. Beginnings \subseteq Reachable
      BY <2>2, ReachableIsLeast DEF Complete
    <2>4. effects = {}
      BY <2>1 DEF TraceInit
    <2> QED
      BY <2>2, <2>3, <2>4, RootExplained DEF Explained
  <1>2. ASSUME TraceTyped, Explained, [ImpactNext]_impactVars
        PROVE  (TraceTyped /\ Explained)'
    <2>1. CASE Enqueue
      <3>1. TraceTyped' /\ Kept' \subseteq Kept
        BY <1>2, <2>1, EnqueueKeeps
      <3>2. facts' = facts /\ effects' = effects
        BY <2>1 DEF Enqueue
      <3> QED
        BY <1>2, <3>1, <3>2, ExplainsStays, ReachableStays, TrueEffectsStay DEF Explained
    <2>2. CASE Visit
      BY <1>2, <2>2, VisitKeeps, VisitExplained
    <2>3. CASE UNCHANGED traceVars
      <3>1. TraceTyped' /\ Kept' = Kept
        BY <1>2, <2>3, NothingMoves
      <3>2. facts' = facts /\ effects' = effects
        BY <2>3 DEF traceVars
      <3> QED
        BY <1>2, <3>1, <3>2, ExplainsStays, ReachableStays, TrueEffectsStay DEF Explained
    <2> QED
      BY <1>2, <2>1, <2>2, <2>3, StepsOfTheTrace
  <1>3. Explained => EffectsProven
    BY DEF Explained, EffectsProven, Selective
  <1> QED
    BY <1>1, <1>2, <1>3, PTL DEF ImpactSpec

-----------------------------------------------------------------------------
(* A method on the path of a state leads to the state, and it was entered   *)
(* without restriction, unless it dispatches on job names.                  *)

InQueue(s) == \E k \in DOMAIN queue : queue[k] = s

Trodden(s) ==
  \A m \in s.path :
    /\ s.method \in Below[{m}]
    /\ \E q \in TraceStates :
         /\ q = s \/ InQueue(q)
         /\ q.method = m
         /\ q.filter = Everything \/ \E b \in facts.branches : b.method = m

LEMMA EntryRestricts ==
  ASSUME NEW m, NEW i
  PROVE  \/ Entry(m, i) = Everything
         \/ \E b \in facts.branches : b.method = m
  BY DEF Entry, Selected

LEMMA FollowingTrodden ==
  ASSUME FactsOK(facts), NEW s \in TraceStates, Bounded(s), InQueue(s), Trodden(s),
         NEW t \in Following(s)
  PROVE  Trodden(t)
  <1>1. t \in TraceStates
    BY FollowingTyped
  <1>2. ASSUME t.method \in Links(s.method) \/ t.method = s.method, NEW m \in s.path
        PROVE  /\ t.method \in Below[{m}]
               /\ \E q \in TraceStates :
                    /\ q = t \/ InQueue(q)
                    /\ q.method = m
                    /\ q.filter = Everything \/ \E b \in facts.branches : b.method = m
    <2>1. m \in Methods
      BY DEF TraceStates
    <2>2. s.method \in Below[{m}]
      BY DEF Trodden
    <2>3. t.method \in Below[{m}]
      BY <1>2, <2>1, <2>2, BelowFacts
    <2> QED
      BY <2>3 DEF Trodden
  <1>3. t.method \in Methods /\ t.method \in Below[{t.method}]
    BY <1>1, BelowFacts DEF TraceStates
  <1>4. CASE t \in Sections(s)
    <2>1. t.method = s.method /\ t.path = s.path
      BY <1>4 DEF Sections, TraceStates
    <2> QED
      BY <1>2, <2>1 DEF Trodden
  <1>5. CASE t \in Calls(s)
    <2>1. PICK n \in Methods :
            /\ <<s.method, n>> \in facts.calls
            /\ t = [s EXCEPT !.method = n, !.depth = s.depth + 1, !.path = s.path \cup {n},
                             !.filter = Everything]
      BY <1>5 DEF Calls, Callees
    <2>2. t.method = n /\ t.path = s.path \cup {n} /\ t.filter = Everything
      BY <2>1 DEF TraceStates
    <2>3. t.method \in Links(s.method)
      BY <2>1, <2>2 DEF Links
    <2> QED
      BY <1>1, <1>2, <1>3, <2>2, <2>3 DEF Trodden
  <1>6. ASSUME NEW e \in Entered(s), t = Entering(s, e[1], e[2])
        PROVE  Trodden(t)
    <2>1. t.method = e[2] /\ t.path = s.path \cup {e[2]} /\ t.filter = Entry(e[2], e[1])
      BY <1>6, EnteringFields
    <2>2. e[1] \in Sites(s.method) /\ e[2] \in ProvenHandlers(e[1])
      BY DEF Entered, AppliedSites
    <2>3. e[2] \in facts.registered /\ Handles(e[2], e[1])
      BY <2>2 DEF ProvenHandlers, Matches, Handles
    <2>4. t.method \in Links(s.method)
      BY <2>1, <2>2, <2>3 DEF Links
    <2>5. ASSUME NEW m \in t.path, m \notin s.path
          PROVE  /\ t.method \in Below[{m}] /\ t.method = m
                 /\ t.filter = Everything \/ \E b \in facts.branches : b.method = m
      <3>1. m = t.method /\ m = e[2]
        BY <2>1, <2>5
      <3> QED
        BY <1>3, <2>1, <3>1, EntryRestricts
    <2> QED
      BY <1>1, <1>2, <2>4, <2>5 DEF Trodden
  <1> QED
    BY <1>4, <1>5, <1>6 DEF Following

-----------------------------------------------------------------------------
(* As long as nothing was diagnosed, whatever follows a visited state is    *)
(* about to be enqueued or has been seen.                                   *)

Awaited(t) == (\E p \in pending : p[2] = t) \/ Seen(t)

Followed(s) ==
  /\ CutOffs(s) = {}
  /\ AppliesDirectly(s.filter, Access(s.method)) => \E e \in effects : e[1] = s.method
  /\ \A t \in Following(s) : Awaited(t)

Roots == {Root(m) : m \in facts.entries}

Visited == {queue[k] : k \in {j \in DOMAIN queue : j < cursor}}

Accounted ==
  diagnostics = {} => /\ \A s \in Roots : Awaited(s)
                      /\ \A s \in Visited : Followed(s)

WalkInv == TraceTyped /\ Accounted /\ \A s \in Kept : Trodden(s)

LEMMA FollowingStays ==
  ASSUME facts' = facts, NEW s
  PROVE  CutOffs(s)' = CutOffs(s) /\ Following(s)' = Following(s)
  BY DEF CutOffs, Following, Sections, Calls, Callees, Entered, AppliedSites, Sites, ProvenHandlers,
         Matches, Entering, Across, Entry, Selected, SectionEffects, AppliesDirectly, Lock, Call, Initiate

LEMMA TroddenStays ==
  ASSUME facts' = facts, NEW s, \A q \in TraceStates : InQueue(q) => InQueue(q)'
  PROVE  Trodden(s) => Trodden(s)'
  <1>1. Below' = Below
    BY BelowStays
  <1> QED
    BY <1>1 DEF Trodden

LEMMA AwaitedStays ==
  ASSUME TraceTyped, Enqueue, diagnostics' = {}, NEW t
  PROVE  /\ diagnostics = {}
         /\ Awaited(t) => Awaited(t)'
  <1>1. PICK p \in pending :
          /\ pending' = pending \ {p}
          /\ \/ Seen(p[2]) /\ UNCHANGED <<queue, diagnostics>>
             \/ diagnostics' = IF LimitReported THEN diagnostics
                               ELSE diagnostics \cup {<<"STATE_LIMIT", p[2].method>>}
             \/ queue' = Append(queue, p[2]) /\ UNCHANGED diagnostics
    BY DEF Enqueue
  <1>2. /\ diagnostics = {}
        /\ \/ Seen(p[2]) /\ queue' = queue
           \/ queue' = Append(queue, p[2])
    BY <1>1 DEF LimitReported
  <1>3. queue \in Seq(TraceStates) /\ p[2] \in TraceStates
    BY DEF TraceTyped
  <1>4. \A k \in DOMAIN queue : k \in DOMAIN queue' /\ queue'[k] = queue[k]
    BY <1>2, <1>3
  <1>5. Seen(t) => Seen(t)'
    BY <1>4 DEF Seen, Key
  <1>6. Seen(p[2])'
    <2>1. CASE Seen(p[2]) /\ queue' = queue
      BY <2>1 DEF Seen, Key
    <2>2. CASE queue' = Append(queue, p[2])
      <3>1. Len(queue) + 1 \in DOMAIN queue' /\ queue'[Len(queue) + 1] = p[2]
        BY <1>3, <2>2
      <3> QED
        BY <3>1 DEF Seen, Key
    <2> QED
      BY <1>2, <2>1, <2>2
  <1>7. \A q \in pending : q \in pending' \/ q = p
    BY <1>1
  <1> QED
    BY <1>2, <1>5, <1>6, <1>7 DEF Awaited

LEMMA WalkBegins == TraceInit => WalkInv
  <1> SUFFICES ASSUME TraceInit
               PROVE  WalkInv
    OBVIOUS
  <1>1. TraceTyped /\ queue = <<>> /\ \A s \in Kept : \E m \in facts.entries : s = Root(m)
    BY TraceBegins
  <1>2. pending = {<<3, Root(m)>> : m \in facts.entries}
    BY DEF TraceInit
  <1>3. ASSUME NEW m \in facts.entries
        PROVE  Awaited(Root(m))
    <2>1. <<3, Root(m)>> \in pending
      BY <1>2
    <2> QED
      BY <2>1 DEF Awaited
  <1>4. ASSUME NEW s \in Kept
        PROVE  Trodden(s)
    <2>1. PICK m \in facts.entries : s = Root(m)
      BY <1>1
    <2>2. s.method = m /\ s.path = {m} /\ s.filter = Everything
      BY <2>1 DEF Root
    <2>3. s \in TraceStates
      BY <1>1 DEF Kept, TraceTyped
    <2>4. m \in Below[{m}]
      BY <1>1, BelowFacts DEF TraceTyped, FactsOK
    <2> QED
      BY <2>2, <2>3, <2>4 DEF Trodden
  <1>5. DOMAIN queue = {}
    BY <1>1
  <1> QED
    BY <1>1, <1>3, <1>4, <1>5 DEF WalkInv, Accounted, Roots, Visited

LEMMA EnqueueAccounts ==
  ASSUME WalkInv, Enqueue
  PROVE  WalkInv'
  <1>1. /\ TraceTyped' /\ Kept' \subseteq Kept /\ TraceTyped
        /\ {queue[k] : k \in DOMAIN queue} \subseteq {queue[k] : k \in DOMAIN queue}'
    BY EnqueueKeeps DEF WalkInv
  <1>2. facts' = facts /\ cursor' = cursor /\ effects' = effects
    BY DEF Enqueue
  <1>3. \A s \in Kept' : Trodden(s)'
    <2>1. \A q \in TraceStates : InQueue(q) => InQueue(q)'
      BY <1>1 DEF InQueue
    <2> QED
      BY <1>1, <1>2, <2>1, TroddenStays DEF WalkInv
  <1>4. Visited' \subseteq Visited
    <2>1. queue \in Seq(TraceStates) /\ cursor \in Nat /\ cursor <= Len(queue) + 1
      BY <1>1 DEF TraceTyped
    <2>2. queue' = queue \/ \E p \in pending : queue' = Append(queue, p[2])
      BY DEF Enqueue
    <2>3. ASSUME NEW k \in DOMAIN queue', k < cursor
          PROVE  k \in DOMAIN queue /\ queue'[k] = queue[k]
      BY <2>1, <2>2, <2>3
    <2> QED
      BY <1>2, <2>3 DEF Visited
  <1>5. ASSUME diagnostics' = {}
        PROVE  (\A s \in Roots : Awaited(s))' /\ (\A s \in Visited : Followed(s))'
    <2>1. diagnostics = {} /\ \A s : Awaited(s) => Awaited(s)'
      BY <1>1, <1>5, AwaitedStays
    <2>2. Roots' = Roots
      BY <1>2 DEF Roots, Root, RootClass
    <2>3. ASSUME NEW s, Followed(s)
          PROVE  Followed(s)'
      <3>1. CutOffs(s)' = CutOffs(s) /\ Following(s)' = Following(s)
        BY <1>2, FollowingStays
      <3> QED
        BY <1>2, <2>1, <2>3, <3>1 DEF Followed, AppliesDirectly
    <2> QED
      BY <1>4, <2>1, <2>2, <2>3 DEF WalkInv, Accounted
  <1>6. Accounted'
    BY <1>5 DEF Accounted
  <1> QED
    BY <1>1, <1>3, <1>6 DEF WalkInv

LEMMA VisitAccounts ==
  ASSUME WalkInv, Visit
  PROVE  WalkInv'
  <1> DEFINE s == queue[cursor]
  <1>1. TraceTyped
    BY DEF WalkInv
  <1>2. /\ TraceTyped' /\ s \in Kept /\ s \in TraceStates
        /\ \A t \in Kept' : (\E k \in DOMAIN queue : t = queue[k]) \/ t \in Following(s)
    BY <1>1, VisitKeeps
  <1>3. /\ pending = {} /\ cursor <= Len(queue) /\ cursor' = cursor + 1
        /\ pending' = NextStates(s) /\ diagnostics' = diagnostics \cup CutOffs(s)
        /\ effects' = effects \cup (IF AppliesDirectly(s.filter, Access(s.method))
                                     THEN {<<s.method, s.class>>} ELSE {})
        /\ facts' = facts /\ queue' = queue
    BY DEF Visit, NextStates
  <1>4. cursor \in DOMAIN queue /\ cursor \in Nat
    BY <1>1, <1>3 DEF TraceTyped
  <1>5. InQueue(s)
    BY <1>4 DEF InQueue
  <1>6. Visited' = Visited \cup {s}
    <2>1. \A k \in DOMAIN queue : k \in Nat
      BY <1>1 DEF TraceTyped
    <2>2. \A k \in DOMAIN queue : k < cursor + 1 <=> k < cursor \/ k = cursor
      BY <1>4, <2>1
    <2> QED
      BY <1>3, <1>4, <2>2 DEF Visited
  <1> HIDE DEF s
  <1>7. \A t \in Kept' : Trodden(t)'
    <2>1. \A k \in DOMAIN queue : queue[k] \in Kept
      BY DEF Kept
    <2>2. \A t \in Kept' : Trodden(t)
      BY <1>1, <1>2, <1>5, <2>1, FollowingTrodden DEF WalkInv, TraceTyped
    <2>3. \A q \in TraceStates : InQueue(q) => InQueue(q)'
      BY <1>3 DEF InQueue
    <2> QED
      BY <1>3, <2>2, <2>3, TroddenStays
  <1>8. ASSUME diagnostics' = {}
        PROVE  (\A t \in Roots : Awaited(t))' /\ (\A t \in Visited : Followed(t))'
    <2>1. diagnostics = {} /\ CutOffs(s) = {}
      BY <1>3, <1>8
    <2>2. \A t : Seen(t)' <=> Seen(t)
      BY <1>3 DEF Seen, Key
    <2>3. \A t : Awaited(t) => Awaited(t)'
      BY <1>3, <2>2 DEF Awaited
    <2>4. Roots' = Roots
      BY <1>3 DEF Roots, Root, RootClass
    <2>5. \A t : CutOffs(t)' = CutOffs(t) /\ Following(t)' = Following(t)
      BY <1>3, FollowingStays
    <2>6. ASSUME NEW t, Followed(t)
          PROVE  Followed(t)'
      BY <1>3, <2>3, <2>5, <2>6 DEF Followed, AppliesDirectly
    <2>7. \A t \in Following(s) : Awaited(t)'
      BY <1>3, NextIsFollowing DEF Awaited
    <2>8. ASSUME AppliesDirectly(s.filter, Access(s.method))
          PROVE  \E e \in effects' : e[1] = s.method
      <3>1. <<s.method, s.class>> \in effects'
        BY <1>3, <2>8
      <3> QED
        BY <3>1
    <2>9. ASSUME NEW t, t = s
          PROVE  Followed(t)'
      <3>1. CutOffs(t)' = {} /\ Following(t)' = Following(s)
        BY <2>1, <2>5, <2>9
      <3>2. \A u \in Following(t)' : Awaited(u)'
        BY <2>7, <3>1
      <3>3. AppliesDirectly(t.filter, Access(t.method))' => \E e \in effects' : e[1] = t.method
        BY <1>3, <2>8, <2>9 DEF AppliesDirectly
      <3> QED
        BY <3>1, <3>2, <3>3 DEF Followed
    <2> QED
      BY <1>6, <2>1, <2>3, <2>4, <2>6, <2>9 DEF WalkInv, Accounted
  <1>9. Accounted'
    BY <1>8 DEF Accounted
  <1> QED
    BY <1>2, <1>7, <1>9 DEF WalkInv

LEMMA WalkStays ==
  ASSUME WalkInv, UNCHANGED traceVars
  PROVE  WalkInv'
  <1>1. UNCHANGED <<facts, queue, cursor, pending, effects, diagnostics>>
    BY DEF traceVars
  <1>2. TraceTyped' /\ Kept' = Kept
    BY NothingMoves DEF WalkInv
  <1>3. \A s \in Kept' : Trodden(s)'
    BY <1>1, <1>2, TroddenStays DEF WalkInv, InQueue
  <1>4. \A s : CutOffs(s)' = CutOffs(s) /\ Following(s)' = Following(s)
    BY <1>1, FollowingStays
  <1>5. \A s : Awaited(s)' <=> Awaited(s)
    BY <1>1 DEF Awaited, Seen, Key
  <1>6. \A s : Followed(s) => Followed(s)'
    BY <1>1, <1>4, <1>5 DEF Followed, AppliesDirectly
  <1>7. Roots' = Roots /\ Visited' = Visited
    BY <1>1 DEF Roots, Root, RootClass, Visited
  <1>8. Accounted'
    BY <1>1, <1>5, <1>6, <1>7 DEF WalkInv, Accounted
  <1> QED
    BY <1>2, <1>3, <1>8 DEF WalkInv
-----------------------------------------------------------------------------
(* What was traced without a diagnostic covers every story.                 *)

(* A state covers a story if it looks at all that happens there.            *)
Covers(s, r) ==
  /\ s.method = r.method
  /\ \/ s.filter = Everything
     \/ \E i \in r.job : r.job = {i} /\ facts.kind[i] = "job" /\ s.filter = Selected(r.method, i)

Covered(r) == \E k \in DOMAIN queue : Covers(queue[k], r)

Clean == WalkInv /\ Traced /\ diagnostics = {} /\ ~DispatcherRecurs

LEMMA CleanWalk ==
  ASSUME Clean
  PROVE  /\ \A k \in DOMAIN queue : Followed(queue[k]) /\ Trodden(queue[k])
                                       /\ queue[k] \in TraceStates /\ Bounded(queue[k])
         /\ \A t : Awaited(t) => \E k \in DOMAIN queue : queue[k].method = t.method
                                                        /\ queue[k].filter = t.filter
  <1>1. TraceTyped /\ Accounted /\ pending = {} /\ cursor > Len(queue) /\ diagnostics = {}
    BY DEF Clean, WalkInv, Traced
  <1>2. ASSUME NEW k \in DOMAIN queue
        PROVE  queue[k] \in Visited /\ queue[k] \in Kept /\ queue[k] \in TraceStates
    <2>1. k < cursor /\ queue[k] \in TraceStates
      BY <1>1 DEF TraceTyped
    <2> QED
      BY <2>1 DEF Visited, Kept
  <1>3. ASSUME NEW t, Awaited(t)
        PROVE  \E k \in DOMAIN queue : queue[k].method = t.method /\ queue[k].filter = t.filter
    <2>1. PICK k \in DOMAIN queue : Key(queue[k]) = Key(t)
      BY <1>1, <1>3 DEF Awaited, Seen
    <2> QED
      BY <2>1 DEF Key
  <1> QED
    BY <1>1, <1>2, <1>3 DEF Clean, WalkInv, Accounted, TraceTyped

(* What happens in a story that is covered is looked at.                    *)
LEMMA CoveredIsLookedAt ==
  ASSUME Clean, NEW r \in Stories, Covered(r), NEW a \in Assertions, a[2] = r.method, Happens(r, a)
  PROVE  \E k \in DOMAIN queue : queue[k].method = r.method /\ AppliesDirectly(queue[k].filter, a)
  <1>1. PICK k \in DOMAIN queue : Covers(queue[k], r)
    BY DEF Covered
  <1> DEFINE s == queue[k]
  <1>2. s.method = r.method /\ Followed(s) /\ s \in TraceStates
    BY <1>1, CleanWalk DEF Covers
  <1>3. CASE AppliesDirectly(s.filter, a)
    BY <1>2, <1>3
  <1>4. ASSUME a \in facts.scoped, s.filter.restricted => Lock(s.method) \in s.filter.ids
        PROVE  \E j \in DOMAIN queue : queue[j].method = r.method /\ AppliesDirectly(queue[j].filter, a)
    <2> DEFINE t == [s EXCEPT !.class = SectionClass(s.class), !.filter = Only(SectionEffects(s.method))]
    <2> HIDE DEF s
    <2>1. a \in SectionEffects(s.method)
      BY <1>2, <1>4 DEF SectionEffects
    <2>2. t \in Sections(s)
      BY <1>4, <2>1 DEF Sections
    <2>3. t.method = s.method /\ t.filter = Only(SectionEffects(s.method))
      BY <1>2 DEF TraceStates
    <2>4. t \in Following(s)
      BY <2>2 DEF Following
    <2> HIDE DEF t
    <2>5. Awaited(t)
      BY <1>2, <2>4 DEF Followed
    <2>6. PICK j \in DOMAIN queue : queue[j].method = t.method /\ queue[j].filter = t.filter
      BY <2>5, CleanWalk
    <2>7. AppliesDirectly(queue[j].filter, a)
      BY <2>1, <2>3, <2>6 DEF AppliesDirectly, Only
    <2> QED
      BY <1>2, <2>3, <2>6, <2>7
  <1>5. CASE s.filter = Everything
    <2>1. a \notin facts.scoped => AppliesDirectly(s.filter, a)
      BY <1>5 DEF AppliesDirectly, Everything
    <2>2. ~s.filter.restricted
      BY <1>5 DEF Everything
    <2> QED
      BY <1>3, <1>4, <2>1, <2>2
  <1>6. ASSUME NEW i \in r.job, r.job = {i}, facts.kind[i] = "job", s.filter = Selected(r.method, i)
        PROVE  \E j \in DOMAIN queue : queue[j].method = r.method /\ AppliesDirectly(queue[j].filter, a)
    <2> DEFINE dispatch == {b \in facts.branches : b.method = r.method}
               ids == UNION {b.ids : b \in {d \in dispatch : i \in d.jobs}}
    <2>1. s.filter = IF dispatch = {} THEN Everything ELSE Only(ids)
      BY <1>6 DEF Selected
    <2>2. CASE dispatch = {}
      BY <1>5, <2>1, <2>2
    <2>3. CASE dispatch # {}
      <3>1. PICK b \in dispatch : /\ i \in b.jobs
                                  /\ a \in b.ids \/ (a \in facts.scoped /\ Lock(r.method) \in b.ids)
        BY <1>6, <2>3 DEF Happens
      <3>2. b.ids \subseteq ids
        BY <3>1
      <3>3. s.filter.restricted /\ s.filter.ids = ids
        BY <2>1, <2>3 DEF Only
      <3>4. a \in b.ids => AppliesDirectly(s.filter, a)
        BY <3>2, <3>3 DEF AppliesDirectly
      <3> QED
        BY <1>2, <1>3, <1>4, <3>1, <3>2, <3>3, <3>4
    <2> QED
      BY <2>2, <2>3
  <1> QED
    BY <1>1, <1>5, <1>6 DEF Covers

(* What a story leads to, one by one.                                       *)
LEMMA ToldOneByOne ==
  ASSUME FactsOK(facts), NEW r \in Stories, NEW q \in Told(r)
  PROVE  \/ \E n \in Methods :
              /\ <<r.method, n>> \in facts.calls /\ Happens(r, Call(r.method, n))
              /\ q.method = n /\ q.job = {}
         \/ \E i \in Sites(r.method), m \in facts.registered :
              /\ Happens(r, Initiate(r.method, i)) /\ Handles(m, i)
              /\ q.method = m
              /\ q.job = {i} \cap {j \in Interactions : facts.kind[j] = "job"}
  <1> DEFINE calls == {n \in Methods : <<r.method, n>> \in facts.calls
                                         /\ Happens(r, Call(r.method, n))}
             sites == {j \in Sites(r.method) : Happens(r, Initiate(r.method, j))}
             called(n) == [r EXCEPT !.method = n, !.locked = After(r, Call(r.method, n)),
                                    !.job = {}]
             across(i, m) ==
               [method |-> m, queued |-> r.queued \/ facts.kind[i] = "job",
                locked |-> After(r, Initiate(r.method, i)),
                last   |-> IF facts.kind[i] = "async_event" THEN "async" ELSE "sync",
                job    |-> {i} \cap {j \in Interactions : facts.kind[j] = "job"}]
             handlers(i) == {x \in facts.registered : Handles(x, i)}
  <1>1. Told(r) = {called(n) : n \in calls}
                    \cup UNION {{across(i, m) : m \in handlers(i)} : i \in sites}
    BY DEF Told
  <1>2. \A n \in calls : called(n).method = n /\ called(n).job = {}
    BY DEF Stories
  <1>3. \A i, m : /\ across(i, m).method = m
                  /\ across(i, m).job = {i} \cap {j \in Interactions : facts.kind[j] = "job"}
    OBVIOUS
  <1> HIDE DEF called, across
  <1>4. CASE \E n \in calls : q = called(n)
    BY <1>2, <1>4
  <1>5. CASE \E i \in sites : \E m \in handlers(i) : q = across(i, m)
    BY <1>3, <1>5
  <1>6. (\E n \in calls : q = called(n)) \/ \E i \in sites : \E m \in handlers(i) : q = across(i, m)
    <2> HIDE DEF calls, sites, handlers
    <2> QED
      BY <1>1
  <1> QED
    BY <1>4, <1>5, <1>6

LEMMA NothingCutOff ==
  ASSUME NEW s, CutOffs(s) = {}
  PROVE  /\ \A i \in AppliedSites(s) : /\ ~(Len(facts.handlers[i]) > facts.limits.fanOut)
                                       /\ s.path \cap ProvenHandlers(i) = {}
                                       /\ s.hop >= facts.limits.hops => ProvenHandlers(i) \ s.path = {}
         /\ s.depth >= facts.limits.depth => Callees(s) = {}
  <1> DEFINE fans == {j \in AppliedSites(s) : Len(facts.handlers[j]) > facts.limits.fanOut}
             cycles == s.path \cap UNION {ProvenHandlers(i) : i \in AppliedSites(s)}
             hops == {j \in AppliedSites(s) :
                        s.hop >= facts.limits.hops /\ ProvenHandlers(j) \ s.path # {}}
             deep == s.depth >= facts.limits.depth /\ Callees(s) # {}
  <1>1. CutOffs(s) = {<<"FAN_OUT_LIMIT", i>> : i \in fans}
                       \cup {<<"INTERACTION_CYCLE_TRUNCATED", m>> : m \in cycles}
                       \cup {<<"HOP_LIMIT", i>> : i \in hops}
                       \cup (IF deep THEN {<<"CALL_DEPTH_LIMIT", s.method>>} ELSE {})
    BY DEF CutOffs
  <1>2. fans = {} /\ cycles = {} /\ hops = {} /\ ~deep
    <2> HIDE DEF fans, cycles, hops, deep
    <2>1. \A x \in fans : <<"FAN_OUT_LIMIT", x>> \in CutOffs(s)
      BY <1>1
    <2>2. \A x \in cycles : <<"INTERACTION_CYCLE_TRUNCATED", x>> \in CutOffs(s)
      BY <1>1
    <2>3. \A x \in hops : <<"HOP_LIMIT", x>> \in CutOffs(s)
      BY <1>1
    <2>4. deep => <<"CALL_DEPTH_LIMIT", s.method>> \in CutOffs(s)
      BY <1>1
    <2> QED
      BY <2>1, <2>2, <2>3, <2>4
  <1> QED
    BY <1>2

(* A call of a state that was visited without a diagnostic is followed.  If *)
(* the callee was on the path, it was entered without restriction, for else *)
(* a worker that dispatches would be called by what it leads to.            *)
LEMMA CallFollowed ==
  ASSUME Clean, NEW k \in DOMAIN queue, NEW n \in Methods,
         <<queue[k].method, n>> \in facts.calls,
         AppliesDirectly(queue[k].filter, Call(queue[k].method, n))
  PROVE  \E j \in DOMAIN queue : queue[j].method = n /\ queue[j].filter = Everything
  <1> DEFINE s == queue[k]
  <1>1. Followed(s) /\ Trodden(s) /\ s \in TraceStates
    BY CleanWalk
  <1>2. n \in Callees(s)
    BY DEF Callees
  <1>3. InQueue(s)
    BY DEF InQueue
  <1>4. facts.limits.depth \in Nat
    BY DEF Clean, WalkInv, TraceTyped, FactsOK
  <1> HIDE DEF s
  <1>5. s.depth \in Nat
    BY <1>1 DEF TraceStates
  <1>6. s.depth < facts.limits.depth
    BY <1>1, <1>2, <1>4, <1>5, NothingCutOff DEF Followed
  <1>7. CASE n \notin s.path
    <2> DEFINE t == [s EXCEPT !.method = n, !.depth = s.depth + 1, !.path = s.path \cup {n},
                              !.filter = Everything]
    <2>1. t \in Following(s)
      BY <1>2, <1>6, <1>7 DEF Following, Calls
    <2>2. t.method = n /\ t.filter = Everything
      BY <1>1 DEF TraceStates
    <2> HIDE DEF t
    <2>3. Awaited(t)
      BY <1>1, <2>1 DEF Followed
    <2> QED
      BY <2>2, <2>3, CleanWalk
  <1>8. CASE n \in s.path
    <2>1. PICK q \in TraceStates :
            /\ q = s \/ InQueue(q)
            /\ q.method = n
            /\ q.filter = Everything \/ \E b \in facts.branches : b.method = n
      BY <1>1, <1>8 DEF Trodden
    <2>2. InQueue(q)
      BY <1>3, <2>1
    <2>3. s.method \in Below[{n}] /\ <<s.method, n>> \in facts.calls
      BY <1>1, <1>8 DEF Trodden, s
    <2>4. ~\E b \in facts.branches : b.method = n
      BY <2>3 DEF Clean, DispatcherRecurs
    <2> QED
      BY <2>1, <2>2, <2>4 DEF InQueue
  <1> QED
    BY <1>7, <1>8

LEMMA EntryFollowed ==
  ASSUME Clean, NEW k \in DOMAIN queue, NEW i \in Sites(queue[k].method),
         NEW m \in facts.registered, Handles(m, i),
         AppliesDirectly(queue[k].filter, Initiate(queue[k].method, i))
  PROVE  \E j \in DOMAIN queue : queue[j].method = m /\ queue[j].filter = Entry(m, i)
  <1> DEFINE s == queue[k]
  <1>1. Followed(s) /\ s \in TraceStates
    BY CleanWalk
  <1>2. FactsOK(facts) /\ i \in Interactions
    BY DEF Clean, WalkInv, TraceTyped, Sites
  <1>3. i \in AppliedSites(s)
    BY DEF AppliedSites
  <1>4. /\ facts.limits.hops \in Nat /\ facts.limits.fanOut \in Nat /\ s.hop \in Nat
        /\ facts.handlers[i] \in Seq(Methods) /\ m \in Methods
    BY <1>1, <1>2 DEF FactsOK, TraceStates
  <1> HIDE DEF s
  <1>5. /\ ~(Len(facts.handlers[i]) > facts.limits.fanOut)
        /\ s.path \cap ProvenHandlers(i) = {}
        /\ s.hop >= facts.limits.hops => ProvenHandlers(i) \ s.path = {}
    BY <1>1, <1>3, NothingCutOff DEF Followed
  <1>6. Len(facts.handlers[i]) <= facts.limits.fanOut
    BY <1>4, <1>5
  <1>7. m \in ProvenHandlers(i)
    <2>1. PICK h \in DOMAIN facts.handlers[i] : facts.handlers[i][h] = m
      BY DEF Handles
    <2>2. h <= facts.limits.fanOut
      BY <1>4, <1>6, <2>1
    <2> QED
      BY <2>1, <2>2 DEF ProvenHandlers, Matches
  <1>8. m \notin s.path
    BY <1>5, <1>7
  <1>9. s.hop < facts.limits.hops
    BY <1>4, <1>5, <1>7, <1>8
  <1>10. <<i, m>> \in Entered(s)
    BY <1>3, <1>4, <1>7, <1>8, <1>9 DEF Entered
  <1>11. Entering(s, i, m) \in Following(s)
    BY <1>10 DEF Following
  <1>12. Awaited(Entering(s, i, m))
    BY <1>1, <1>11 DEF Followed
  <1> QED
    BY <1>12, CleanWalk, EnteringFields
LEMMA CleanCovers ==
  ASSUME Clean, NEW r \in Reachable
  PROVE  Covered(r)
  <1> DEFINE T == {q \in Stories : Covered(q)}
  <1>1. FactsOK(facts) /\ pending = {} /\ diagnostics = {} /\ Accounted
    BY DEF Clean, WalkInv, TraceTyped, Traced
  <1>2. ASSUME NEW q \in Beginnings
        PROVE  q \in T
    <2>1. PICK m \in facts.entries : q.method = m
      BY DEF Beginnings
    <2>2. Awaited(Root(m))
      BY <1>1 DEF Accounted, Roots
    <2>3. Root(m).method = m /\ Root(m).filter = Everything
      BY DEF Root
    <2>4. PICK k \in DOMAIN queue : queue[k].method = m /\ queue[k].filter = Everything
      BY <2>2, <2>3, CleanWalk
    <2>5. Covered(q)
      BY <2>1, <2>4 DEF Covered, Covers
    <2> QED
      BY <1>1, <2>5, BeginningsAreStories
  <1>3. ASSUME NEW p \in T, NEW q \in Told(p)
        PROVE  q \in T
    <2>1. p \in Stories /\ Covered(p) /\ q \in Stories
      BY <1>1, ToldAreStories
    <2>2. p.method \in Methods
      BY <2>1 DEF Stories
    <2> HIDE DEF T
    <2>3. ASSUME NEW n \in Methods, <<p.method, n>> \in facts.calls, Happens(p, Call(p.method, n)),
                 q.method = n, q.job = {}
          PROVE  Covered(q)
      <3>1. Call(p.method, n) \in Assertions /\ Call(p.method, n)[2] = p.method
        BY <2>2 DEF Assertions, Call
      <3>2. PICK k \in DOMAIN queue :
              queue[k].method = p.method /\ AppliesDirectly(queue[k].filter, Call(p.method, n))
        BY <2>1, <2>3, <3>1, CoveredIsLookedAt
      <3>3. PICK j \in DOMAIN queue : queue[j].method = n /\ queue[j].filter = Everything
        BY <2>3, <3>2, CallFollowed
      <3> QED
        BY <2>3, <3>3 DEF Covered, Covers
    <2>4. ASSUME NEW i \in Sites(p.method), NEW m \in facts.registered,
                 Happens(p, Initiate(p.method, i)), Handles(m, i), q.method = m,
                 q.job = {i} \cap {j \in Interactions : facts.kind[j] = "job"}
          PROVE  Covered(q)
      <3>1. i \in Interactions
        BY DEF Sites
      <3>2. Initiate(p.method, i) \in Assertions /\ Initiate(p.method, i)[2] = p.method
        BY <2>2, <3>1 DEF Assertions, Initiate
      <3>3. PICK k \in DOMAIN queue :
              queue[k].method = p.method /\ AppliesDirectly(queue[k].filter, Initiate(p.method, i))
        BY <2>1, <2>4, <3>2, CoveredIsLookedAt
      <3>4. PICK j \in DOMAIN queue : queue[j].method = m /\ queue[j].filter = Entry(m, i)
        BY <2>4, <3>3, EntryFollowed
      <3>5. CASE facts.kind[i] = "job"
        <4>1. i \in q.job /\ q.job = {i}
          BY <2>4, <3>1, <3>5
        <4>2. Entry(m, i) = Selected(m, i) \/ Entry(m, i) = Everything
          BY DEF Entry
        <4> QED
          BY <2>4, <3>4, <3>5, <4>1, <4>2 DEF Covered, Covers
      <3>6. CASE facts.kind[i] # "job"
        <4>1. Entry(m, i) = Everything
          BY <3>6 DEF Entry, Selected
        <4> QED
          BY <2>4, <3>4, <4>1 DEF Covered, Covers
      <3> QED
        BY <3>5, <3>6
    <2>5. Covered(q)
      BY <1>1, <2>1, <2>3, <2>4, ToldOneByOne
    <2> QED
      BY <2>1, <2>5 DEF T
  <1>4. Complete(T)
    BY <1>2, <1>3 DEF Complete
  <1> QED
    BY <1>1, <1>4, ReachableIsLeast

(* A trace that reports itself complete is complete, whatever the analysis: *)
(* what it visited covers every story, as a state without a diagnostic is   *)
(* followed wherever its stories lead.                                      *)
THEOREM NothingIsSilentlyCut == ImpactSpec => []NothingSilentlyCut
  <1>1. ImpactInit => WalkInv
    BY WalkBegins DEF ImpactInit
  <1>2. WalkInv /\ [ImpactNext]_impactVars => WalkInv'
    BY StepsOfTheTrace, EnqueueAccounts, VisitAccounts, WalkStays
  <1>3. ASSUME WalkInv
        PROVE  NothingSilentlyCut
    <2>1. SUFFICES ASSUME Clean, NEW r \in Reachable, Happens(r, Access(r.method))
                   PROVE  \E e \in effects : e[1] = r.method
      BY <1>3 DEF NothingSilentlyCut, TrueEffects, Clean
    <2>2. FactsOK(facts)
      BY <2>1 DEF Clean, WalkInv, TraceTyped
    <2>3. r \in Stories /\ Covered(r)
      BY <2>1, <2>2, ReachableIsLeast, CleanCovers DEF Complete
    <2>4. Access(r.method) \in Assertions /\ Access(r.method)[2] = r.method
      BY <2>3 DEF Stories, Access, Assertions
    <2>5. PICK k \in DOMAIN queue :
            queue[k].method = r.method /\ AppliesDirectly(queue[k].filter, Access(r.method))
      BY <2>1, <2>3, <2>4, CoveredIsLookedAt
    <2> QED
      BY <2>1, <2>5, CleanWalk DEF Followed
  <1> QED
    BY <1>1, <1>2, <1>3, PTL DEF ImpactSpec

-----------------------------------------------------------------------------
(* The states of the reverse search.                                        *)

BackStates ==
  [method : Methods, depth : Nat, hops : Nat, visited : SUBSET Methods,
   branches : SUBSET facts.branches]

BackSteps(b) == Callers(b) \cup Initiators(b)

(* The branches met belong to methods on the path.                          *)
BranchesOnPath(b) == \A c \in b.branches : c.method \in b.visited

FirstBack(m) ==
  [method |-> m, depth |-> 0, hops |-> 0, visited |-> {m}, branches |-> BranchesOf(Access(m))]

SearchTyped ==
  /\ TraceTyped
  /\ IF target = NoTarget THEN frontier = {} /\ found = FALSE
     ELSE Traced /\ target \in Methods
  /\ frontier \in SUBSET BackStates
  /\ \A b \in frontier : BranchesOnPath(b)

LEMMA BranchesOfFacts ==
  ASSUME FactsOK(facts), NEW a
  PROVE  /\ BranchesOf(a) \in SUBSET facts.branches
         /\ \A c \in BranchesOf(a) : c.method = a[2]
  BY DEF BranchesOf, FactsOK

(* A step back, to whoever calls or initiates.                              *)
LEMMA BackStepFields ==
  ASSUME FactsOK(facts), NEW b \in BackStates, BranchesOnPath(b), NEW t \in BackSteps(b)
  PROVE  /\ t \in BackStates /\ BranchesOnPath(t)
         /\ t.method \notin b.visited
         /\ \/ /\ <<t.method, b.method>> \in facts.calls
               /\ t.branches = b.branches \cup BranchesOf(Call(t.method, b.method))
            \/ \E i \in Sites(t.method) :
                 /\ Handles(b.method, i) /\ BranchAllows(b, i)
                 /\ t.branches = b.branches \cup BranchesOf(Initiate(t.method, i))
  <1>1. /\ b.method \in Methods /\ b.depth \in Nat /\ b.hops \in Nat /\ b.visited \in SUBSET Methods
        /\ b.branches \in SUBSET facts.branches
    BY DEF BackStates
  <1>2. CASE t \in Callers(b)
    <2>1. PICK n \in Methods :
            /\ <<n, b.method>> \in facts.calls /\ n \notin b.visited
            /\ t = [Back(b, n, Call(n, b.method)) EXCEPT !.depth = b.depth + 1]
      BY <1>2 DEF Callers
    <2>2. t = [method |-> n, depth |-> b.depth + 1, hops |-> b.hops, visited |-> b.visited \cup {n},
               branches |-> b.branches \cup BranchesOf(Call(n, b.method))]
      BY <2>1 DEF Back, BackStates
    <2>3. /\ BranchesOf(Call(n, b.method)) \in SUBSET facts.branches
          /\ \A c \in BranchesOf(Call(n, b.method)) : c.method = n
      BY BranchesOfFacts DEF Call
    <2>4. t \in BackStates
      BY <1>1, <2>2, <2>3 DEF BackStates
    <2>5. BranchesOnPath(t)
      BY <2>2, <2>3 DEF BranchesOnPath
    <2> QED
      BY <2>1, <2>2, <2>4, <2>5
  <1>3. CASE t \in Initiators(b)
    <2>1. PICK i \in Interactions :
            /\ Handles(b.method, i) /\ BranchAllows(b, i) /\ facts.source[i] \notin b.visited
            /\ t = [Back(b, facts.source[i], Initiate(facts.source[i], i)) EXCEPT !.hops = b.hops + 1]
      BY <1>3 DEF Initiators
    <2> DEFINE n == facts.source[i]
    <2>2. n \in Methods /\ i \in Sites(n)
      BY DEF FactsOK, Sites
    <2>3. t = [method |-> n, depth |-> b.depth, hops |-> b.hops + 1, visited |-> b.visited \cup {n},
               branches |-> b.branches \cup BranchesOf(Initiate(n, i))]
      BY <2>1 DEF Back, BackStates
    <2>4. /\ BranchesOf(Initiate(n, i)) \in SUBSET facts.branches
          /\ \A c \in BranchesOf(Initiate(n, i)) : c.method = n
      BY BranchesOfFacts DEF Initiate
    <2>5. n \notin b.visited
      BY <2>1
    <2> HIDE DEF n
    <2>6. t \in BackStates
      BY <1>1, <2>2, <2>3, <2>4 DEF BackStates
    <2>7. BranchesOnPath(t)
      BY <2>3, <2>4 DEF BranchesOnPath
    <2> QED
      BY <2>1, <2>2, <2>3, <2>5, <2>6, <2>7
  <1> QED
    BY <1>2, <1>3 DEF BackSteps

LEMMA FirstBackTyped ==
  ASSUME FactsOK(facts), NEW m \in Methods
  PROVE  FirstBack(m) \in BackStates /\ BranchesOnPath(FirstBack(m))
  <1>1. /\ BranchesOf(Access(m)) \in SUBSET facts.branches
        /\ \A c \in BranchesOf(Access(m)) : c.method = m
    BY BranchesOfFacts DEF Access
  <1> QED
    BY <1>1 DEF FirstBack, BackStates, BranchesOnPath

(* The steps of the specification, as the search sees them.                 *)
LEMMA StepsOfTheSearch ==
  ASSUME SearchTyped, [ImpactNext]_impactVars
  PROVE  /\ facts' = facts
         /\ \/ (Enqueue \/ Visit) /\ target = NoTarget /\ UNCHANGED <<target, frontier, found>>
            \/ \E m \in Methods :
                 /\ target = NoTarget /\ target' = m /\ frontier' = {FirstBack(m)} /\ ~found'
                 /\ Traced /\ UNCHANGED traceVars
            \/ /\ target # NoTarget /\ target' = target
               /\ found' = (found \/ \E b \in frontier : b.method \in facts.entries)
               /\ frontier' = UNION {BackSteps(b) : b \in frontier}
               /\ UNCHANGED traceVars
            \/ UNCHANGED impactVars
  <1>1. CASE TraceNext /\ UNCHANGED <<target, frontier, found>>
    <2>1. Enqueue \/ Visit
      BY <1>1 DEF TraceNext
    <2>2. facts' = facts /\ ~Traced
      BY <2>1 DEF Enqueue, Visit, Traced, SearchTyped, TraceTyped
    <2> QED
      BY <1>1, <2>1, <2>2 DEF SearchTyped
  <1>2. ASSUME NEW m \in Methods, Change(m)
        PROVE  /\ target = NoTarget /\ target' = m /\ frontier' = {FirstBack(m)} /\ ~found'
               /\ Traced /\ UNCHANGED traceVars
    BY <1>2 DEF Change, FirstBack, SearchTyped
  <1>3. ASSUME Expand
        PROVE  /\ target # NoTarget /\ target' = target
               /\ found' = (found \/ \E b \in frontier : b.method \in facts.entries)
               /\ frontier' = UNION {BackSteps(b) : b \in frontier}
               /\ UNCHANGED traceVars
    BY <1>3 DEF Expand, BackSteps, SearchTyped
  <1>5. UNCHANGED traceVars => facts' = facts
    BY DEF traceVars
  <1>6. UNCHANGED impactVars => facts' = facts
    BY DEF impactVars, traceVars
  <1> QED
    BY <1>1, <1>2, <1>3, <1>5, <1>6 DEF ImpactNext
LEMMA SearchStays ==
  ASSUME facts' = facts, NEW b
  PROVE  /\ BackSteps(b)' = BackSteps(b) /\ FirstBack(b)' = FirstBack(b)
         /\ BranchesOnPath(b)' <=> BranchesOnPath(b)
         /\ BackStates' = BackStates
  BY DEF BackSteps, Callers, Initiators, Back, BranchAllows, BranchesOf, Handles, FirstBack,
         BranchesOnPath, BackStates, Call, Initiate, Access

LEMMA SearchTypedStep ==
  ASSUME SearchTyped, [ImpactNext]_impactVars
  PROVE  SearchTyped'
  <1>1. facts' = facts /\ FactsOK(facts) /\ TraceTyped
    BY StepsOfTheSearch DEF SearchTyped, TraceTyped
  <1>2. TraceTyped'
    BY <1>1, StepsOfTheTrace, EnqueueKeeps, VisitKeeps, NothingMoves
  <1>3. \A b : BranchesOnPath(b)' <=> BranchesOnPath(b)
    BY <1>1, SearchStays
  <1>4. BackStates' = BackStates
    BY <1>1, SearchStays
  <1>5. UNCHANGED traceVars => Traced' = Traced
    BY DEF traceVars, Traced
  <1>6. CASE (Enqueue \/ Visit) /\ target = NoTarget /\ UNCHANGED <<target, frontier, found>>
    BY <1>2, <1>3, <1>4, <1>6 DEF SearchTyped
  <1>7. ASSUME NEW m \in Methods, target' = m, frontier' = {FirstBack(m)},
               Traced, UNCHANGED traceVars
        PROVE  SearchTyped'
    <2>1. FirstBack(m) \in BackStates /\ BranchesOnPath(FirstBack(m))
      BY <1>1, FirstBackTyped
    <2>2. target' # NoTarget
      BY <1>7, NoTargetAssumption
    <2>3. \A b \in frontier' : BranchesOnPath(b)'
      BY <1>3, <1>7, <2>1
    <2> QED
      BY <1>2, <1>4, <1>5, <1>7, <2>1, <2>2, <2>3 DEF SearchTyped
  <1>8. CASE /\ target # NoTarget /\ target' = target
             /\ frontier' = UNION {BackSteps(b) : b \in frontier}
             /\ UNCHANGED traceVars
    <2>1. \A t \in frontier' : t \in BackStates /\ BranchesOnPath(t)
      BY <1>1, <1>8, BackStepFields DEF SearchTyped
    <2>2. \A t \in frontier' : BranchesOnPath(t)'
      BY <1>3, <2>1
    <2> QED
      BY <1>2, <1>4, <1>5, <1>8, <2>1, <2>2 DEF SearchTyped
  <1>9. CASE UNCHANGED impactVars
    <2>1. UNCHANGED <<target, frontier, found>> /\ UNCHANGED traceVars
      BY <1>9 DEF impactVars
    <2> QED
      BY <1>2, <1>3, <1>4, <1>5, <2>1 DEF SearchTyped
  <1> QED
    BY <1>6, <1>7, <1>8, <1>9, StepsOfTheSearch

LEMMA SearchBegins == ImpactInit => SearchTyped
  BY TraceBegins DEF ImpactInit, SearchTyped

-----------------------------------------------------------------------------
(* What is found is reached: a story that is compatible with a state of the *)
(* search, with the branches met so far, leads to the target.               *)

Distinct == facts.registered = Methods /\ BranchesCover /\ BranchNamesApart

Compatible(r, b) ==
  \/ r.job = {}
  \/ \E i \in Interactions : /\ r.job = {i} /\ facts.kind[i] = "job"
                             /\ Handles(b.method, i) /\ BranchAllows(b, i)

Arrives(m) == \E r \in Reachable : r.method = m /\ Happens(r, Access(m))

Reaches(b, m) == \A r \in Reachable : r.method = b.method /\ Compatible(r, b) => Arrives(m)

(* If the branches met of a method are those of one of its assertions, the  *)
(* assertion happens in a compatible story: the branch that allows its job  *)
(* can be that of no other worker.                                          *)
LEMMA CompatibleHappens ==
  ASSUME FactsOK(facts), Distinct, NEW t \in BackStates, NEW r \in Stories, r.method = t.method,
         Compatible(r, t), NEW a \in Does(t.method), BranchesOf(a) \subseteq t.branches,
         \A c \in t.branches : c.method = t.method => c \in BranchesOf(a)
  PROVE  Happens(r, a)
  <1> DEFINE dispatch == {b \in facts.branches : b.method = r.method}
  <1>1. CASE r.job = {} \/ dispatch = {}
    BY <1>1 DEF Happens
  <1>2. CASE r.job # {} /\ dispatch # {}
    <2>1. PICK i \in Interactions : /\ r.job = {i} /\ facts.kind[i] = "job"
                                    /\ Handles(t.method, i) /\ BranchAllows(t, i)
      BY <1>2 DEF Compatible
    <2>2. PICK d \in facts.branches : d.method = t.method
      BY <1>2
    <2>3. PICK e \in facts.branches : a \in e.ids
      BY <2>2 DEF Distinct, BranchesCover
    <2>4. t.branches # {}
      BY <2>3 DEF BranchesOf
    <2>5. PICK c \in t.branches : i \in c.jobs
      BY <2>1, <2>4 DEF BranchAllows
    <2>6. c \in facts.branches
      BY DEF BackStates
    <2>7. c.method = t.method
      BY <2>1, <2>2, <2>5, <2>6 DEF Distinct, BranchNamesApart
    <2>8. a \in c.ids
      BY <2>7 DEF BranchesOf
    <2>9. c \in dispatch /\ r.job \subseteq c.jobs
      BY <2>1, <2>5, <2>6, <2>7
    <2> QED
      BY <2>8, <2>9 DEF Happens
  <1> QED
    BY <1>1, <1>2

(* The two kinds of step of a story, made from what happens in it.          *)
LEMMA CallIsTold ==
  ASSUME FactsOK(facts), NEW r \in Stories, NEW n \in Methods, <<r.method, n>> \in facts.calls,
         Happens(r, Call(r.method, n))
  PROVE  \E q \in Told(r) : q.method = n /\ q.job = {}
  <1> DEFINE q == [r EXCEPT !.method = n, !.locked = After(r, Call(r.method, n)), !.job = {}]
  <1>1. q \in Told(r)
    BY DEF Told
  <1>2. q.method = n /\ q.job = {}
    BY DEF Stories
  <1> QED
    BY <1>1, <1>2

LEMMA EntryIsTold ==
  ASSUME FactsOK(facts), NEW r \in Stories, NEW i \in Sites(r.method), NEW m \in facts.registered,
         Handles(m, i), Happens(r, Initiate(r.method, i))
  PROVE  \E q \in Told(r) : /\ q.method = m
                            /\ q.job = {i} \cap {j \in Interactions : facts.kind[j] = "job"}
  <1> DEFINE here == {j \in Sites(r.method) : Happens(r, Initiate(r.method, j))}
             there(j) == {x \in facts.registered : Handles(x, j)}
             entered(j, x) ==
               [method |-> x, queued |-> r.queued \/ facts.kind[j] = "job",
                locked |-> After(r, Initiate(r.method, j)),
                last   |-> IF facts.kind[j] = "async_event" THEN "async" ELSE "sync",
                job    |-> {j} \cap {k \in Interactions : facts.kind[k] = "job"}]
  <1>1. UNION {{entered(j, x) : x \in there(j)} : j \in here} \subseteq Told(r)
    BY DEF Told
  <1>2. i \in here /\ m \in there(i)
    OBVIOUS
  <1>3. entered(i, m).method = m /\ entered(i, m).job = {i} \cap {j \in Interactions : facts.kind[j] = "job"}
    OBVIOUS
  <1> HIDE DEF here, there, entered
  <1>4. entered(i, m) \in Told(r)
    BY <1>1, <1>2
  <1> QED
    BY <1>3, <1>4

LEMMA BackStepReaches ==
  ASSUME FactsOK(facts), Distinct, NEW b \in BackStates, BranchesOnPath(b), NEW t \in BackSteps(b),
         NEW m, Reaches(b, m)
  PROVE  Reaches(t, m)
  <1> SUFFICES ASSUME NEW r \in Reachable, r.method = t.method, Compatible(r, t)
               PROVE  Arrives(m)
    BY DEF Reaches
  <1>1. r \in Stories /\ Told(r) \subseteq Reachable
    BY ReachableIsLeast DEF Complete
  <1>2. /\ t \in BackStates /\ t.method \notin b.visited
        /\ \/ /\ <<t.method, b.method>> \in facts.calls
              /\ t.branches = b.branches \cup BranchesOf(Call(t.method, b.method))
           \/ \E i \in Sites(t.method) :
                /\ Handles(b.method, i) /\ BranchAllows(b, i)
                /\ t.branches = b.branches \cup BranchesOf(Initiate(t.method, i))
    BY BackStepFields
  <1>3. b.method \in Methods /\ t.method \in Methods
    BY <1>2 DEF BackStates
  <1>4. \A c \in b.branches : c.method # t.method
    BY <1>2 DEF BranchesOnPath
  <1>5. CASE /\ <<t.method, b.method>> \in facts.calls
             /\ t.branches = b.branches \cup BranchesOf(Call(t.method, b.method))
    <2>1. Call(t.method, b.method) \in Does(t.method)
      BY <1>3, <1>5 DEF Does
    <2>2. Happens(r, Call(t.method, b.method))
      BY <1>1, <1>2, <1>4, <1>5, <2>1, CompatibleHappens
    <2>3. PICK q \in Told(r) : q.method = b.method /\ q.job = {}
      BY <1>1, <1>3, <1>5, <2>2, CallIsTold
    <2> QED
      BY <1>1, <2>3 DEF Reaches, Compatible
  <1>6. ASSUME NEW i \in Sites(t.method), Handles(b.method, i), BranchAllows(b, i),
               t.branches = b.branches \cup BranchesOf(Initiate(t.method, i))
        PROVE  Arrives(m)
    <2>1. Initiate(t.method, i) \in Does(t.method)
      BY DEF Does
    <2>2. Happens(r, Initiate(t.method, i))
      BY <1>1, <1>2, <1>4, <1>6, <2>1, CompatibleHappens
    <2>3. i \in Interactions /\ b.method \in facts.registered
      BY <1>3 DEF Sites, Distinct
    <2>4. PICK q \in Told(r) : /\ q.method = b.method
                               /\ q.job = {i} \cap {j \in Interactions : facts.kind[j] = "job"}
      BY <1>1, <1>6, <2>2, <2>3, EntryIsTold
    <2>5. q.job = {} \/ (q.job = {i} /\ facts.kind[i] = "job")
      BY <2>3, <2>4
    <2>6. Compatible(q, b)
      BY <1>6, <2>3, <2>5 DEF Compatible
    <2> QED
      BY <1>1, <2>4, <2>6 DEF Reaches
  <1> QED
    BY <1>2, <1>5, <1>6

LEMMA FirstBackReaches ==
  ASSUME FactsOK(facts), Distinct, NEW m \in Methods
  PROVE  Reaches(FirstBack(m), m)
  <1> SUFFICES ASSUME NEW r \in Reachable, r.method = m, Compatible(r, FirstBack(m))
               PROVE  Arrives(m)
    BY DEF Reaches, FirstBack
  <1>1. r \in Stories
    BY ReachableIsLeast DEF Complete
  <1> DEFINE t == FirstBack(m)
  <1>2. t \in BackStates /\ t.method = m /\ t.branches = BranchesOf(Access(m))
    BY FirstBackTyped DEF FirstBack
  <1>3. Access(m) \in Does(t.method)
    BY <1>2 DEF Does
  <1> HIDE DEF t
  <1>4. Happens(r, Access(m))
    BY <1>1, <1>2, <1>3, CompatibleHappens DEF t
  <1> QED
    BY <1>4 DEF Arrives

FoundInv ==
  Distinct /\ target # NoTarget =>
    /\ \A b \in frontier : Reaches(b, target)
    /\ found => Arrives(target)

LEMMA ReachesStays ==
  ASSUME facts' = facts
  PROVE  /\ Distinct' <=> Distinct
         /\ \A m : Arrives(m)' <=> Arrives(m)
         /\ \A b, m : Reaches(b, m)' <=> Reaches(b, m)
  <1>1. Reachable' = Reachable
    BY ReachableStays
  <1>2. Distinct' <=> Distinct
    BY DEF Distinct, BranchesCover, BranchNamesApart, Does, Sites, Handles, Access, Call, Initiate
  <1>3. \A m : Arrives(m)' <=> Arrives(m)
    BY <1>1, HappensStays DEF Arrives
  <1>4. ASSUME NEW r, NEW b
        PROVE  Compatible(r, b)' <=> Compatible(r, b)
    BY DEF Compatible, Handles, BranchAllows
  <1>5. \A b, m : Reaches(b, m)' <=> Reaches(b, m)
    BY <1>1, <1>3, <1>4 DEF Reaches
  <1> QED
    BY <1>2, <1>3, <1>5

LEMMA EntryArrives ==
  ASSUME FactsOK(facts), NEW b, NEW m, b.method \in facts.entries, Reaches(b, m)
  PROVE  Arrives(m)
  <1>1. Beginnings \subseteq Reachable
    BY ReachableIsLeast DEF Complete
  <1>2. \E r \in Beginnings : r.method = b.method /\ r.job = {}
    <2> DEFINE r == [method |-> b.method, queued |-> facts.root = "job", locked |-> FALSE, job |-> {},
                     last |-> [endpoint |-> "none", event |-> "sync", async_event |-> "async",
                               job |-> "none"][facts.root]]
    <2>1. r \in Beginnings
      BY DEF Beginnings
    <2>2. r.method = b.method /\ r.job = {}
      OBVIOUS
    <2> QED
      BY <2>1, <2>2
  <1> QED
    BY <1>1, <1>2 DEF Reaches, Compatible

LEMMA FoundInvStep ==
  ASSUME SearchTyped, FoundInv, [ImpactNext]_impactVars
  PROVE  FoundInv'
  <1>1. facts' = facts /\ FactsOK(facts)
    BY StepsOfTheSearch DEF SearchTyped, TraceTyped
  <1>2. /\ Distinct' <=> Distinct
        /\ \A m : Arrives(m)' <=> Arrives(m)
        /\ \A b, m : Reaches(b, m)' <=> Reaches(b, m)
    BY <1>1, ReachesStays
  <1> SUFFICES ASSUME Distinct, target' # NoTarget
               PROVE  /\ \A b \in frontier' : Reaches(b, target')
                      /\ found' => Arrives(target')
    BY <1>2 DEF FoundInv
  <1>3. CASE target = NoTarget /\ UNCHANGED <<target, frontier, found>>
    BY <1>3
  <1>4. ASSUME NEW m \in Methods, target' = m, frontier' = {FirstBack(m)}, ~found'
        PROVE  /\ \A b \in frontier' : Reaches(b, target')
               /\ found' => Arrives(target')
    BY <1>1, <1>4, FirstBackReaches
  <1>5. CASE /\ target # NoTarget /\ target' = target
             /\ found' = (found \/ \E b \in frontier : b.method \in facts.entries)
             /\ frontier' = UNION {BackSteps(b) : b \in frontier}
    <2>1. \A b \in frontier : Reaches(b, target) /\ b \in BackStates /\ BranchesOnPath(b)
      BY <1>5 DEF FoundInv, SearchTyped
    <2>2. \A t \in frontier' : Reaches(t, target)
      BY <1>1, <1>5, <2>1, BackStepReaches
    <2>3. found' => Arrives(target)
      BY <1>1, <1>5, <2>1, EntryArrives DEF FoundInv
    <2> QED
      BY <1>5, <2>2, <2>3
  <1>6. CASE UNCHANGED impactVars
    BY <1>6 DEF impactVars, FoundInv
  <1> QED
    BY <1>3, <1>4, <1>5, <1>6, StepsOfTheSearch

(* Where branches tell workers apart, a table from which the search finds   *)
(* the endpoint is reached by a story, and so is in a trace that reports    *)
(* itself complete, whatever the analysis.                                  *)
THEOREM FoundAreTraced == ImpactSpec => []FoundIsTraced
  <1>1. ImpactInit => SearchTyped /\ FoundInv
    BY SearchBegins DEF ImpactInit, FoundInv
  <1>2. SearchTyped /\ FoundInv /\ [ImpactNext]_impactVars => (SearchTyped /\ FoundInv)'
    BY SearchTypedStep, FoundInvStep
  <1>3. ASSUME SearchTyped, FoundInv, NothingSilentlyCut
        PROVE  FoundIsTraced
    <2> SUFFICES ASSUME Searched, diagnostics = {}, Distinct, ~DispatcherRecurs, found
                 PROVE  \E e \in effects : e[1] = target
      BY DEF FoundIsTraced, Distinct
    <2>1. PICK r \in Reachable : r.method = target /\ Happens(r, Access(target))
      BY <1>3 DEF FoundInv, Searched, Arrives
    <2>2. <<r.method, StoryClass(r, Access(r.method))>> \in TrueEffects
      BY <2>1 DEF TrueEffects
    <2>3. Traced
      BY <1>3 DEF SearchTyped, Searched
    <2>4. {e[1] : e \in TrueEffects} \subseteq {e[1] : e \in effects}
      BY <1>3, <2>3 DEF NothingSilentlyCut
    <2>5. r.method \in {e[1] : e \in TrueEffects}
      BY <2>2
    <2> QED
      BY <2>1, <2>4, <2>5
  <1> QED
    BY <1>1, <1>2, <1>3, NothingIsSilentlyCut, PTL DEF ImpactSpec

-----------------------------------------------------------------------------
(* What is traced is found: the path of a state, walked back from its       *)
(* method, is a path of the search.                                         *)

ClosedBack(B) == B \in SUBSET BackStates /\ \A b \in B : BackSteps(b) \subseteq B

(* A state of the search at the method of a state of the trace, with the    *)
(* rest of the path in front of it: it has met no other method of the path, *)
(* and what is left of the bounds is enough for it.                         *)
Fits(b, s) ==
  /\ b.method = s.method
  /\ b.visited \cap s.path = {s.method}
  /\ b.hops + s.hop <= facts.limits.hops
  /\ b.depth + 1 <= Cardinality(b.visited)
  /\ (\A m \in Methods : Sites(m) = {}) => b.depth + s.depth <= facts.limits.depth

LeadsBack(s) ==
  \A B : ClosedBack(B) /\ (\E b \in B : Fits(b, s)) => \E b \in B : b.method \in facts.entries

Plain == facts.branches = {} /\ DepthAmple

LEMMA OneMore ==
  ASSUME NEW M \in SUBSET Methods, NEW n \in Methods \ M
  PROVE  /\ Cardinality(M) \in Nat /\ Cardinality(M \cup {n}) = Cardinality(M) + 1
         /\ Cardinality(M) + 1 <= Cardinality(Methods) /\ Cardinality(Methods) \in Nat
  <1>1. IsFiniteSet(Methods) /\ IsFiniteSet(M) /\ M \cup {n} \subseteq Methods
    BY FiniteAssumption, FS_Subset
  <1>2. Cardinality(M) \in Nat /\ Cardinality(M \cup {n}) = Cardinality(M) + 1
    BY <1>1, FS_AddElement, FS_CardinalityType
  <1>3. Cardinality(M \cup {n}) <= Cardinality(Methods) /\ Cardinality(Methods) \in Nat
    BY <1>1, FS_Subset, FS_CardinalityType
  <1> QED
    BY <1>2, <1>3
LEMMA CallLeadsBack ==
  ASSUME FactsOK(facts), Plain, NEW s \in TraceStates, Bounded(s), LeadsBack(s), NEW t \in Calls(s)
  PROVE  LeadsBack(t)
  <1>1. PICK n \in Methods :
          /\ <<s.method, n>> \in facts.calls /\ n \notin s.path
          /\ t = [s EXCEPT !.method = n, !.depth = s.depth + 1, !.path = s.path \cup {n},
                           !.filter = Everything]
    BY DEF Calls, Callees
  <1>2. t.method = n /\ t.depth = s.depth + 1 /\ t.hop = s.hop /\ t.path = s.path \cup {n}
    BY <1>1 DEF TraceStates
  <1>3. /\ s.method \in Methods /\ s.method \in s.path /\ s.depth \in Nat /\ s.hop \in Nat
        /\ facts.limits.depth \in Nat /\ facts.limits.hops \in Nat
    BY DEF TraceStates, Bounded, FactsOK
  <1> SUFFICES ASSUME NEW B, ClosedBack(B), NEW b \in B, Fits(b, t)
               PROVE  \E c \in B : c.method \in facts.entries
    BY DEF LeadsBack
  <1>4. /\ b \in BackStates /\ BackSteps(b) \subseteq B
        /\ b.depth \in Nat /\ b.hops \in Nat /\ b.visited \in SUBSET Methods
    BY DEF ClosedBack, BackStates
  <1>5. /\ b.method = n /\ b.visited \cap (s.path \cup {n}) = {n}
        /\ b.hops + s.hop <= facts.limits.hops
        /\ b.depth + 1 <= Cardinality(b.visited)
        /\ (\A m \in Methods : Sites(m) = {}) => b.depth + (s.depth + 1) <= facts.limits.depth
    BY <1>2 DEF Fits
  <1>6. s.method \notin b.visited
    BY <1>1, <1>3, <1>5
  <1>7. /\ Cardinality(b.visited) \in Nat
        /\ Cardinality(b.visited \cup {s.method}) = Cardinality(b.visited) + 1
        /\ Cardinality(b.visited) + 1 <= Cardinality(Methods) /\ Cardinality(Methods) \in Nat
    BY <1>3, <1>4, <1>6, OneMore
  <1>8. b.depth < facts.limits.depth
    <2>1. CASE facts.limits.depth + 1 >= Cardinality(Methods)
      BY <1>3, <1>4, <1>5, <1>7, <2>1
    <2>2. CASE \A m \in Methods : Sites(m) = {}
      BY <1>3, <1>4, <1>5, <2>2
    <2> QED
      BY <2>1, <2>2 DEF Plain, DepthAmple
  <1> DEFINE c == [Back(b, s.method, Call(s.method, b.method)) EXCEPT !.depth = b.depth + 1]
  <1>9. c \in B
    <2>1. c \in Callers(b)
      BY <1>1, <1>3, <1>5, <1>6, <1>8 DEF Callers
    <2> QED
      BY <1>4, <2>1 DEF BackSteps
  <1>10. /\ c.method = s.method /\ c.depth = b.depth + 1 /\ c.hops = b.hops
         /\ c.visited = b.visited \cup {s.method}
    BY <1>4 DEF Back, BackStates
  <1> HIDE DEF c
  <1>11. c.visited \cap s.path = {s.method}
    BY <1>1, <1>3, <1>5, <1>10
  <1>12. (\A m \in Methods : Sites(m) = {}) => c.depth + s.depth <= facts.limits.depth
    BY <1>3, <1>4, <1>5, <1>10
  <1>13. c.hops + s.hop <= facts.limits.hops /\ c.depth + 1 <= Cardinality(c.visited)
    BY <1>3, <1>4, <1>5, <1>7, <1>10
  <1>14. Fits(c, s)
    BY <1>10, <1>11, <1>12, <1>13 DEF Fits
  <1> QED
    BY <1>9, <1>14 DEF LeadsBack

LEMMA EntryLeadsBack ==
  ASSUME FactsOK(facts), Plain, NEW s \in TraceStates, Bounded(s), LeadsBack(s), NEW e \in Entered(s)
  PROVE  LeadsBack(Entering(s, e[1], e[2]))
  <1> DEFINE i == e[1]
             n == e[2]
             t == Entering(s, i, n)
  <1>1. /\ i \in Interactions /\ facts.source[i] = s.method /\ n \in Methods
        /\ n \in ProvenHandlers(i) /\ n \notin s.path
    BY DEF Entered, AppliedSites, Sites
  <1>2. t.method = n /\ t.depth = 0 /\ t.hop = s.hop + 1 /\ t.path = s.path \cup {n}
    BY EnteringFields
  <1>3. /\ s.method \in Methods /\ s.method \in s.path /\ s.depth \in Nat /\ s.hop \in Nat
        /\ facts.limits.depth \in Nat /\ facts.limits.hops \in Nat
    BY DEF TraceStates, Bounded, FactsOK
  <1>4. Handles(n, i)
    BY <1>1 DEF ProvenHandlers, Matches, Handles
  <1>5. ~\A m \in Methods : Sites(m) = {}
    BY <1>1, <1>3 DEF Sites
  <1> HIDE DEF t, i, n
  <1> SUFFICES ASSUME NEW B, ClosedBack(B), NEW b \in B, Fits(b, t)
               PROVE  \E c \in B : c.method \in facts.entries
    BY DEF LeadsBack, t, i, n
  <1>6. /\ b \in BackStates /\ BackSteps(b) \subseteq B /\ b.branches = {}
        /\ b.depth \in Nat /\ b.hops \in Nat /\ b.visited \in SUBSET Methods
    BY DEF ClosedBack, BackStates, Plain
  <1>7. /\ b.method = n /\ b.visited \cap (s.path \cup {n}) = {n}
        /\ b.hops + (s.hop + 1) <= facts.limits.hops
        /\ b.depth + 1 <= Cardinality(b.visited)
    BY <1>2 DEF Fits
  <1>8. s.method \notin b.visited
    BY <1>1, <1>3, <1>7
  <1>9. /\ Cardinality(b.visited) \in Nat
        /\ Cardinality(b.visited \cup {s.method}) = Cardinality(b.visited) + 1
    BY <1>3, <1>6, <1>8, OneMore
  <1>10. b.hops < facts.limits.hops
    BY <1>3, <1>6, <1>7
  <1> DEFINE c == [Back(b, facts.source[i], Initiate(facts.source[i], i)) EXCEPT !.hops = b.hops + 1]
  <1>11. c \in B
    <2>1. BranchAllows(b, i)
      BY <1>6 DEF BranchAllows
    <2>2. c \in Initiators(b)
      BY <1>1, <1>4, <1>7, <1>8, <1>10, <2>1 DEF Initiators
    <2> QED
      BY <1>6, <2>2 DEF BackSteps
  <1>12. /\ c.method = s.method /\ c.depth = b.depth /\ c.hops = b.hops + 1
         /\ c.visited = b.visited \cup {s.method}
    BY <1>1, <1>6 DEF Back, BackStates
  <1> HIDE DEF c
  <1>13. c.visited \cap s.path = {s.method}
    BY <1>1, <1>3, <1>7, <1>12
  <1>14. c.hops + s.hop <= facts.limits.hops /\ c.depth + 1 <= Cardinality(c.visited)
    BY <1>3, <1>6, <1>7, <1>9, <1>12
  <1>15. Fits(c, s)
    BY <1>5, <1>12, <1>13, <1>14 DEF Fits
  <1> QED
    BY <1>11, <1>15 DEF LeadsBack

LEMMA FollowingLeadsBack ==
  ASSUME FactsOK(facts), Plain, NEW s \in TraceStates, Bounded(s), LeadsBack(s), NEW t \in Following(s)
  PROVE  LeadsBack(t)
  <1>1. CASE t \in Sections(s)
    <2>1. t.method = s.method /\ t.path = s.path /\ t.hop = s.hop /\ t.depth = s.depth
      BY <1>1 DEF Sections, TraceStates
    <2> QED
      BY <2>1 DEF LeadsBack, Fits
  <1>2. CASE t \in Calls(s)
    BY <1>2, CallLeadsBack
  <1> QED
    BY <1>1, <1>2, EntryLeadsBack DEF Following

TracedInv ==
  /\ Plain => \A s \in Kept : LeadsBack(s)
  /\ \A e \in effects : \E k \in DOMAIN queue : queue[k].method = e[1]
  /\ Plain /\ target # NoTarget /\ (\E e \in effects : e[1] = target) =>
       \/ found
       \/ \A B : ClosedBack(B) /\ frontier \subseteq B => \E b \in B : b.method \in facts.entries

LEMMA LeadsBackStays ==
  ASSUME facts' = facts
  PROVE  /\ Plain' <=> Plain
         /\ \A B : ClosedBack(B)' <=> ClosedBack(B)
         /\ \A s : LeadsBack(s)' <=> LeadsBack(s)
  <1>1. Plain' <=> Plain
    BY DEF Plain, DepthAmple, Sites
  <1>2. BackStates' = BackStates /\ \A b : BackSteps(b)' = BackSteps(b)
    BY SearchStays
  <1>3. \A B : ClosedBack(B)' <=> ClosedBack(B)
    BY <1>2 DEF ClosedBack
  <1>4. \A b, s : Fits(b, s)' <=> Fits(b, s)
    BY DEF Fits, Sites
  <1>5. \A s : LeadsBack(s)' <=> LeadsBack(s)
    BY <1>3, <1>4 DEF LeadsBack
  <1> QED
    BY <1>1, <1>3, <1>5

LEMMA RootLeadsBack ==
  ASSUME NEW m \in facts.entries
  PROVE  LeadsBack(Root(m))
  <1>1. Root(m).method = m
    BY DEF Root
  <1> QED
    BY <1>1 DEF LeadsBack, Fits

(* The search begins where it can be walked back from.                      *)
LEMMA FirstBackFits ==
  ASSUME FactsOK(facts), NEW s \in TraceStates, Bounded(s)
  PROVE  Fits(FirstBack(s.method), s)
  <1>1. /\ s.method \in s.path /\ s.hop \in Nat /\ s.depth \in Nat
        /\ s.hop <= facts.limits.hops /\ s.depth <= facts.limits.depth
    BY DEF Bounded, TraceStates
  <1>2. Cardinality({s.method}) = 1
    BY FS_Singleton
  <1> DEFINE b == FirstBack(s.method)
  <1>3. b.method = s.method /\ b.depth = 0 /\ b.hops = 0 /\ b.visited = {s.method}
    BY DEF FirstBack
  <1> HIDE DEF b
  <1>4. Fits(b, s)
    BY <1>1, <1>2, <1>3 DEF Fits
  <1> QED
    BY <1>4 DEF b

LEMMA TraceLeadsBack ==
  ASSUME SearchTyped, TracedInv, Enqueue \/ Visit
  PROVE  /\ Plain' => (\A s \in Kept : LeadsBack(s))'
         /\ (\A e \in effects : \E k \in DOMAIN queue : queue[k].method = e[1])'
  <1>1. facts' = facts /\ FactsOK(facts) /\ TraceTyped
    BY DEF Enqueue, Visit, SearchTyped, TraceTyped
  <1>2. (Plain' <=> Plain) /\ \A s : LeadsBack(s)' <=> LeadsBack(s)
    BY <1>1, LeadsBackStays
  <1>3. CASE Enqueue
    <2>1. /\ Kept' \subseteq Kept
          /\ {queue[k] : k \in DOMAIN queue} \subseteq {queue[k] : k \in DOMAIN queue}'
      BY <1>1, <1>3, EnqueueKeeps
    <2>2. effects' = effects
      BY <1>3 DEF Enqueue
    <2>3. (\A e \in effects : \E k \in DOMAIN queue : queue[k].method = e[1])'
      <3> SUFFICES ASSUME NEW e \in effects
                   PROVE  \E k \in DOMAIN queue' : queue'[k].method = e[1]
        BY <2>2
      <3>1. PICK k \in DOMAIN queue : queue[k].method = e[1]
        BY DEF TracedInv
      <3>2. PICK j \in DOMAIN queue' : queue'[j] = queue[k]
        BY <2>1
      <3> QED
        BY <3>1, <3>2
    <2> QED
      BY <1>2, <2>1, <2>3 DEF TracedInv
  <1>4. CASE Visit
    <2> DEFINE s == queue[cursor]
    <2>1. /\ s \in Kept /\ s \in TraceStates
          /\ \A t \in Kept' : (\E k \in DOMAIN queue : t = queue[k]) \/ t \in Following(s)
      BY <1>1, <1>4, VisitKeeps
    <2>2. /\ effects' = effects \cup (IF AppliesDirectly(s.filter, Access(s.method))
                                       THEN {<<s.method, s.class>>} ELSE {})
          /\ queue' = queue /\ cursor \in DOMAIN queue
      BY <1>1, <1>4 DEF Visit, TraceTyped
    <2>3. Bounded(s)
      BY <1>1, <2>1 DEF TraceTyped
    <2>4. \A k \in DOMAIN queue : queue[k] \in Kept
      BY DEF Kept
    <2>5. (\A e \in effects : \E k \in DOMAIN queue : queue[k].method = e[1])'
      BY <2>2 DEF TracedInv
    <2> HIDE DEF s
    <2>6. Plain => \A t \in Kept' : LeadsBack(t)
      BY <1>1, <2>1, <2>3, <2>4, FollowingLeadsBack DEF TracedInv
    <2> QED
      BY <1>2, <2>5, <2>6
  <1> QED
    BY <1>3, <1>4

LEMMA TracedInvStep ==
  ASSUME SearchTyped, TracedInv, [ImpactNext]_impactVars
  PROVE  TracedInv'
  <1>1. facts' = facts /\ FactsOK(facts) /\ TraceTyped
    BY StepsOfTheSearch DEF SearchTyped, TraceTyped
  <1>2. /\ Plain' <=> Plain
        /\ \A B : ClosedBack(B)' <=> ClosedBack(B)
        /\ \A s : LeadsBack(s)' <=> LeadsBack(s)
    BY <1>1, LeadsBackStays
  <1>3. ASSUME UNCHANGED traceVars
        PROVE  /\ Kept' = Kept /\ queue' = queue /\ effects' = effects
               /\ Plain' => (\A s \in Kept : LeadsBack(s))'
               /\ (\A e \in effects : \E k \in DOMAIN queue : queue[k].method = e[1])'
    BY <1>2, <1>3, NothingMoves DEF traceVars, TracedInv
  <1>4. CASE (Enqueue \/ Visit) /\ target = NoTarget /\ UNCHANGED <<target, frontier, found>>
    BY <1>4, TraceLeadsBack DEF TracedInv
  <1>5. ASSUME NEW m \in Methods, target' = m, frontier' = {FirstBack(m)}, UNCHANGED traceVars
        PROVE  TracedInv'
    <2>1. ASSUME Plain, NEW e \in effects, e[1] = m, NEW B, ClosedBack(B), FirstBack(m) \in B
          PROVE  \E b \in B : b.method \in facts.entries
      <3>1. PICK k \in DOMAIN queue : queue[k].method = m
        BY <2>1 DEF TracedInv
      <3>2. queue[k] \in Kept /\ queue[k] \in TraceStates
        BY <1>1 DEF Kept, TraceTyped
      <3>3. LeadsBack(queue[k]) /\ Fits(FirstBack(m), queue[k])
        BY <1>1, <2>1, <3>1, <3>2, FirstBackFits DEF TracedInv, TraceTyped
      <3> QED
        BY <2>1, <3>3 DEF LeadsBack
    <2> QED
      BY <1>1, <1>2, <1>3, <1>5, <2>1 DEF TracedInv
  <1>6. ASSUME /\ target # NoTarget /\ target' = target
               /\ found' = (found \/ \E b \in frontier : b.method \in facts.entries)
               /\ frontier' = UNION {BackSteps(b) : b \in frontier}
               /\ UNCHANGED traceVars
        PROVE  TracedInv'
    <2>1. ASSUME Plain, \E e \in effects : e[1] = target, ~found', NEW B, ClosedBack(B),
                 frontier' \subseteq B
          PROVE  \E b \in B : b.method \in facts.entries
      <3>1. ClosedBack(B \cup frontier)
        BY <1>6, <2>1 DEF ClosedBack, SearchTyped
      <3>2. PICK b \in B \cup frontier : b.method \in facts.entries
        BY <1>6, <2>1, <3>1 DEF TracedInv
      <3> QED
        BY <1>6, <2>1, <3>2
    <2> QED
      BY <1>1, <1>2, <1>3, <1>6, <2>1 DEF TracedInv
  <1>7. CASE UNCHANGED impactVars
    <2>1. UNCHANGED traceVars /\ UNCHANGED <<target, frontier, found>>
      BY <1>7 DEF impactVars
    <2> QED
      BY <1>1, <1>2, <1>3, <2>1 DEF TracedInv
  <1> QED
    BY <1>4, <1>5, <1>6, <1>7, StepsOfTheSearch

(* Where no worker dispatches on job names and the bound on calls is ample, *)
(* the search finds the endpoint from every table in its trace, whatever    *)
(* the analysis.                                                            *)
THEOREM TracedAreFound == ImpactSpec => []TracedIsFound
  <1>1. ASSUME ImpactInit
        PROVE  SearchTyped /\ TracedInv
    <2>1. TraceInit /\ target = NoTarget
      BY <1>1 DEF ImpactInit
    <2>2. \A s \in Kept : LeadsBack(s)
      BY <2>1, TraceBegins, RootLeadsBack
    <2>3. effects = {}
      BY <2>1 DEF TraceInit
    <2> QED
      BY <1>1, <2>1, <2>2, <2>3, SearchBegins DEF TracedInv
  <1>2. SearchTyped /\ TracedInv /\ [ImpactNext]_impactVars => (SearchTyped /\ TracedInv)'
    BY SearchTypedStep, TracedInvStep
  <1>3. ASSUME TracedInv
        PROVE  TracedIsFound
    <2> SUFFICES ASSUME target # NoTarget, frontier = {}, Plain, \E e \in effects : e[1] = target
                 PROVE  found
      BY DEF TracedIsFound, Searched, Plain
    <2>1. ClosedBack({})
      BY DEF ClosedBack
    <2>2. found \/ \E b \in {} : b.method \in facts.entries
      BY <1>3, <2>1 DEF TracedInv
    <2> QED
      BY <2>2
  <1> QED
    BY <1>1, <1>2, <1>3, PTL DEF ImpactSpec
===============================================================================

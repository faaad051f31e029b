----------------------------- MODULE MCImpactPaths -----------------------------
(* Families of small analyses, traced and then searched.                   *)
EXTENDS ImpactPaths

CONSTANTS m1, m2, m3, i1, i2

Forward  == {<<m1, m2>>, <<m2, m3>>, <<m1, m3>>}
Backward == {<<m2, m1>>, <<m3, m2>>}
AllJobs  == [i \in {i1, i2} |-> "job"]

(* depth, hops, fanOut, states                                             *)
Limits(d, h, f, s) == [depth |-> d, hops |-> h, fanOut |-> f, states |-> s]

Facts(root, calls, source, kind, handlers, registered, limits) ==
  [root |-> root, entries |-> {m1}, calls |-> calls, source |-> source, kind |-> kind,
   handlers |-> handlers, registered |-> registered, scoped |-> {}, branches |-> {},
   limits |-> limits]

(* Calls and interactions under tight bounds.                              *)
Tight ==
  {Facts(t, c, s, k, h, r, Limits(2, 1, 1, 4)) :
     t \in {"endpoint", "event"}, c \in SUBSET (Forward \cup {<<m2, m1>>}),
     s \in [{i1, i2} -> {m1, m2}], k \in [{i1, i2} -> {"event", "job"}],
     h \in [{i1, i2} -> {<<m1>>, <<m3>>, <<m2, m3>>}], r \in {{m2, m3}, {m1, m3}}}

(* The same under ample bounds, jobs alone.                                *)
Ample ==
  {Facts("endpoint", c, s, AllJobs, h, r, Limits(3, 1, 2, 20)) :
     c \in SUBSET (Forward \cup Backward), s \in [{i1, i2} -> {m1, m2}],
     h \in [{i1, i2} -> {<<>>, <<m3>>, <<m3, m2>>}], r \in {{m2, m3}, {m1, m2, m3}}}

(* Direct calls alone, at most one deep.                                   *)
CallsAlone ==
  {Facts("endpoint", c, [i \in {i1, i2} |-> m1], AllJobs, [i \in {i1, i2} |-> <<>>], {},
         Limits(1, 0, 2, 20)) : c \in SUBSET (Forward \cup Backward)}

(* m1 and m2 have a critical section around some of their effects.         *)
Locked ==
  {[Facts(t, c, [i \in {i1, i2} |-> m2], [i \in {i1, i2} |-> k],
          [i \in {i1, i2} |-> IF i = i1 THEN h ELSE <<>>], {m1, m2, m3}, Limits(1, 1, 2, 12))
      EXCEPT !.entries = e, !.scoped = x] :
     t \in {"endpoint", "async_event", "job"}, e \in {{m1}, {m1, m3}},
     c \in SUBSET (Forward \cup {<<m2, m1>>}), k \in {"async_event", "job"},
     h \in {<<m3>>, <<m3, m2>>},
     x \in SUBSET {Access(m1), Call(m1, m2), Initiate(m2, i1), Call(m2, m3)}}

Branch(m, ids, jobs) == [method |-> m, ids |-> ids, jobs |-> jobs]

(* m2 is a worker that dispatches on the name of the job; what no branch   *)
(* covers is common to all.                                                *)
Dispatch(b) ==
  {Branch(m2, b, {i1}), Branch(m2, {Access(m2)}, {i2}), Branch(m2, {Call(m2, m3)} \ b, {i1, i2})}

Dispatching ==
  {[Facts("endpoint", c, s, AllJobs, h, {m1, m2, m3}, Limits(3, 1, 2, 12))
      EXCEPT !.scoped = x, !.branches = Dispatch(b)] :
     c \in SUBSET (Forward \cup {<<m3, m2>>}), s \in [{i1, i2} -> {m1, m3}],
     h \in [{i1, i2} -> {<<>>, <<m2>>, <<m3>>}],
     b \in SUBSET {Call(m2, m3), Lock(m2)}, x \in {{}, {Call(m2, m3)}}}

(* Two workers in a chain that may dispatch on job names: one branch each, *)
(* or two in the first; the second may call the first, which may lie in no *)
(* branch.                                                                 *)
Leads == {Call(m2, m3), Initiate(m2, i2)}
Split(js, ks) == {Branch(m2, Leads, js), Branch(m2, {Access(m2)}, ks)}
First(jobs) == Branch(m2, {Access(m2)} \cup Leads, jobs)

Chained ==
  {[Facts("endpoint", c, [i \in {i1, i2} |-> IF i = i1 THEN m1 ELSE m2], AllJobs,
          [i \in {i1, i2} |-> IF i = i1 THEN h ELSE <<m3>>], {m1, m2, m3}, Limits(2, 2, 2, 20))
      EXCEPT !.branches = b1 \cup b2] :
     c \in SUBSET (Forward \cup {<<m3, m2>>}), h \in {<<m2>>, <<m2, m3>>, <<m3>>},
     b1 \in {{}, {First({i1})}, {First({i2})}, Split({i1}, {i2}), Split({i2}, {i1})},
     b2 \in {{}, {Branch(m3, {Access(m3)}, {i2})}, {Branch(m3, {Access(m3), Call(m3, m2)}, {i2})}}}

Families == <<Tight, Ample, CallsAlone, Locked, Dispatching, Chained>>
=============================================================================

----------------------------- MODULE MCQueryPages -----------------------------
(* Instances of QueryPages and of the search for TLC.                      *)
EXTENDS QueryPages

CONSTANTS f, g, h, e

(* Who calls whom; g calls f twice where twice is true.  The identifier of *)
(* an assertion is its ends and the call site.                             *)
Caller(x, m, site) == [assertion |-> <<x, m, site>>, subject |-> x]

CallersOf(m, xs, twice) ==
  LET once == SetToSeq({Caller(x, m, 1) : x \in xs})
  IN  IF twice THEN once \o <<Caller(g, m, 2)>> ELSE once

Callers == SUBSET {f, g, h}

TheAnalyses ==
  {[seeds |-> s,
    callers |-> [m \in {f, g, h} |->
                   CASE m = f -> CallersOf(m, x, t) [] m = g -> CallersOf(m, y \cup {e}, FALSE)
                     [] OTHER -> CallersOf(m, z, FALSE)]] :
     s \in {<<f>>, <<f, h>>}, x \in Callers, y \in Callers, z \in {{}, {f}, {f, g}}, t \in BOOLEAN}

(* One that depth alone bounds, and one that is truncated.                 *)
TheRequests == {[maxDepth |-> 2, maxStates |-> 40], [maxDepth |-> 3, maxStates |-> 5]}

(* Three changes share a slot.                                             *)
TheItems == 1..6

TheKey == <<1, 2, 2, 2, 3, 4>>
=============================================================================

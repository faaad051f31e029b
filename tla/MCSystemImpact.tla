----------------------------- MODULE MCSystemImpact -----------------------------
(* Instances of SystemImpact for TLC: small systems that are stitched,     *)
(* compared and searched, and arrangements of producers and consumers, as  *)
(* no stitched system of that size has them, that are only searched.       *)
EXTENDS SystemImpact

CONSTANTS p, q, r, c, d, api, worker, shadow, red, blue

-----------------------------------------------------------------------------
(* Systems: api starts jobs, the others take them; one worker goes on with *)
(* an event.                                                               *)

Job      == [shape |-> "job", target |-> "orders", job |-> "rebuild"]
AnyJob   == [Job EXCEPT !.job = Null]
Dynamic  == [Job EXCEPT !.target = Null]
Event    == [shape |-> "event", target |-> "done", job |-> Null]
Request  == [shape |-> "request", target |-> "done", job |-> Null]

Endpoint(id, service, role, contract, usable) ==
  [id |-> id, service |-> service, role |-> role, contract |-> contract, usable |-> usable]

Starts(contract, usable) == Endpoint(p, api, "producer", contract, usable)
Goes(contract)           == Endpoint(q, worker, "producer", contract, TRUE)
Takes(contract, usable)  == Endpoint(c, worker, "consumer", contract, usable)
Shadows(contract)        == Endpoint(d, shadow, "consumer", contract, TRUE)

EndpointSets ==
  {{Starts(x, u), Takes(y, v)} \cup more :
     x \in {Job, Event}, u \in {TRUE}, y \in {AnyJob, Event}, v \in {TRUE},
     more \in {{}, {Shadows(AnyJob)}, {Goes(Event), Shadows(Event)}}}
  \cup {{Starts(x, u), Takes(AnyJob, v)} :
          x \in {Job, Dynamic}, u \in BOOLEAN, v \in BOOLEAN}
  \cup {{Starts(Request, TRUE), Goes(Request), Shadows(Request)}}

Bind(e, record, realm) ==
  [service |-> e.service, role |-> e.role, contract |-> e.contract, record |-> record,
   realm |-> realm]

(* Everything in one realm, some of it, or in two; by record or contract.  *)
BindingSets(es) ==
  {{}} \cup {{Bind(e, e.id, red) : e \in {x \in es : x.id \in bound}} : bound \in {{p, c}, {p, c, d}}}
    \cup {{Bind(e, Null, red) : e \in es}}
    \cup {{Bind(e, e.id, IF e.id = d THEN blue ELSE red) : e \in es}}

Version(es, bs) == [services |-> {e.service : e \in es}, endpoints |-> es, bindings |-> bs]

(* Two bindings for one endpoint, a binding for none, and two bindings of  *)
(* one record.                                                             *)
Odd ==
  LET es == {Starts(Job, TRUE), Takes(AnyJob, TRUE)}
      b  == {Bind(e, e.id, red) : e \in es}
  IN  {Version(es, b \cup {Bind(Takes(AnyJob, TRUE), Null, blue)}),
       Version(es, b \cup {Bind(Starts(Event, TRUE), Null, blue)}),
       Version(es, b \cup {Bind(Takes(Job, TRUE), c, red)})}

Versions == UNION {{Version(es, bs) : bs \in BindingSets(es)} : es \in EndpointSets}

Empty == Version({}, {})

(* Both moments from a few versions each, one of them any version.         *)
Some ==
  LET es == {Starts(Job, TRUE), Takes(AnyJob, TRUE)}
      all == es \cup {Shadows(AnyJob)}
  IN  {Version(es, {Bind(e, e.id, red) : e \in es}),
       Version(all, {}), Version(all, {Bind(e, e.id, red) : e \in es})}

TheTruths ==
  {[m \in Moments |-> IF m = "before" THEN x ELSE y] :
     x \in Some, y \in Versions \cup Odd \cup {Empty}}
  \cup {[m \in Moments |-> IF m = "before" THEN x ELSE y] : x \in Versions \cup Odd, y \in Some}

Sight(missing, manifest, stitched) ==
  [missing |-> missing, manifest |-> manifest, stitched |-> stitched]

TheSights ==
  LET clear   == Sight({}, TRUE, TRUE)
      clouded == {Sight(x, y, z) : x \in {{}, {worker}, {shadow}}, y \in BOOLEAN, z \in BOOLEAN}
                   \cup {Sight({api, worker, shadow}, TRUE, TRUE)}
  IN  {[m \in Moments |-> IF m = "before" THEN clear ELSE y] : y \in clouded}
        \cup {[m \in Moments |-> IF m = "before" THEN x ELSE clear] : x \in clouded}

TheTouched == {q}
TheLeads   == [x \in {c, d} |-> IF x = c THEN <<q>> ELSE <<p>>]

-----------------------------------------------------------------------------
(* Arrangements.                                                           *)

Seeds(ps) == [k \in DOMAIN ps |-> [seed |-> "changed", producer |-> ps[k]]]

Side(seeds, routes, handled, effects, onward) ==
  [seeds |-> Seeds(seeds), routes |-> routes, handled |-> handled,
   effects |-> [x \in Producers |-> effects],
   onward  |-> [x \in Producers |-> onward]]

(* Where handlers lead: cycles, and choices of producers.                  *)
Onwards(ends) ==
  {[x \in {c, d} |-> IF x = c THEN o ELSE e] : o \in {<<>>, <<p>>, <<q, r>>, <<r, p>>}, e \in ends}

Effects(n) == [x \in {c, d} |-> IF x = c THEN n ELSE 1]

(* One correlation with two consumers, or two with one each.               *)
Routes ==
  {[x \in {p, q, r} |-> CASE x = p -> s [] x = q -> <<<<d>>>> [] OTHER -> <<<<c, d>>>>] :
     s \in {<<<<c, d>>>>, <<<<c>>, <<d>>>>}}

TheSides(seeds) ==
  {Side(s, t, h, Effects(n), o) :
     s \in seeds, t \in Routes, h \in {{c, d}, {d}}, n \in {0, 2},
     o \in Onwards({<<>>, <<p>>, <<q>>})}

(* Every side before, followed by one after that has a seed of its own.    *)
Arrangements ==
  {[s \in Sides |-> IF s = "before" THEN x
                    ELSE Side(<<q>>, [x.routes EXCEPT ![q] = <<<<c>>>>], x.handled, Effects(1),
                              x.onward[p])] :
     x \in TheSides({<<p>>, <<p, q>>})}

(* Limits that only hops can reach; one each that is tight.                *)
SomeLimits ==
  {[hops |-> 2, paths |-> 40, effects |-> 2, states |-> 60],
   [hops |-> 2, paths |-> 3, effects |-> 1, states |-> 60],
   [hops |-> 2, paths |-> 3, effects |-> 1, states |-> 9]}

(* A search of an arrangement: nothing is stitched or compared.            *)
ArrangementInit ==
  /\ Init
  /\ truth = [m \in Moments |-> Empty] /\ sight = [m \in Moments |-> Sight({}, TRUE, TRUE)]
  /\ given = truth /\ moment = "done" /\ todo = {} /\ consumed = {}
  /\ correlations = [m \in Moments |-> {}] /\ outcome = [m \in Moments |-> "absent"]
  /\ report = Rejected

MCInit == (ImpactInit /\ limits.paths = 40) \/ ArrangementInit

MCSpec == MCInit /\ [][ImpactNext]_impactVars
=============================================================================

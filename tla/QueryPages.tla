------------------------------ MODULE QueryPages ------------------------------
(***************************************************************************)
(* The paged operations of the query kernel (src/src/query/kernel.ts):     *)
(* paginateQueryItems (src/src/query/operations.ts), the check of the      *)
(* response, and a client that asks for one page after another, following  *)
(* nextCursor, with any limit each time.  The kernel keeps nothing between *)
(* requests, and between two of them it may be started with another        *)
(* artifact.                                                               *)
(*                                                                         *)
(* Endpoints, impacts, candidates, policy results and the dependents of a  *)
(* symbol have keys of their own.  The changes that compareAnalyses pages  *)
(* may share one: an endpoint that was changed has the key of its route    *)
(* slot, and in an ambiguous slot every endpoint is removed or added.      *)
(*                                                                         *)
(* The search of getSymbolDependents is done once here; each request       *)
(* repeats it with the same result.                                        *)
(***************************************************************************)
EXTENDS SymbolDependents

CONSTANTS
  Items,         (* What can be listed, numbered in the order of the sort:  *)
                 (* by key and, where keys are equal, as in the collection. *)
  Key,           (* The key of each item, a number in the order of keys.    *)
  MaxResults,    (* limits.maxResults.                                      *)
  MaxChanges     (* A bound on the changes of a listed collection.          *)

ASSUME ItemsAssumption ==
  /\ Items \subseteq Nat \ {0} /\ IsFiniteSet(Items)
  /\ Key \in [Items -> Nat]
  /\ \A j, k \in Items : j < k => Key[j] <= Key[k]

ASSUME BoundsAssumption == MaxResults \in Nat \ {0} /\ MaxChanges \in Nat

VARIABLES
  operation,     (* "dependents", "listing" of items with keys of their     *)
                 (* own, or "comparison"; it never changes.                 *)
  answered,      (* Whether items are there to be paged.                    *)
  items,         (* The collection that is queried.                         *)
  cursor,        (* What the client asks with: {} or a singleton.           *)
  ended,         (* Whether there was no nextCursor.                        *)
  refused,       (* Whether the last request was answered with an error.    *)
  received,      (* The items of all pages.                                 *)
  stable,        (* What has been in the collection from the start.         *)
  changes

pageVars == <<operation, answered, items, cursor, ended, refused, received, stable, changes>>

(* A path that was found is known by its place, and has a key of its own.  *)
KeyOf(k) == IF operation = "dependents" THEN k ELSE Key[k]

Collections(op) ==
  {c \in SUBSET Items : op = "listing" => \A j, k \in c : Key[j] = Key[k] => j = k}

(* Neither operation searches for a symbol.                                *)
NoSymbol == [seeds |-> <<>>, callers |-> [m \in Methods |-> <<>>]]

Init ==
  /\ \/ operation = "dependents" /\ SearchInit(Analyses) /\ items = {} /\ answered = FALSE
     \/ /\ operation \in {"listing", "comparison"} /\ SearchInit({NoSymbol})
        /\ items \in Collections(operation) /\ answered = TRUE
  /\ stable = items
  /\ cursor = {} /\ ended = FALSE /\ refused = FALSE /\ received = <<>> /\ changes = 0

(* The paths that were found are the items.                                *)
Answer ==
  /\ operation = "dependents" /\ done /\ ~answered
  /\ answered' = TRUE /\ items' = DOMAIN paths /\ stable' = DOMAIN paths
  /\ UNCHANGED <<searchVars, operation, cursor, ended, refused, received, changes>>

Ordered ==
  [n \in 1..Cardinality(items) |->
     CHOOSE k \in items : Cardinality({j \in items : j <= k}) = n]

(* Mutant of Start: as many are skipped as have been received.             *)
Start_Counted == Len(received)

(* findIndex: the first item whose key is above the cursor.                *)
Start == Cardinality({k \in items : \E c \in cursor : KeyOf(k) <= c})

Page(limit) ==
  LET available == SubSeq(Ordered, Start + 1, Len(Ordered))
      applied   == IF limit < MaxResults THEN limit ELSE MaxResults
  IN  SubSeq(available, 1, IF applied < Len(available) THEN applied ELSE Len(available))

Remaining(page) == Len(Ordered) - Start - Len(page)

(* The schema of the response demands keys that rise.  That of dependents, *)
(* candidates and policy results does not, but their keys do rise.         *)
Unordered(page) == \E n \in 2..Len(page) : KeyOf(page[n - 1]) >= KeyOf(page[n])

Ask(limit) ==
  /\ answered /\ ~ended /\ ~Unordered(Page(limit))
  /\ received' = received \o Page(limit)
  /\ cursor'   = IF Remaining(Page(limit)) > 0 THEN {KeyOf(Last(Page(limit)))} ELSE {}
  /\ ended'    = (cursor' = {})
  /\ refused'  = FALSE
  /\ UNCHANGED <<searchVars, operation, answered, items, stable, changes>>

(* The client gets an error, and may ask with another limit.               *)
Refuse(limit) ==
  /\ answered /\ ~ended /\ Unordered(Page(limit))
  /\ refused' = TRUE
  /\ UNCHANGED <<searchVars, operation, answered, items, cursor, ended, received, stable, changes>>

(* The server is started again with other artifacts.                       *)
Change ==
  /\ operation # "dependents" /\ ~ended /\ changes < MaxChanges
  /\ items'   \in Collections(operation)
  /\ stable'  = stable \cap items'
  /\ changes' = changes + 1
  /\ UNCHANGED <<searchVars, operation, answered, cursor, ended, refused, received>>

AskAny == \E limit \in 1..(MaxResults + 1) : Ask(limit) \/ Refuse(limit)

Next ==
  \/ SearchNext /\ UNCHANGED pageVars
  \/ Answer \/ AskAny \/ Change

Spec == Init /\ [][Next]_<<searchVars, pageVars>>

-----------------------------------------------------------------------------
(* Properties.                                                             *)

(* Whatever the limits, and whatever comes and goes meanwhile, no item is  *)
(* sent twice.  In the end every item that was there throughout was sent,  *)
(* or is a change of a slot of which an earlier change was sent; with keys *)
(* of their own all were, and no request was refused.                      *)
EveryItemOnce ==
  /\ \A j, k \in DOMAIN received : j < k => received[j] < received[k]
  /\ ended => \A k \in stable : \E j \in ToSet(received) : j <= k /\ KeyOf(j) = KeyOf(k)
  /\ operation # "comparison" => ~refused /\ (ended => stable \subseteq ToSet(received))

(* The kernel "provides nextCursor only when another bounded page exists"  *)
(* (docs/query-kernel.md): as nothing changes, some item is left for it.   *)
NextCursorLeadsOn == cursor # {} => Start < Len(Ordered)
=============================================================================

---------------------------- MODULE OTLPTransform ----------------------------
(***************************************************************************)
(* How a batch of spans or of log records is laid out in a request: by     *)
(* resource, and in it by scope (Spans of tracetransform, ResourceLogs of  *)
(* transform).  An item is what the grouping looks at and an identity; a   *)
(* span may be missing, and a resource stands for its Distinct.            *)
(***************************************************************************)
EXTENDS Integers, SequencesExt, FiniteSetsExt

CONSTANT Missing   (* a nil snapshot                                       *)

KeyOf(item) == <<item.resource, item.scope>>

(* The items of each key, and the scopes of each resource.                 *)
NoGroups == [items |-> <<>>, scopes |-> <<>>]

PutItem(groups, item) ==
  LET key   == KeyOf(item)
      first == key \notin DOMAIN groups.items
      items == IF first THEN <<>> ELSE groups.items[key]
      known == IF item.resource \in DOMAIN groups.scopes
                 THEN groups.scopes[item.resource] ELSE <<>>
  IN  [items  |-> key :> Append(items, item) @@ groups.items,
       scopes |-> item.resource :> (IF first THEN Append(known, item.scope) ELSE known)
                    @@ groups.scopes]

(* One element for each resource, in an order that is not determined.      *)
Request(batch) ==
  LET groups == FoldLeft(PutItem, NoGroups, SelectSeq(batch, LAMBDA item : item # Missing))
  IN  {[resource |-> r,
        scopes   |-> [i \in DOMAIN groups.scopes[r] |->
                        [scope |-> groups.scopes[r][i],
                         items |-> groups.items[<<r, groups.scopes[r][i]>>]]]] :
         r \in DOMAIN groups.scopes}

-----------------------------------------------------------------------------
(* What a request should be: no resource twice, no scope twice in it, and  *)
(* under each the items that are of both, at least one, in their order.    *)
(* Every item has a place.                                                 *)
IsRequestFor(batch, request) ==
  LET Groups(e) == ToSet(e.scopes)
      Of(r, s)  == SelectSeq(batch, LAMBDA item : item # Missing /\ KeyOf(item) = <<r, s>>)
  IN  /\ \A e, f \in request : e.resource = f.resource => e = f
      /\ \A e \in request :
           /\ \A g, h \in DOMAIN e.scopes : e.scopes[g].scope = e.scopes[h].scope => g = h
           /\ \A g \in Groups(e) : g.items # <<>> /\ g.items = Of(e.resource, g.scope)
      /\ \A item \in ToSet(batch) \ {Missing} :
           \E e \in request : \E g \in Groups(e) : item \in ToSet(g.items)
=============================================================================

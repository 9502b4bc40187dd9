----------------------------- MODULE ListOrder -----------------------------
(***************************************************************************)
(* What lst.h promises: a sequence of distinct nodes, to which a node can  *)
(* be added at either end or after a given one, and from which any node    *)
(* can be taken out.  Lst.tla is shown to implement this module.           *)
(***************************************************************************)
EXTENDS Integers, SequencesExt

CONSTANT Nodes

VARIABLE order

Init == order = <<>>

Free(x) == x \in Nodes \ ToSet(order)

PutFirst(x) == Free(x) /\ order' = <<x>> \o order

PutLast(x) == Free(x) /\ order' = order \o <<x>>

PutAfter(x, y) ==
  /\ Free(y)
  /\ \E i \in DOMAIN order :
       /\ order[i] = x
       /\ order' = InsertAt(order, i + 1, y)

TakeOut(x) ==
  \E i \in DOMAIN order :
    /\ order[i] = x
    /\ order' = RemoveAt(order, i)

Next ==
  \E x \in Nodes :
    \/ PutFirst(x) \/ PutLast(x) \/ TakeOut(x)
    \/ \E y \in Nodes : PutAfter(x, y)

Spec == Init /\ [][Next]_order
=============================================================================

------------------------------- MODULE LstOps -------------------------------
(***************************************************************************)
(* lst.h: doubly linked lists whose links live inside the nodes.  A list   *)
(* header is a record l with fields count, first and last; the links of    *)
(* all nodes are one function k from nodes to records with fields prev and *)
(* next.  Each macro becomes an operator that returns both, as they are    *)
(* after its assignments have been made in the order of the source.        *)
(***************************************************************************)
EXTENDS Naturals

CONSTANT NoNode     (* the null pointer                                    *)

EmptyList == [count |-> 0, first |-> NoNode, last |-> NoNode]
Detached  == [prev |-> NoNode, next |-> NoNode]

(* node->field = value, where node may be null and is then skipped.        *)
SetPrev(k, node, value) ==
  IF node = NoNode THEN k ELSE [k EXCEPT ![node].prev = value]

SetNext(k, node, value) ==
  IF node = NoNode THEN k ELSE [k EXCEPT ![node].next = value]

Or(node, default) == IF node = NoNode THEN default ELSE node

ListAddFirst(l, k, x) ==
  [links |-> SetPrev([k EXCEPT ![x] = [prev |-> NoNode, next |-> l.first]], l.first, x),
   list  |-> [count |-> l.count + 1, first |-> x, last |-> Or(l.last, x)]]

ListAddLast(l, k, x) ==
  [links |-> SetNext([k EXCEPT ![x] = [prev |-> l.last, next |-> NoNode]], l.last, x),
   list  |-> [count |-> l.count + 1, first |-> Or(l.first, x), last |-> x]]

InsertAfterKeepsLast(l, k, x, y) ==   \* mutant: no "else (LIST).last = (NODE2)"
  LET next   == k[x].next
      linked == [k EXCEPT ![y] = [prev |-> x, next |-> next]]
  IN  [links |-> SetNext(SetPrev(linked, next, y), x, y),
       list  |-> [l EXCEPT !.count = @ + 1]]

ListInsertAfter(l, k, x, y) ==
  LET next   == k[x].next
      linked == [k EXCEPT ![y] = [prev |-> x, next |-> next]]
  IN  [links |-> SetNext(SetPrev(linked, next, y), x, y),
       list  |-> [l EXCEPT !.count = @ + 1,
                           !.last = IF next = NoNode THEN y ELSE @]]

RemoveKeepsBackLink(l, k, x) ==       \* mutant: the successor's prev is not updated
  LET n == k[x]
  IN  [links |-> [SetNext(k, n.prev, n.next) EXCEPT ![x] = Detached],
       list  |-> [count |-> l.count - 1,
                  first |-> IF n.prev = NoNode THEN n.next ELSE l.first,
                  last  |-> IF n.next = NoNode THEN n.prev ELSE l.last]]

ListRemove(l, k, x) ==
  LET n == k[x]
  IN  [links |-> [SetNext(SetPrev(k, n.next, n.prev), n.prev, n.next)
                    EXCEPT ![x] = Detached],
       list  |-> [count |-> l.count - 1,
                  first |-> IF n.prev = NoNode THEN n.next ELSE l.first,
                  last  |-> IF n.next = NoNode THEN n.prev ELSE l.last]]

(* What LIST_FOREACH visits: i steps along next from the first node.       *)
Visited(l, k) ==
  LET at[i \in 1..l.count] == IF i = 1 THEN l.first ELSE k[at[i - 1]].next
  IN  at

(* The same walk along prev from the last node, as heap.c does it.         *)
VisitedBackwards(l, k) ==
  LET at[i \in 1..l.count] == IF i = 1 THEN l.last ELSE k[at[i - 1]].prev
  IN  at
=============================================================================

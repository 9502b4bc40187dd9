-------------------------------- MODULE Lst --------------------------------
(***************************************************************************)
(* A list kept with the macros of lst.h, by a client that adds only nodes  *)
(* that are not in the list and removes only nodes that are (the macros    *)
(* check neither).                                                         *)
(***************************************************************************)
EXTENDS LstOps

CONSTANT Nodes

ASSUME LstAssumption == NoNode \notin Nodes

VARIABLES
  list,    (* the header                                                   *)
  links,   (* the links inside the nodes                                   *)
  member   (* what the client knows: the nodes it put in the list          *)

lstVars == <<list, links, member>>

LstInit ==
  /\ list = EmptyList
  /\ links = [x \in Nodes |-> Detached]
  /\ member = {}

Becomes(r) ==
  /\ list' = r.list
  /\ links' = r.links

DoAddFirst(x) ==
  /\ x \notin member
  /\ Becomes(ListAddFirst(list, links, x))
  /\ member' = member \cup {x}

DoAddLast(x) ==
  /\ x \notin member
  /\ Becomes(ListAddLast(list, links, x))
  /\ member' = member \cup {x}

DoInsertAfter(x, y) ==
  /\ x \in member
  /\ y \notin member
  /\ Becomes(ListInsertAfter(list, links, x, y))
  /\ member' = member \cup {y}

DoRemove(x) ==
  /\ x \in member
  /\ Becomes(ListRemove(list, links, x))
  /\ member' = member \ {x}

LstNext ==
  \E x \in Nodes :
    \/ DoAddFirst(x) \/ DoAddLast(x) \/ DoRemove(x)
    \/ \E y \in Nodes : DoInsertAfter(x, y)

LstSpec == LstInit /\ [][LstNext]_lstVars
-----------------------------------------------------------------------------
Walk == Visited(list, links)

(* LIST_FOREACH visits every member once and then meets null; walking back *)
(* along prev from the last node visits the same nodes in reverse.         *)
BothWaysTheSame ==
  LET n == list.count
      back == VisitedBackwards(list, links)
  IN  /\ {Walk[i] : i \in 1..n} = member
      /\ \A i, j \in 1..n : i # j => Walk[i] # Walk[j]
      /\ \A i \in 1..n : back[i] = Walk[n + 1 - i]
      /\ n > 0 => links[Walk[n]].next = NoNode /\ links[Walk[1]].prev = NoNode
      /\ n = 0 => list = EmptyList

(* The macros implement the sequence of ListOrder.tla.                     *)
Sequence == INSTANCE ListOrder WITH order <- Walk

ImplementsSequence == Sequence!Spec
=============================================================================

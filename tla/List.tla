-------------------------------- MODULE List --------------------------------
(***************************************************************************)
(* list.c: lists whose nodes form a ring through an end node that holds no *)
(* value.  Every function is an operator that returns the memory it leaves *)
(* behind: a record m with the next, prev and data of every node and the   *)
(* set of nodes malloc has handed out.  A list is its end node.  A freed   *)
(* node loses its links, so following one is an evaluation error.          *)
(*                                                                         *)
(* Calls do not overlap (nothing here locks), so a call is one action.     *)
(* list_merge and list_sort, which compare the data pointers, are the same *)
(* as list_merge1 and list_sort1 with "<" as Compare, which Less stands    *)
(* for, except that list_sort does not free its temporary lists.           *)
(***************************************************************************)
EXTENDS Integers, Sequences, FiniteSets, FiniteSetsExt

CONSTANTS
  Nodes,          (* bound: the nodes malloc has                           *)
  Nowhere,
  Lists,          (* the lists the client keeps                            *)
  Values,         (* the data it may store                                 *)
  Null,           (* NULL                                                  *)
  Gone,           (* the content of a list that is not initialised         *)
  Counters,       (* bound: counter[] of the sorts has 64 lists            *)
  MaxLeaks,       (* bound: how many end nodes list_sort leaves behind     *)
  Scopes          (* bound: what a client may keep and call, see scope     *)

(* What one value becomes when it is doubled k times.                      *)
Doubled[k \in Nat] == IF k = 0 THEN 1 ELSE 2 * Doubled[k - 1]

ASSUME ListAssumption ==
  /\ Nodes \subseteq Nat /\ IsFiniteSet(Nodes)
  /\ Nowhere \notin Nodes
  /\ Null \notin Values
  /\ Counters \in Nat \ {0}
  /\ MaxLeaks \in Nat
  /\ \A s \in Scopes :
       /\ s.lists \subseteq Lists /\ IsFiniteSet(s.lists) /\ s.values \subseteq Values
       /\ s.room \in Nat /\ s.room < Doubled[Counters]
       /\ Cardinality(Nodes) >= s.room + Cardinality(s.lists) + MaxLeaks + Counters + 1

VARIABLES
  mem,      (* the memory                                                  *)
  node,     (* list->node of every list, Nowhere when not initialised       *)
  scope,    (* what this client does: the lists it keeps, the values it    *)
            (* stores, the room for them (how many the lists hold          *)
            (* together) and the operations it calls                       *)
  leaked,   (* ghost: end nodes list_sort never gave back                  *)
  call      (* ghost: the last call, as ValueLists records it              *)

listVars == <<mem, node, scope, leaked, call>>

(* What the next call depends on: the ghosts only watch.                   *)
Memory == <<mem, node, scope, leaked>>

(* The values are numbers: equal tens compare equal, the units tell apart  *)
(* what a stable sort must not swap.  NULL compares lowest.                *)
Key(v) == IF v = Null THEN -1 ELSE v \div 10
Less(v, w) == Key(v) < Key(w)

(* What a memory may be, and where a loop over one may be.                 *)
Pointers == Nodes \cup {Nowhere}

Memories ==
  [next : [Nodes -> Pointers], prev : [Nodes -> Pointers],
   data : [Nodes -> Values \cup {Null}], live : SUBSET Nodes]

Cursors == [m : Memories, at : Nodes]

(* A loop whose state is s at first and turn[r] after a round from r; it   *)
(* ends where turn changes nothing, after at most n rounds.                *)
Loop(turn, s, n) ==
  LET after[i \in 0..n] == IF i = 0 THEN s ELSE turn[after[i - 1]]
  IN  after[n]

(* Bound: a loop over nodes meets none of them twice.                      *)
Rounds(m) == Cardinality(m.live)

Begin(m, l) == m.next[l]
Empty(m, l) == m.next[l] = l

(* The ring of a list from its end node: positions 0, 1, 2, ...  A ring    *)
(* that is broken is left at the first node met twice.                     *)
Ring(m, l) ==
  Loop([s \in Seq(Nodes) |->
          LET x == m.next[s[Len(s)]]
          IN  IF \E i \in DOMAIN s : s[i] = x THEN s ELSE Append(s, x)],
       <<l>>, Rounds(m))

Size(m, l) == Len(Ring(m, l)) - 1

Contents(m, l) == LET r == Ring(m, l) IN [i \in 1..(Len(r) - 1) |-> m.data[r[i + 1]]]

(***************************************************************************)
(* list_init, list_insert, list_erase and what is built from them          *)
(***************************************************************************)
Fresh(m) == Min(Nodes \ m.live)

NewEnd(m) ==
  LET t == Fresh(m)
  IN  [next |-> [m.next EXCEPT ![t] = t], prev |-> [m.prev EXCEPT ![t] = t],
       data |-> [m.data EXCEPT ![t] = Null], live |-> m.live \cup {t}]

Insert(m, pos, v) ==
  LET t == Fresh(m)
  IN  [next |-> [m.next EXCEPT ![t] = pos, ![m.prev[pos]] = t],
       prev |-> [m.prev EXCEPT ![t] = m.prev[pos], ![pos] = t],
       data |-> [m.data EXCEPT ![t] = v],
       live |-> m.live \cup {t}]

Freed(m, x) ==
  [next |-> [m.next EXCEPT ![x] = Nowhere], prev |-> [m.prev EXCEPT ![x] = Nowhere],
   data |-> [m.data EXCEPT ![x] = Null], live |-> m.live \ {x}]

Erase(m, x) ==
  Freed([m EXCEPT !.next[m.prev[x]] = m.next[x], !.prev[m.next[x]] = m.prev[x]], x)

InsertMany(m, pos, count, v) == Loop([k \in Memories |-> Insert(k, pos, v)], m, count)

InsertRange(m, pos, first, last) ==
  Loop([c \in Cursors |->
          IF c.at = last THEN c
          ELSE LET k == Insert(c.m, pos, c.m.data[c.at]) IN [m |-> k, at |-> k.next[c.at]]],
       [m |-> m, at |-> first], Rounds(m)).m

EraseRange(m, first, last) ==
  Loop([c \in Cursors |->
          IF c.at = last THEN c ELSE [m |-> Erase(c.m, c.at), at |-> c.m.next[c.at]]],
       [m |-> m, at |-> first], Rounds(m)).m

Clear(m, l) ==
  LET k == Loop([c \in Cursors |->
                   IF c.at = l THEN c ELSE [m |-> Freed(c.m, c.at), at |-> c.m.next[c.at]]],
                [m |-> m, at |-> Begin(m, l)], Rounds(m)).m
  IN  [k EXCEPT !.next[l] = l, !.prev[l] = l]

Destroyed(m, l) == Freed(Clear(m, l), l)

(***************************************************************************)
(* list_assign, list_assign2, list_resize1                                 *)
(***************************************************************************)
Assign(m, l, count, v) ==
  LET c == Loop([c \in [m : Memories, at : Nodes, count : Nat] |->
                   IF c.at = l \/ c.count = 0 THEN c
                   ELSE [m |-> [c.m EXCEPT !.data[c.at] = v], at |-> c.m.next[c.at],
                         count |-> c.count - 1]],
                [m |-> m, at |-> Begin(m, l), count |-> count], Rounds(m))
  IN  IF c.count > 0 THEN InsertMany(c.m, l, c.count, v) ELSE EraseRange(c.m, c.at, l)

(* Two loops in step: one is at a node of each list.                       *)
Pairs == [m : Memories, at : Nodes, from : Nodes]

AssignRange(m, l, first, last) ==
  LET c == Loop([c \in Pairs |->
                   IF c.at = l \/ c.from = last THEN c
                   ELSE [m |-> [c.m EXCEPT !.data[c.at] = c.m.data[c.from]],
                         at |-> c.m.next[c.at], from |-> c.m.next[c.from]]],
                [m |-> m, at |-> Begin(m, l), from |-> first], Rounds(m))
  IN  IF c.from = last THEN EraseRange(c.m, c.at, l) ELSE InsertRange(c.m, l, c.from, last)

Resize(m, l, count, v) ==
  LET c == Loop([c \in [at : Nodes, count : Nat] |->
                   IF c.at = l \/ c.count = 0 THEN c
                   ELSE [at |-> m.next[c.at], count |-> c.count - 1]],
                [at |-> Begin(m, l), count |-> count], Rounds(m))
  IN  IF c.count = 0 THEN EraseRange(m, c.at, l) ELSE InsertMany(m, l, c.count, v)

(***************************************************************************)
(* transfer and the functions built on it                                  *)
(***************************************************************************)
TransferAlways(m, pos, first, last) ==     \* mutant: no if (pos != last)
  LET p == [m.prev EXCEPT ![pos] = m.prev[last]]
      q == [p EXCEPT ![last] = p[first]]
  IN  [m EXCEPT !.next = [@ EXCEPT ![m.prev[last]] = pos, ![m.prev[first]] = last,
                                   ![m.prev[pos]] = first],
                !.prev = [q EXCEPT ![first] = m.prev[pos]]]

Transfer(m, pos, first, last) ==
  IF pos = last THEN m
  ELSE LET p == [m.prev EXCEPT ![pos] = m.prev[last]]
           q == [p EXCEPT ![last] = p[first]]
       IN  [m EXCEPT !.next = [@ EXCEPT ![m.prev[last]] = pos, ![m.prev[first]] = last,
                                        ![m.prev[pos]] = first],
                     !.prev = [q EXCEPT ![first] = m.prev[pos]]]

MergeTurnUnstable(c, last1, last2) ==   \* mutant: !comp(*first1, *first2)
  LET next == c.m.next[c.from]
  IN  IF c.at = last1 \/ c.from = last2 THEN c
      ELSE IF ~Less(c.m.data[c.at], c.m.data[c.from])
           THEN [c EXCEPT !.m = Transfer(c.m, c.at, c.from, next), !.from = next]
           ELSE [c EXCEPT !.at = c.m.next[c.at]]

MergeTurn(c, last1, last2) ==
  LET next == c.m.next[c.from]
  IN  IF c.at = last1 \/ c.from = last2 THEN c
      ELSE IF Less(c.m.data[c.from], c.m.data[c.at])
           THEN [c EXCEPT !.m = Transfer(c.m, c.at, c.from, next), !.from = next]
           ELSE [c EXCEPT !.at = c.m.next[c.at]]

Merge(m, l, o) ==
  LET c == Loop([c \in Pairs |-> MergeTurn(c, l, o)],
                [m |-> m, at |-> Begin(m, l), from |-> Begin(m, o)], Rounds(m))
  IN  IF c.from = o THEN c.m ELSE Transfer(c.m, l, c.from, o)

Splice(m, pos, o) == IF Empty(m, o) THEN m ELSE Transfer(m, pos, Begin(m, o), o)

Splice1(m, pos, it) ==
  IF pos = it \/ pos = m.next[it] THEN m ELSE Transfer(m, pos, it, m.next[it])

Splice2(m, pos, first, last) ==
  IF first = last THEN m ELSE Transfer(m, pos, first, last)

(***************************************************************************)
(* list_remove, list_remove_if, list_unique, list_unique1, list_reverse    *)
(***************************************************************************)
Remove(m, l, doomed) ==
  Loop([c \in Cursors |->
          IF c.at = l THEN c
          ELSE [m |-> IF c.m.data[c.at] \in doomed THEN Erase(c.m, c.at) ELSE c.m,
                at |-> c.m.next[c.at]]],
       [m |-> m, at |-> Begin(m, l)], Rounds(m)).m

(* list_unique1 passes the predicate the data of the end node where        *)
(* list_unique compares with the data of the next one.                     *)
UniqueTurn(c, l, withEnd) ==
  LET next  == c.m.next[c.at]
      other == IF withEnd THEN l ELSE next
  IN  IF next = l THEN c
      ELSE IF c.m.data[c.at] = c.m.data[other]
           THEN [c EXCEPT !.m = Erase(c.m, next)]
           ELSE [c EXCEPT !.at = next]

Unique(m, l, withEnd) ==
  IF Empty(m, l) THEN m
  ELSE Loop([c \in Cursors |-> UniqueTurn(c, l, withEnd)],
            [m |-> m, at |-> Begin(m, l)], Rounds(m)).m

ReverseTurn(c) ==
  LET k == [c.m EXCEPT !.next[c.at] = c.m.prev[c.at], !.prev[c.at] = c.m.next[c.at]]
  IN  [m |-> k, at |-> k.prev[c.at]]

Reversed(m, l) ==
  Loop([c \in Cursors |-> IF c.at = l THEN c ELSE ReverseTurn(c)],
       ReverseTurn([m |-> m, at |-> l]), Rounds(m)).m

(***************************************************************************)
(* list_sort, list_sort1: the loops have the memory m, the end nodes of    *)
(* the list, of carry and of every counter, fill and the counter i.        *)
(***************************************************************************)
SortStates ==
  [m : Memories, list : Nodes, carry : Nodes, counter : Seq(Nodes), fill : Nat, i : Nat]

NewEnds(s) ==
  Loop([r \in SortStates |->
          [r EXCEPT !.m = NewEnd(r.m), !.counter = Append(@, Fresh(r.m))]], s, Counters)

SwapCarry(s) == [s EXCEPT !.carry = s.counter[s.i], !.counter[s.i] = s.carry]

CarryTurn(s) ==
  IF s.i <= s.fill /\ ~Empty(s.m, s.counter[s.i])
  THEN [SwapCarry([s EXCEPT !.m = Merge(s.m, s.counter[s.i], s.carry)]) EXCEPT !.i = s.i + 1]
  ELSE s

CarryUp(s) ==
  LET r == Loop([r \in SortStates |-> CarryTurn(r)], [s EXCEPT !.i = 1], Counters)
  IN  [SwapCarry(r) EXCEPT !.fill = IF r.i = r.fill + 1 THEN r.i ELSE r.fill]

DistributeTurn(s) ==
  IF Empty(s.m, s.list) THEN s
  ELSE CarryUp([s EXCEPT !.m = Splice1(s.m, Begin(s.m, s.carry), Begin(s.m, s.list))])

Distribute(s) == Loop([r \in SortStates |-> DistributeTurn(r)], s, Rounds(s.m))

CollectTurn(s) ==
  IF s.i > s.fill THEN s
  ELSE [s EXCEPT !.m = Merge(s.m, s.counter[s.i], s.counter[s.i - 1]), !.i = s.i + 1]

Collect(s) == Loop([r \in SortStates |-> CollectTurn(r)], [s EXCEPT !.i = 2], Counters)

Temporaries(s) == {s.carry} \cup {s.counter[i] : i \in 1..Counters}

SortedState(m, l) ==
  LET start == [m |-> NewEnd(m), list |-> l, carry |-> Fresh(m), counter |-> <<>>,
                fill |-> 0, i |-> 1]
      s     == Collect(Distribute(NewEnds(start)))
  IN  [s EXCEPT !.list = s.counter[s.fill], !.counter[s.fill] = s.list]

DestroyAll(s) ==
  LET k == Loop([r \in SortStates |-> [r EXCEPT !.m = Destroyed(r.m, r.counter[r.i]), !.i = @ + 1]],
                [s EXCEPT !.i = 1], Counters).m
  IN  Destroyed(k, s.carry)

-----------------------------------------------------------------------------
(***************************************************************************)
(* The calls.  A client passes positions of lists that are initialised,    *)
(* ranges that are ranges, and sorted lists to list_merge.                 *)
(***************************************************************************)
NoLists ==
  /\ mem = [next |-> [x \in Nodes |-> Nowhere], prev |-> [x \in Nodes |-> Nowhere],
            data |-> [x \in Nodes |-> Null], live |-> {}]
  /\ node = [l \in Lists |-> Nowhere]
  /\ scope \in Scopes
  /\ leaked = {}
  /\ call = [fn |-> "none", list |-> 0, args |-> <<>>, ret |-> 0]

Initialised == {l \in Lists : node[l] # Nowhere}

Length(l) == Size(mem, node[l])

(* Position i of list l: the end node is one past the last.                *)
At(l, i) ==
  LET r == Ring(mem, node[l]) IN IF i = Len(r) THEN r[1] ELSE r[i + 1]

Positions(l) == 1 .. (Length(l) + 1)

(* Nodes that are no end nodes hold the values.                            *)
Room ==
  scope.room - (Cardinality(mem.live) - Cardinality(Initialised) - Cardinality(leaked))

Called(fn, l, args, ret) == call' = [fn |-> fn, list |-> l, args |-> args, ret |-> ret]

(* A call that changes nothing but the memory of nodes.                    *)
Changes(fn, l, args, m) ==
  /\ mem' = m
  /\ Called(fn, l, args, 0)
  /\ UNCHANGED <<node, leaked>>

Counts(fn, l, args, m) ==
  /\ mem' = m
  /\ Called(fn, l, args, Size(mem, node[l]) - Size(m, node[l]))
  /\ UNCHANGED <<node, leaked>>

ListInit(l) ==
  /\ "init" \in scope.operations /\ node[l] = Nowhere
  /\ \E n \in 0..Room, v \in scope.values \cup {Null} :
       LET end == Fresh(mem)
           m   == NewEnd(mem)
       IN  /\ n = 0 => v = Null
           /\ node' = [node EXCEPT ![l] = end]
           /\ mem' = InsertMany(m, Begin(m, end), n, v)
           /\ Called("init", l, <<n, v>>, 0)
           /\ UNCHANGED leaked

ListDestroy(l) ==
  /\ "destroy" \in scope.operations
  /\ mem' = Destroyed(mem, node[l])
  /\ node' = [node EXCEPT ![l] = Nowhere]
  /\ Called("destroy", l, <<>>, 0)
  /\ UNCHANGED leaked

ListClear(l) ==
  /\ "clear" \in scope.operations
  /\ Changes("clear", l, <<>>, Clear(mem, node[l]))

ListAssign(l) ==
  /\ "assign" \in scope.operations
  /\ \E n \in 0..(Room + Length(l)), v \in scope.values :
       Changes("assign", l, <<n, v>>,
               Assign(mem, node[l], n, v))

ListAssign2(l) ==
  /\ "assign2" \in scope.operations
  /\ \E o \in Initialised \ {l} : \E i, j \in Positions(o) :
       /\ i <= j /\ j - i <= Room + Length(l)
       /\ Changes("assign2", l, <<o, i, j>>,
                  AssignRange(mem, node[l], At(o, i), At(o, j)))

ListInsert(l) ==
  /\ "insert" \in scope.operations /\ Room > 0
  /\ \E i \in Positions(l), v \in scope.values :
       Changes("insert", l, <<i, v>>, Insert(mem, At(l, i), v))

ListInsert1(l) ==
  /\ "insert1" \in scope.operations
  /\ \E i \in Positions(l), n \in 0..Room, v \in scope.values :
       Changes("insert1", l, <<i, n, v>>, InsertMany(mem, At(l, i), n, v))

ListInsert2(l) ==
  /\ "insert2" \in scope.operations
  /\ \E i \in Positions(l), o \in Initialised \ {l} : \E a, b \in Positions(o) :
       /\ a <= b /\ b - a <= Room
       /\ Changes("insert2", l, <<i, o, a, b>>,
                  InsertRange(mem, At(l, i), At(o, a), At(o, b)))

ListErase(l) ==
  /\ "erase" \in scope.operations
  /\ \E i \in 1..Length(l) : Changes("erase", l, <<i>>, Erase(mem, At(l, i)))

ListErase2(l) ==
  /\ "erase2" \in scope.operations
  /\ \E i, j \in Positions(l) :
       /\ i <= j
       /\ Changes("erase2", l, <<i, j>>, EraseRange(mem, At(l, i), At(l, j)))

ListPushBack(l) ==
  /\ "push_back" \in scope.operations /\ Room > 0
  /\ \E v \in scope.values : Changes("push_back", l, <<v>>, Insert(mem, node[l], v))

ListPushFront(l) ==
  /\ "push_front" \in scope.operations /\ Room > 0
  /\ \E v \in scope.values :
       Changes("push_front", l, <<v>>, Insert(mem, Begin(mem, node[l]), v))

ListPopBack(l) ==
  /\ "pop_back" \in scope.operations /\ ~Empty(mem, node[l])
  /\ Changes("pop_back", l, <<>>, Erase(mem, mem.prev[node[l]]))

ListPopFront(l) ==
  /\ "pop_front" \in scope.operations /\ ~Empty(mem, node[l])
  /\ Changes("pop_front", l, <<>>, Erase(mem, Begin(mem, node[l])))

ListResize(l) ==
  /\ "resize" \in scope.operations
  /\ \E n \in 0..(Room + Length(l)), v \in scope.values \cup {Null} :
       Changes("resize", l, <<n, v>>, Resize(mem, node[l], n, v))

ListSwap(l) ==
  /\ "swap" \in scope.operations
  /\ \E o \in Initialised \ {l} :
       /\ node' = [node EXCEPT ![l] = node[o], ![o] = node[l]]
       /\ Called("swap", l, <<o>>, 0)
       /\ UNCHANGED <<mem, leaked>>

InOrder(s) == \A i, j \in DOMAIN s : i < j => ~Less(s[j], s[i])

ListMerge(l) ==
  /\ "merge" \in scope.operations
  /\ \E o \in Initialised \ {l} :
       /\ InOrder(Contents(mem, node[l])) /\ InOrder(Contents(mem, node[o]))
       /\ Changes("merge", l, <<o>>, Merge(mem, node[l], node[o]))

ListSplice(l) ==
  /\ "splice" \in scope.operations
  /\ \E o \in Initialised \ {l}, i \in Positions(l) :
       Changes("splice", l, <<i, o>>, Splice(mem, At(l, i), node[o]))

ListSplice1(l) ==
  /\ "splice1" \in scope.operations
  /\ \E o \in Initialised, i \in Positions(l) : \E j \in 1..Length(o) :
       Changes("splice1", l, <<i, o, j>>, Splice1(mem, At(l, i), At(o, j)))

(* A position inside the range itself makes no sense.                      *)
ListSplice2(l) ==
  /\ "splice2" \in scope.operations
  /\ \E o \in Initialised, i \in Positions(l) : \E a, b \in Positions(o) :
       /\ a <= b
       /\ o = l => i < a \/ i >= b \/ a = b
       /\ Changes("splice2", l, <<i, o, a, b>>, Splice2(mem, At(l, i), At(o, a), At(o, b)))

(* list_remove has one value to look for, list_remove_if a predicate.      *)
ListRemoveIf(l) ==
  /\ "remove" \in scope.operations
  /\ \E doomed \in SUBSET scope.values :
       Counts("remove", l, <<doomed>>,
              Remove(mem, node[l], doomed))

ListReverse(l) ==
  /\ "reverse" \in scope.operations
  /\ Changes("reverse", l, <<>>, Reversed(mem, node[l]))

ListUnique(l) ==
  /\ "unique" \in scope.operations
  /\ Counts("unique", l, <<>>, Unique(mem, node[l], FALSE))

ListUnique1(l) ==
  /\ "unique1" \in scope.operations
  /\ Counts("unique1", l, <<>>, Unique(mem, node[l], TRUE))

ListSort(l) ==
  LET s == SortedState(mem, node[l])
  IN  /\ "sort" \in scope.operations
      /\ IF Length(l) < 2 THEN UNCHANGED <<mem, node, leaked>>
         ELSE /\ Cardinality(leaked) + Counters + 1 <= MaxLeaks
              /\ mem' = s.m
              /\ node' = [node EXCEPT ![l] = s.list]
              /\ leaked' = leaked \cup Temporaries(s)
      /\ Called("sort", l, <<>>, 0)

ListSort1(l) ==
  LET s == SortedState(mem, node[l])
  IN  /\ "sort1" \in scope.operations
      /\ IF Length(l) < 2 THEN UNCHANGED <<mem, node>>
         ELSE /\ mem' = DestroyAll(s)
              /\ node' = [node EXCEPT ![l] = s.list]
      /\ Called("sort1", l, <<>>, 0)
      /\ UNCHANGED leaked

ListNext ==
  /\ \/ \E l \in scope.lists : ListInit(l)
     \/ \E l \in Initialised :
          \/ ListDestroy(l) \/ ListClear(l) \/ ListAssign(l) \/ ListAssign2(l)
          \/ ListInsert(l) \/ ListInsert1(l) \/ ListInsert2(l)
          \/ ListErase(l) \/ ListErase2(l)
          \/ ListPushBack(l) \/ ListPushFront(l) \/ ListPopBack(l) \/ ListPopFront(l)
          \/ ListResize(l) \/ ListSwap(l) \/ ListMerge(l)
          \/ ListSplice(l) \/ ListSplice1(l) \/ ListSplice2(l)
          \/ ListRemoveIf(l) \/ ListReverse(l) \/ ListUnique(l) \/ ListUnique1(l)
          \/ ListSort(l) \/ ListSort1(l)
  /\ UNCHANGED scope

ListSpec == NoLists /\ [][ListNext]_listVars
-----------------------------------------------------------------------------
NodesIn(l) == LET r == Ring(mem, node[l]) IN {r[i] : i \in DOMAIN r}

(* Whatever is spliced, merged, swapped or sorted, every list stays a ring *)
(* whose two directions agree, no node is in two lists, and every node     *)
(* malloc handed out is in a list, but for the end nodes list_sort never   *)
(* gives back.                                                             *)
RingsIntact ==
  /\ \A l \in Initialised : \A x \in NodesIn(l) : mem.prev[mem.next[x]] = x
  /\ \A l, o \in Initialised : l # o => NodesIn(l) \cap NodesIn(o) = {}
  /\ mem.live = (UNION {NodesIn(l) : l \in Initialised}) \cup leaked
  /\ leaked \cap UNION {NodesIn(l) : l \in Initialised} = {}

(* The functions of list.c do to their sequence of values what ValueLists  *)
(* says, sorts and merges stably, and return how many values they removed. *)
Abstract == INSTANCE ValueLists WITH
  content <- [l \in Lists |-> IF node[l] = Nowhere THEN Gone ELSE Contents(mem, node[l])]

ImplementsValueLists == Abstract!Spec
=============================================================================

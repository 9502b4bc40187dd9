---------------------------- MODULE ValueArrays ----------------------------
(***************************************************************************)
(* What vec.h offers, on sequences of values with a capacity instead of    *)
(* blocks of memory: a call records which function was called on which     *)
(* vector, with positions from 0, counts and arguments, and what it        *)
(* returned.  Vec.tla is shown to implement this module.                   *)
(***************************************************************************)
EXTENDS Integers, SequencesExt

CONSTANTS
  Vectors,       (* the vectors                                            *)
  Values,        (* what an element may hold                               *)
  Null,          (* NULL                                                   *)
  Junk,          (* a value nobody has stored                              *)
  Gone,          (* a vector that is not initialised                       *)
  SizeOfValue    (* the size of an element                                 *)

VARIABLES
  content,       (* the values of each vector, or Gone                     *)
  capacity,      (* how many it has room for                               *)
  call           (* the last call: [fn, vec, args, ret]                    *)

Init ==
  /\ content = [v \in Vectors |-> Gone]
  /\ capacity = [v \in Vectors |-> 0]
  /\ call = [fn |-> "none", vec |-> Gone, args |-> <<>>, ret |-> 0]

(* The first i values, those from position i on, and t put between them.   *)
First(s, i)   == SubSeq(s, 1, i)
From(s, i)    == SubSeq(s, i + 1, Len(s))
With(s, i, t) == First(s, i) \o t \o From(s, i)

Without(s, i, j) == First(s, i) \o From(s, j)

(* What an argument stands for when count copies of it go to position i.   *)
(* One that points to an element is read after the elements behind the     *)
(* position have moved, if they move within the vector: from count places  *)
(* behind i on it then finds another value than the caller meant.          *)
(* A NULL leaves what the place held before: any value y.                  *)
Meant(s, w, y) ==
  IF w[1] = "element" THEN s[w[2] + 1] ELSE IF w[2] = Null THEN y ELSE w[2]

Found(s, w, i, count, y) ==
  IF w[1] = "element" /\ w[2] >= i + count THEN s[w[2] - count + 1] ELSE Meant(s, w, y)

Copies(n, x) == [k \in 1..n |-> x]

Doubled(n) == IF n = 0 THEN 1 ELSE 2 * n

(* vector_insert1 inserts nothing when there is no room for count values,  *)
(* and to insert none it makes room for twice the size.                    *)
AfterInsert1(s, cap, i, count, w) ==
  IF Len(s) + count <= cap
  THEN With(s, i, Copies(count, Found(s, w, i, count, Junk)))
  ELSE s

RoomAfterInsert1(s, cap, count) == IF count = 0 THEN 2 * Len(s) ELSE cap

(* The values and the capacity of a vector after a call on it.             *)
InsertedOne(s, cap, i, w, y) ==
  IF Len(s) = cap THEN Meant(s, w, y) ELSE Found(s, w, i, 1, y)

ContentAfter(s, cap, fn, x, y) ==
  CASE fn \in {"init", "init1"} -> <<>>
    [] fn = "init2"     -> Copies(x[1], x[2])
    [] fn = "destroy"   -> Gone
    [] fn = "clear"     -> <<>>
    [] fn = "push_back" -> Append(s, Meant(s, x[1], y))
    [] fn = "insert"    -> With(s, x[1], <<InsertedOne(s, cap, x[1], x[2], y)>>)
    [] fn = "insert1"   -> AfterInsert1(s, cap, x[1], x[2], x[3])
    [] fn = "erase"     -> Without(s, x[1], x[1] + 1)
    [] fn = "erase2"    -> Without(s, x[1], x[2])
    [] fn = "pop_back"  -> Front(s)
    [] fn = "resize1"   -> IF x[1] < Len(s) THEN First(s, x[1])
                           ELSE AfterInsert1(s, cap, Len(s), x[1] - Len(s), x[2])
    [] fn = "resize"    -> IF x[1] < Len(s) THEN First(s, x[1]) ELSE s
    [] fn \in {"reserve", "at"} -> s

CapacityAfter(s, cap, fn, x) ==
  CASE fn \in {"init", "init1", "init2"} -> x[1]
    [] fn = "destroy" -> 0
    [] fn = "reserve" -> Max({cap, x[1]})
    [] fn \in {"push_back", "insert"} -> IF Len(s) = cap THEN Doubled(cap) ELSE cap
    [] fn = "insert1" -> RoomAfterInsert1(s, cap, x[2])
    [] fn \in {"resize", "resize1"} /\ x[1] = Len(s) -> 2 * Len(s)
    [] OTHER -> cap

(* What a call returns: vector_at the element, the erasing functions the   *)
(* position, vector_insert an offset that is right only for elements of    *)
(* one byte (vec.c:175 has bytes, vec.c:181 takes them for elements).      *)
Returned(s, fn, x) ==
  CASE fn = "at"     -> s[x[1] + 1]
    [] fn = "insert" -> x[1] * SizeOfValue * SizeOfValue
    [] fn \in {"erase", "erase2"} -> x[1]
    [] OTHER -> 0

Swap(v, o) ==
  /\ content' = [content EXCEPT ![v] = content[o], ![o] = content[v]]
  /\ capacity' = [capacity EXCEPT ![v] = capacity[o], ![o] = capacity[v]]

Perform(c) ==
  IF c.fn = "swap" THEN Swap(c.vec, c.args[1])
  ELSE LET s   == content[c.vec]
           cap == capacity[c.vec]
       IN  /\ \E y \in Values \cup {Junk} :
                content' = [content EXCEPT ![c.vec] = ContentAfter(s, cap, c.fn, c.args, y)]
           /\ capacity' = [capacity EXCEPT ![c.vec] = CapacityAfter(s, cap, c.fn, c.args)]
           /\ c.ret = Returned(s, c.fn, c.args)

Next == Perform(call')

Spec == Init /\ [][Next]_<<content, capacity, call>>
=============================================================================

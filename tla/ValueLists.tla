----------------------------- MODULE ValueLists -----------------------------
(***************************************************************************)
(* What list.h offers, on sequences of values instead of rings of nodes:   *)
(* a call records which function was called on which list, with positions  *)
(* (from 1; one past the last is list_end), counts and values, and what it *)
(* returned.  List.tla is shown to implement this module.                  *)
(***************************************************************************)
EXTENDS Integers, SequencesExt

CONSTANTS
  Lists,          (* the lists                                             *)
  Null,           (* NULL as the data of a node                            *)
  Gone,           (* what a list holds that is not initialised             *)
  Less(_, _)      (* the order of the values                               *)

VARIABLES
  content,        (* the values of each list, or Gone                      *)
  call            (* the last call: [fn, list, args, ret]                  *)

NoCall == [fn |-> "none", list |-> 0, args |-> <<>>, ret |-> 0]

Init ==
  /\ content = [l \in Lists |-> Gone]
  /\ call = NoCall

Copies(n, v) == [i \in 1..n |-> v]

(* The values from position i up to, but without, position j.              *)
Part(s, i, j) == SubSeq(s, i, j - 1)

Before(s, i) == Part(s, 1, i)
From(s, i)   == Part(s, i, Len(s) + 1)

Without(s, i, j) == Before(s, i) \o From(s, j)
With(s, i, t)    == Before(s, i) \o t \o From(s, i)

(* A stable sort: where every value goes.                                  *)
Sorted(s) ==
  LET ahead(i, j) == Less(s[i], s[j]) \/ (~Less(s[j], s[i]) /\ i < j)
      rank(j)     == Cardinality({i \in DOMAIN s : ahead(i, j)}) + 1
  IN  [k \in DOMAIN s |-> s[CHOOSE j \in DOMAIN s : rank(j) = k]]

(* list_unique keeps the first value of every run of equal ones.           *)
UniqueOf(s) ==
  LET keep == {i \in DOMAIN s : i = 1 \/ s[i] # s[i - 1]}
  IN  [k \in 1..Cardinality(keep) |->
         s[CHOOSE i \in keep : Cardinality(keep \cap 1..i) = k]]

(* list_unique1 does not compare neighbours but every value it keeps with  *)
(* the NULL of the end node (list.c:308): what follows a NULL goes.        *)
UpToNull(s) ==
  LET nulls == {i \in DOMAIN s : s[i] = Null}
  IN  IF nulls = {} THEN s ELSE SubSeq(s, 1, CHOOSE i \in nulls : \A j \in nulls : i <= j)

Keeping(s, doomed) == SelectSeq(s, LAMBDA v : v \notin doomed)

(* The other list becomes t: content of both after a call on list l.       *)
Both(now, l, s, m, t) == [now EXCEPT ![l] = s, ![m] = t]

Only(now, l, s) == [now EXCEPT ![l] = s]

(* Moving part of list m before position i of list l.                      *)
Moved(now, l, i, m, a, b) ==
  IF l # m
  THEN Both(now, l, With(now[l], i, Part(now[m], a, b)), m, Without(now[m], a, b))
  ELSE LET s == now[l]
           p == Part(s, a, b)
       IN  Only(now, l, IF i <= a
                   THEN Before(s, i) \o p \o Part(s, i, a) \o From(s, b)
                   ELSE Before(s, a) \o Part(s, b, i) \o p \o From(s, i))

(* What a call makes of the lists.                                         *)
After(now, c) ==
  LET l == c.list
      s == now[l]
      x == c.args
  IN  CASE c.fn = "init"       -> Only(now, l, Copies(x[1], x[2]))
        [] c.fn = "destroy"    -> Only(now, l, Gone)
        [] c.fn = "clear"      -> Only(now, l, <<>>)
        [] c.fn = "assign"     -> Only(now, l, Copies(x[1], x[2]))
        [] c.fn = "assign2"    -> Only(now, l, Part(now[x[1]], x[2], x[3]))
        [] c.fn = "insert"     -> Only(now, l, With(s, x[1], <<x[2]>>))
        [] c.fn = "insert1"    -> Only(now, l, With(s, x[1], Copies(x[2], x[3])))
        [] c.fn = "insert2"    -> Only(now, l, With(s, x[1], Part(now[x[2]], x[3], x[4])))
        [] c.fn = "erase"      -> Only(now, l, Without(s, x[1], x[1] + 1))
        [] c.fn = "erase2"     -> Only(now, l, Without(s, x[1], x[2]))
        [] c.fn = "push_back"  -> Only(now, l, Append(s, x[1]))
        [] c.fn = "push_front" -> Only(now, l, <<x[1]>> \o s)
        [] c.fn = "pop_back"   -> Only(now, l, Front(s))
        [] c.fn = "pop_front"  -> Only(now, l, Tail(s))
        [] c.fn = "resize"     -> Only(now, l, IF x[1] <= Len(s) THEN SubSeq(s, 1, x[1])
                                          ELSE s \o Copies(x[1] - Len(s), x[2]))
        [] c.fn = "swap"       -> Both(now, l, now[x[1]], x[1], s)
        [] c.fn = "merge"      -> Both(now, l, Sorted(s \o now[x[1]]), x[1], <<>>)
        [] c.fn = "splice"     -> Moved(now, l, x[1], x[2], 1, Len(now[x[2]]) + 1)
        [] c.fn = "splice1"    -> Moved(now, l, x[1], x[2], x[3], x[3] + 1)
        [] c.fn = "splice2"    -> Moved(now, l, x[1], x[2], x[3], x[4])
        [] c.fn = "remove"     -> Only(now, l, Keeping(s, x[1]))
        [] c.fn = "reverse"    -> Only(now, l, Reverse(s))
        [] c.fn = "unique"     -> Only(now, l, UniqueOf(s))
        [] c.fn = "unique1"    -> Only(now, l, UpToNull(s))
        [] c.fn \in {"sort", "sort1"} -> Only(now, l, Sorted(s))

(* The functions that count return how many values went.                   *)
Counting == {"remove", "unique", "unique1"}

Perform(c) ==
  /\ content' = After(content, c)
  /\ c.fn \in Counting => c.ret = Len(content[c.list]) - Len(content'[c.list])

Next == Perform(call')

Spec == Init /\ [][Next]_<<content, call>>
=============================================================================

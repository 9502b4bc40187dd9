------------------------------- MODULE MCList -------------------------------
(* List on small instances: see MCList.cfg.  One client edits two lists    *)
(* with every function but the sorts, one moves different values between   *)
(* them, one fills a single list, further, and sorts it, and one also      *)
(* sorts with list_sort, which leaks.                                      *)
EXTENDS List

Editing ==
  [lists |-> {1, 2}, values |-> {10}, room |-> 3,
   operations |->
     {"init", "destroy", "clear", "assign", "assign2", "insert", "insert1", "insert2",
      "erase", "erase2", "push_back", "push_front", "pop_back", "pop_front", "resize",
      "swap", "merge", "splice", "splice1", "splice2", "remove", "reverse",
      "unique", "unique1"}]

Moving ==
  [lists |-> {1, 2}, values |-> {10, 20}, room |-> 3,
   operations |->
     {"init", "push_back", "merge", "splice", "splice1", "splice2", "remove", "unique"}]

Sorting ==
  [lists |-> {1}, values |-> {10, 11, 20}, room |-> 5,
   operations |-> {"init", "push_back", "sort1"}]

Leaking ==
  [lists |-> {1}, values |-> {10, 11, 20}, room |-> 4,
   operations |-> {"init", "push_back", "sort", "sort1"}]

MCScopes == {Editing, Moving, Sorting, Leaking}

(* The elements and end nodes, and the temporary lists of two sorts.       *)
MCNodes == 1 .. (Sorting.room + 1 + MaxLeaks + Counters + 1)
=============================================================================

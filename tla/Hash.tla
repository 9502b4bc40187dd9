-------------------------------- MODULE Hash --------------------------------
(***************************************************************************)
(* hash.h: chained hash tables.  A cell points to the first node of its    *)
(* chain; a node points to the next one through the member the macros call *)
(* NAME.  The macros are operators that return the memory m they leave:    *)
(* m.cell[t] is the array of table t (empty when there is no table), whose *)
(* domain is 0 .. n_cells - 1, and m.name the links of the nodes.          *)
(*                                                                         *)
(* Nothing here locks and calls do not overlap: a macro is one action.     *)
(***************************************************************************)
EXTENDS Integers, Sequences, FiniteSets, FiniteSetsExt

CONSTANTS
  Tables,
  Nodes,
  Keys,
  KeyOf,         (* the key of every node                                  *)
  HashOf,        (* of every key: its fold ^ HASH_RANDOM_MASK2             *)
  Sizes,         (* bound: n_cells of the tables hash_create makes         *)
  Null,
  Invalid        (* -1 as a pointer                                          *)

ASSUME HashAssumption ==
  /\ IsFiniteSet(Nodes)
  /\ KeyOf \in [Nodes -> Keys]
  /\ HashOf \in [Keys -> Nat]
  /\ Sizes \subseteq Nat \ {0}
  /\ {Null, Invalid} \cap Nodes = {}
  /\ Null # Invalid

VARIABLES
  mem,           (* the memory                                             *)
  stale,         (* ghost: tables migrated from and not cleared since      *)
  call           (* ghost: the last call, as KeyIndex records it           *)

vars == <<mem, stale, call>>

(* What the next call depends on: call only watches.                       *)
State == <<mem, stale>>

NoCells == [c \in {} |-> Null]

Init ==
  /\ mem = [cell |-> [t \in Tables |-> NoCells], name |-> [x \in Nodes |-> Null]]
  /\ stale = {}
  /\ call = [fn |-> "none", table |-> Null, arg |-> Null, ret |-> Null]

Cells(t) == DOMAIN mem.cell[t]

(* hash_calc_hash                                                          *)
CellOf(m, t, key) == HashOf[key] % Cardinality(DOMAIN m.cell[t])

Cleared(m, t) == [m EXCEPT !.cell[t] = [c \in DOMAIN @ |-> Null]]

Pointers == Nodes \cup {Null, Invalid}

(* A loop from x on: no chain has more nodes than there are.               *)
Walk(step, x) ==
  LET at[i \in 0..Cardinality(Nodes)] == IF i = 0 THEN x ELSE step[at[i - 1]]
  IN  at

(* The pointer of S where a loop that follows NAME from x on ends.         *)
Until(m, x, S) ==
  Walk([y \in Pointers |-> IF y \in S THEN y ELSE m.name[y]], x)[Cardinality(Nodes)]

(* while (struct3333->NAME != NULL)                                        *)
LastOf(m, x) == Until(m, x, {y \in Nodes : m.name[y] = Null})

Members(s) == {s[i] : i \in DOMAIN s}

(* The nodes of a chain from x on; one that does not end in NULL is left   *)
(* at an invalid link or the first node met twice.                         *)
Chain(m, x) ==
  LET longer == [s \in Seq(Nodes) |->
        LET y == IF s = <<>> THEN x ELSE m.name[s[Len(s)]]
        IN  IF y \in Nodes \ Members(s) THEN Append(s, y) ELSE s]
  IN  Walk(longer, <<>>)[Cardinality(Nodes)]

InsertClearingLate(m, t, x) ==   \* mutant: the link is not cleared
  LET c == CellOf(m, t, KeyOf[x])
  IN  IF m.cell[t][c] = Null
      THEN [m EXCEPT !.cell[t][c] = x]
      ELSE [m EXCEPT !.name[LastOf(m, m.cell[t][c])] = x]

Insert(m, t, x) ==
  LET c == CellOf(m, t, KeyOf[x])
      k == [m EXCEPT !.name[x] = Null]
  IN  IF k.cell[t][c] = Null
      THEN [k EXCEPT !.cell[t][c] = x]
      ELSE [k EXCEPT !.name[LastOf(k, k.cell[t][c])] = x]

Predecessor(m, y, x) == Until(m, y, {z \in Nodes : m.name[z] = x})

Delete(m, t, x) ==
  LET c == CellOf(m, t, KeyOf[x])
      k == IF m.cell[t][c] = x
           THEN [m EXCEPT !.cell[t][c] = m.name[x]]
           ELSE [m EXCEPT !.name[Predecessor(m, m.cell[t][c], x)] = m.name[x]]
  IN  [k EXCEPT !.name[x] = Invalid]

FirstWith(m, x, keys) == Until(m, x, {Null} \cup {y \in Nodes : KeyOf[y] \in keys})

(* The cells are searched from the last one down.                          *)
FirstInCells(m, t, keys) ==
  LET found == [c \in DOMAIN m.cell[t] |-> FirstWith(m, m.cell[t][c], keys)]
      hits  == {c \in DOMAIN found : found[c] # Null}
  IN  IF hits = {} THEN Null ELSE found[Max(hits)]

(* A loop over a chain: p.at is the node it is at, p.mem the memory.       *)
MovedReadingLate(p, t) ==      \* mutant: NAME is read after HASH_INSERT
  IF p.at = Null THEN p
  ELSE LET k == Insert(p.mem, t, p.at) IN [mem |-> k, at |-> k.name[p.at]]

Moved(p, t) ==
  IF p.at = Null THEN p
  ELSE [mem |-> Insert(p.mem, t, p.at), at |-> p.mem.name[p.at]]

MigrateChain(m, x, t) ==
  LET round[i \in 0..Cardinality(Nodes)] ==
        IF i = 0 THEN [mem |-> m, at |-> x] ELSE Moved(round[i - 1], t)
  IN  round[Cardinality(Nodes)].mem

Migrate(m, old, t) ==
  LET n == Cardinality(DOMAIN m.cell[old])
      after[i \in 0..n] ==
        IF i = 0 THEN m
        ELSE LET k == after[i - 1] IN MigrateChain(k, k.cell[old][i - 1], t)
  IN  after[n]

-----------------------------------------------------------------------------
(***************************************************************************)
(* The calls.  A client uses tables that exist and that it has not just    *)
(* emptied by HASH_MIGRATE, inserts nodes that are in no table and deletes *)
(* them from the table they are in.                                        *)
(***************************************************************************)
NodesAt(t, c) == Chain(mem, mem.cell[t][c])

NodesIn(t) == UNION {Members(NodesAt(t, c)) : c \in Cells(t)}

Usable == {t \in Tables : Cells(t) # {} /\ t \notin stale}

Becomes(m, fn, t, arg) ==
  /\ mem' = m
  /\ call' = [fn |-> fn, table |-> t, arg |-> arg, ret |-> Null]

Finds(fn, t, arg, x) ==
  /\ call' = [fn |-> fn, table |-> t, arg |-> arg, ret |-> x]
  /\ UNCHANGED <<mem, stale>>

HashCreate(t) ==
  /\ Cells(t) = {}
  /\ \E n \in Sizes :
       Becomes([mem EXCEPT !.cell[t] = [c \in 0..(n - 1) |-> Null]], "create", t, n)
  /\ UNCHANGED stale

HashTableFree(t) ==
  /\ Cells(t) # {}
  /\ Becomes([mem EXCEPT !.cell[t] = NoCells], "free", t, Null)
  /\ stale' = stale \ {t}

HashTableClear(t) ==
  /\ Cells(t) # {}
  /\ Becomes(Cleared(mem, t), "clear", t, Null)
  /\ stale' = stale \ {t}

HashInsert(t) ==
  /\ t \in Usable
  /\ \E x \in Nodes \ UNION {NodesIn(u) : u \in Usable} :
       Becomes(Insert(mem, t, x), "insert", t, x)
  /\ UNCHANGED stale

HashDelete(t) ==
  /\ t \in Usable
  /\ \E x \in NodesIn(t) : Becomes(Delete(mem, t, x), "delete", t, x)
  /\ UNCHANGED stale

HashSearch(t) ==
  /\ t \in Usable
  /\ \E k \in Keys :
       Finds("search", t, k, FirstWith(mem, mem.cell[t][CellOf(mem, t, k)], {k}))

HashSearchAll(t) ==
  /\ t \in Usable
  /\ \E keys \in SUBSET Keys :
       Finds("search_all", t, keys, FirstInCells(mem, t, keys))

(* HASH_MIGRATE asks hash_get_n_cells for n_cells, which hash.h leaves to  *)
(* its users to define.                                                    *)
HashMigrate(t) ==
  /\ t \in Usable
  /\ \E new \in Usable \ {t} : Becomes(Migrate(mem, t, new), "migrate", t, new)
  /\ stale' = stale \cup {t}

Next ==
  \E t \in Tables :
    \/ HashCreate(t) \/ HashTableFree(t) \/ HashTableClear(t)
    \/ HashInsert(t) \/ HashDelete(t) \/ HashMigrate(t)
    \/ HashSearch(t) \/ HashSearchAll(t)

Spec == Init /\ [][Next]_vars
-----------------------------------------------------------------------------
(* Every chain of a table in use ends in NULL, without meeting a node      *)
(* HASH_DELETE has invalidated (so no HASH_ASSERT_VALID fails) or a node   *)
(* of another chain, and all its nodes belong to its cell.                 *)
Follows(s, i) == IF i < Len(s) THEN s[i + 1] ELSE Null

Linked(name, x, s) ==
  /\ x = Follows(s, 0)
  /\ \A i \in DOMAIN s : name[s[i]] = Follows(s, i)

ChainsIntact ==
  /\ \A t \in Usable : \A c \in Cells(t) :
       /\ Linked(mem.name, mem.cell[t][c], NodesAt(t, c))
       /\ \A x \in Members(NodesAt(t, c)) : CellOf(mem, t, KeyOf[x]) = c
  /\ \A t, u \in Usable : t # u => NodesIn(t) \cap NodesIn(u) = {}

(* Whatever collides, chains keep what was inserted, in order: hash.h      *)
(* implements tables that know the nodes of every key, oldest first, also  *)
(* when HASH_MIGRATE moves them to a table of another size.                *)
WithKey(s, k) ==
  LET found[i \in 0..Len(s)] ==
        IF i = 0 THEN <<>>
        ELSE IF KeyOf[s[i]] = k THEN Append(found[i - 1], s[i]) ELSE found[i - 1]
  IN  found[Len(s)]

Index ==
  [t \in Tables |-> [k \in Keys |->
     IF t \in Usable THEN WithKey(NodesAt(t, CellOf(mem, t, k)), k) ELSE <<>>]]

Abstract == INSTANCE KeyIndex WITH index <- Index

ImplementsKeyIndex == Abstract!Spec
=============================================================================

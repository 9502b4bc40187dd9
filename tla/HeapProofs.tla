----------------------------- MODULE HeapProofs -----------------------------
(***************************************************************************)
(* The heap of heap.c, for every number of blocks, every alignment, every  *)
(* size and every sequence of calls: proofs about Heap.  After them, the   *)
(* arrays of dyn.c, whose blocks come from such a heap, and the big-endian *)
(* fields that byte.c reads and writes in them: proofs about Dyn.          *)
(***************************************************************************)
EXTENDS Heap, Dyn, Lemmas, SequenceTheorems

(***************************************************************************)
(* MEM_SPACE_NEEDED and the size of an added block.                        *)
(***************************************************************************)
LEMMA NeededIsEnough ==
  ASSUME NEW n \in Nat
  PROVE  Needed(n) \in Nat /\ Needed(n) >= n /\ Needed(n) % Alignment = 0
<1>1. Alignment \in Nat \ {0}
  BY HeapAssumption
<1>2. PICK q \in Int, r \in 0..(Alignment - 1) :
        q = (n + Alignment - 1) \div Alignment /\ n + Alignment - 1 = Alignment * q + r
  BY <1>1
<1>3. q >= 0
  BY <1>1, <1>2
<1>4. q * Alignment = Alignment * q /\ q * Alignment \in Nat
  BY <1>1, <1>3
<1>5. (q * Alignment) % Alignment = 0
  BY <1>1
<1> QED
  BY <1>1, <1>2, <1>4, <1>5 DEF Needed

LEMMA NeededGrows ==
  ASSUME NEW m \in Nat, NEW n \in Nat, m <= n
  PROVE  Needed(m) <= Needed(n)
<1>1. Alignment \in Nat \ {0}
  BY HeapAssumption
<1>2. PICK p \in Int, c \in 0..(Alignment - 1) :
        p = (m + Alignment - 1) \div Alignment /\ m + Alignment - 1 = Alignment * p + c
  BY <1>1
<1>3. PICK q \in Int, d \in 0..(Alignment - 1) :
        q = (n + Alignment - 1) \div Alignment /\ n + Alignment - 1 = Alignment * q + d
  BY <1>1
<1>4. p <= q
  <2>1. ASSUME p >= q + 1 PROVE FALSE
    <3>1. Alignment * p >= Alignment * (q + 1)
      BY <1>1, <2>1
    <3>2. Alignment * (q + 1) = Alignment * q + Alignment
      BY <1>1
    <3> QED
      BY <1>1, <1>2, <1>3, <3>1, <3>2
  <2> QED
    BY <2>1
<1>5. p * Alignment <= q * Alignment
  BY <1>1, <1>4
<1> QED
  BY <1>2, <1>3, <1>5 DEF Needed

LEMMA MaxOfTwo ==
  ASSUME NEW m \in Nat, NEW n \in Nat
  PROVE  Max({m, n}) \in Nat /\ Max({m, n}) >= m
<1>1. \E x \in {m, n} : \A y \in {m, n} : x >= y
  OBVIOUS
<1>2. PICK x : x = Max({m, n})
  OBVIOUS
<1>3. x \in {m, n} /\ \A y \in {m, n} : x >= y
  BY <1>1, <1>2 DEF Max
<1> QED
  BY <1>2, <1>3

-----------------------------------------------------------------------------
(***************************************************************************)
(* Any link that LIST_REMOVE and LIST_INSERT_AFTER leave behind, whatever  *)
(* shape the list has: a damaged heap gives them nodes that are in no list *)
(* or in a ring.                                                           *)
(***************************************************************************)
RemovedFrom(m, k, x, a, b, S) ==
  /\ m[x].prev = NoNode /\ m[x].next = NoNode
  /\ \A z \in S \ {x} : m[z].prev = IF z = b THEN a ELSE k[z].prev
  /\ \A z \in S \ {x} : m[z].next = IF z = a THEN b ELSE k[z].next

InsertedInto(m, k, x, b, y, S) ==
  /\ m[y].prev = x
  /\ m[y].next = IF x = y THEN y ELSE b
  /\ \A z \in S \ {y} : m[z].prev = IF z = b THEN y ELSE k[z].prev
  /\ \A z \in S \ {y} : m[z].next = IF z = x THEN y ELSE k[z].next

LEMMA Removed ==
  ASSUME NEW S, NoNode \notin S, NEW l, NEW k \in Links(S), NEW x \in S,
         NEW a, a = k[x].prev, NEW b, b = k[x].next,
         NEW m, m = ListRemove(l, k, x).links
  PROVE  m \in Links(S) /\ RemovedFrom(m, k, x, a, b, S)
<1>1. a \in S \cup {NoNode} /\ b \in S \cup {NoNode}
  BY DEF Links, Link
<1>2. PICK j : j = SetPrev(k, b, a)
  OBVIOUS
<1>3. j \in Links(S) /\ SetsPrev(j, k, b, a, S)
  BY <1>1, <1>2, PrevSet
<1>4. PICK i : i = SetNext(j, a, b)
  OBVIOUS
<1>5. i \in Links(S) /\ SetsNext(i, j, a, b, S)
  BY <1>1, <1>3, <1>4, NextSet
<1>6. m = [i EXCEPT ![x] = [prev |-> NoNode, next |-> NoNode]]
  BY <1>2, <1>4 DEF ListRemove, Detached
<1>7. m \in Links(S) /\ SetsBoth(m, i, x, NoNode, NoNode, S)
  BY <1>5, <1>6, NodeSet
<1> QED
  BY <1>3, <1>5, <1>7 DEF SetsPrev, SetsNext, SetsBoth, RemovedFrom

LEMMA Inserted ==
  ASSUME NEW S, NoNode \notin S, NEW l, NEW k \in Links(S), NEW x \in S, NEW y \in S,
         NEW b, b = k[x].next, b # y,
         NEW m, m = ListInsertAfter(l, k, x, y).links
  PROVE  m \in Links(S) /\ InsertedInto(m, k, x, b, y, S)
<1>1. b \in S \cup {NoNode}
  BY DEF Links, Link
<1>2. PICK h : h = [k EXCEPT ![y] = [prev |-> x, next |-> b]]
  OBVIOUS
<1>3. h \in Links(S) /\ SetsBoth(h, k, y, x, b, S)
  BY <1>1, <1>2, NodeSet
<1>4. PICK j : j = SetPrev(h, b, y)
  OBVIOUS
<1>5. j \in Links(S) /\ SetsPrev(j, h, b, y, S)
  BY <1>1, <1>3, <1>4, PrevSet
<1>6. m = SetNext(j, x, y)
  BY <1>2, <1>4 DEF ListInsertAfter
<1>7. m \in Links(S) /\ SetsNext(m, j, x, y, S)
  BY <1>5, <1>6, NextSet
<1> QED
  BY <1>3, <1>5, <1>7 DEF SetsPrev, SetsNext, SetsBoth, InsertedInto

-----------------------------------------------------------------------------
(***************************************************************************)
(* The blocks a damaged heap leads to.  q lists them from a block that was *)
(* freed to the one base.last names: the walk back along prev never        *)
(* reaches the block the heap lives in, and it comes to a block that is    *)
(* free, or that it has freed itself, before it could end.                 *)
(***************************************************************************)
Astray(q, r, k, v, h) ==
  /\ q \in [1..r -> Blocks]
  /\ \A i \in 2..r : k[q[i]].prev = q[i - 1]
  /\ \A i \in 2..r : q[i] \in v
  /\ \A i, j \in 2..r : q[i] = q[j] => i = j
  /\ q[1] \in v => \E i \in 2..r : q[i] = q[1]
  /\ \A i \in 1..r : q[i] # h
  /\ \/ k[q[r]].next = NoNode
     \/ r >= 2 /\ q[1] = q[r] /\ k[q[r]].next = q[2]

LEMMA AstrayAtFreed ==
  ASSUME NEW k, NEW v, NEW h, NEW x \in Blocks, x \notin v, x # h, k[x].next = NoNode
  PROVE  \E q : Astray(q, 1, k, v, h) /\ q[1] = x
<1>1. PICK q : q = [i \in 1..1 |-> x]
  OBVIOUS
<1>2. Astray(q, 1, k, v, h) /\ q[1] = x
  BY <1>1 DEF Astray
<1> QED
  BY <1>2

(* Freeing the last of them, x.                                            *)
StaysAstray(m, r, k, x, v, h) ==
  /\ r >= 2 /\ m \in Links(Blocks) /\ x # h
  /\ m[x].next = NoNode
  /\ k[x].prev \in Blocks
  /\ \A z \in Blocks \ v : k[z].next = NoNode => m[z].next = NoNode
  /\ \E p : Astray(p, r - 1, m, v \ {x}, h) /\ p[r - 1] = k[x].prev

LEMMA AstrayShrinks ==
  ASSUME NEW k \in Links(Blocks), NEW v \in SUBSET Blocks, NEW h \in v,
         NEW r \in Nat \ {0}, NEW q, Astray(q, r, k, v, h), NEW x, x = q[r], x \in v,
         NEW l, NEW m, m = ListRemove(l, k, x).links
  PROVE  StaysAstray(m, r, k, x, v, h)
<1>1. NoNode \notin Blocks
  BY HeapAssumption
<1>2. r >= 2
  <2>1. CASE r = 1
    BY <2>1 DEF Astray
  <2> QED
    BY <2>1
<1>3. q[r - 1] \in Blocks /\ x \in Blocks /\ k[x].prev = q[r - 1] /\ x # h
  BY <1>2 DEF Astray
<1>4. PICK a, b : a = k[x].prev /\ b = k[x].next
  OBVIOUS
<1>5. m \in Links(Blocks) /\ RemovedFrom(m, k, x, a, b, Blocks)
  BY <1>1, <1>3, <1>4, Removed
<1>6. CASE b = NoNode
  <2>1. PICK p : p = [i \in 1..(r - 1) |-> q[i]]
    OBVIOUS
  <2>2. p \in [1..(r - 1) -> Blocks] /\ p[r - 1] = a /\ p[1] = q[1] /\ r - 1 \in 1..(r - 1)
    BY <1>2, <1>3, <1>4, <2>1 DEF Astray
  <2>3. ASSUME NEW i \in 2..(r - 1)
        PROVE  m[p[i]].prev = p[i - 1] /\ p[i] \in v \ {x}
    <3>1. i \in 2..r /\ i - 1 \in 1..(r - 1) /\ i # r /\ r \in 2..r
      BY <1>2
    <3>2. q[i] \in v /\ q[i] # x /\ q[i] \in Blocks /\ k[q[i]].prev = q[i - 1]
      BY <3>1 DEF Astray
    <3>3. m[q[i]].prev = k[q[i]].prev
      BY <1>1, <1>5, <1>6, <3>2 DEF RemovedFrom
    <3> QED
      BY <2>1, <3>1, <3>2, <3>3
  <2>4. \A i, j \in 2..(r - 1) : p[i] = p[j] => i = j
    BY <1>2, <2>1 DEF Astray
  <2>5. p[1] \in v \ {x} => \E i \in 2..(r - 1) : p[i] = p[1]
    <3>1. ASSUME p[1] \in v \ {x} PROVE \E i \in 2..(r - 1) : p[i] = p[1]
      <4>1. PICK i \in 2..r : q[i] = q[1]
        BY <2>2, <3>1 DEF Astray
      <4>2. i # r
        BY <2>2, <3>1, <4>1
      <4> QED
        BY <2>1, <2>2, <4>1, <4>2
    <3> QED
      BY <3>1
  <2>6. \A i \in 1..(r - 1) : p[i] # h
    BY <2>1 DEF Astray
  <2>7. m[p[r - 1]].next = NoNode
    BY <1>3, <1>4, <1>5, <1>6, <2>2 DEF RemovedFrom
  <2>8. Astray(p, r - 1, m, v \ {x}, h)
    BY <2>2, <2>3, <2>4, <2>5, <2>6, <2>7 DEF Astray
  <2>9. \A z \in Blocks \ v : k[z].next = NoNode => m[z].next = NoNode
    BY <1>5, <1>6 DEF RemovedFrom
  <2> QED
    BY <1>2, <1>3, <1>4, <1>5, <2>2, <2>8, <2>9 DEF RemovedFrom, StaysAstray
<1>7. CASE b # NoNode
  <2>1. q[1] = x /\ b = q[2]
    BY <1>4, <1>7 DEF Astray
  <2>2. PICK p : p = [i \in 1..(r - 1) |-> IF i = 1 THEN q[r - 1] ELSE q[i]]
    OBVIOUS
  <2>3. p \in [1..(r - 1) -> Blocks] /\ p[r - 1] = a /\ p[1] = a /\ r - 1 \in 1..(r - 1)
    BY <1>2, <1>3, <1>4, <2>2 DEF Astray
  <2>4. \A i \in 2..(r - 1) : p[i] = q[i] /\ q[i] \in v /\ q[i] # x /\ q[i] \in Blocks
    BY <1>2, <2>2 DEF Astray
  <2>5. ASSUME NEW i \in 2..(r - 1) PROVE m[p[i]].prev = p[i - 1]
    <3>1. i \in 2..r /\ i - 1 \in 1..(r - 1) /\ 2 \in 2..r /\ k[q[i]].prev = q[i - 1]
      BY DEF Astray
    <3>2. m[q[i]].prev = IF q[i] = b THEN a ELSE k[q[i]].prev
      BY <1>5, <2>4 DEF RemovedFrom
    <3>3. q[i] = b <=> i = 2
      BY <2>1, <3>1 DEF Astray
    <3> QED
      BY <2>2, <2>3, <2>4, <3>1, <3>2, <3>3
  <2>6. \A i, j \in 2..(r - 1) : p[i] = p[j] => i = j
    BY <2>4 DEF Astray
  <2>7. p[1] \in v \ {x} => \E i \in 2..(r - 1) : p[i] = p[1]
    <3>1. CASE r = 2
      BY <1>3, <1>4, <2>1, <2>3, <3>1
    <3>2. CASE r > 2
      BY <2>3, <3>2
    <3> QED
      BY <1>2, <3>1, <3>2
  <2>8. \A i \in 1..(r - 1) : p[i] # h
    BY <1>2, <2>2 DEF Astray
  <2>9. \/ m[p[r - 1]].next = NoNode
        \/ r - 1 >= 2 /\ p[1] = p[r - 1] /\ m[p[r - 1]].next = p[2]
    <3>1. CASE r = 2
      BY <1>3, <1>4, <1>5, <2>1, <2>3, <3>1 DEF RemovedFrom
    <3>2. CASE r > 2
      <4>1. r - 1 \in 2..(r - 1) /\ 2 \in 2..(r - 1)
        BY <3>2
      <4>2. a # x /\ a \in Blocks /\ p[2] = b
        BY <2>1, <2>3, <2>4, <4>1
      <4>3. m[a].next = b
        BY <1>5, <4>2 DEF RemovedFrom
      <4> QED
        BY <2>3, <3>2, <4>2, <4>3
    <3> QED
      BY <1>2, <3>1, <3>2
  <2>10. Astray(p, r - 1, m, v \ {x}, h)
    BY <2>3, <2>4, <2>5, <2>6, <2>7, <2>8, <2>9 DEF Astray
  <2>11. a \in v
    <3>1. CASE r = 2
      BY <1>3, <1>4, <2>1, <3>1
    <3>2. CASE r > 2
      <4>1. r - 1 \in 2..(r - 1)
        BY <3>2
      <4> QED
        BY <2>3, <2>4, <4>1
    <3> QED
      BY <1>2, <3>1, <3>2
  <2>12. \A z \in Blocks \ v : k[z].next = NoNode => m[z].next = NoNode
    BY <1>5, <2>11 DEF RemovedFrom
  <2> QED
    BY <1>2, <1>3, <1>4, <1>5, <2>3, <2>10, <2>12 DEF RemovedFrom, StaysAstray
<1> QED
  BY <1>6, <1>7

Headers == [count : Int, first : Blocks \cup {NoNode}, last : Blocks \cup {NoNode}]

(* A block more: behind the last of them, or into the ring.                *)
GoesAstray(t, r, v, y, h) ==
  /\ t.links \in Links(Blocks) /\ t.list \in Headers
  /\ \E p : Astray(p, r + 1, t.links, v \cup {y}, h) /\ p[r + 1] = t.list.last

LEMMA AstrayGrows ==
  ASSUME NEW k \in Links(Blocks), NEW v \in SUBSET Blocks, NEW h \in v,
         NEW r \in Nat \ {0}, NEW q, Astray(q, r, k, v, h),
         NEW l \in Headers, l.last = q[r],
         NEW y \in Blocks, y \notin v,
         NEW t, t = ListInsertAfter(l, k, l.last, y)
  PROVE  GoesAstray(t, r, v, y, h)
<1>1. NoNode \notin Blocks /\ y # h /\ y # NoNode
  BY HeapAssumption
<1>2. PICK x, b, m : x = q[r] /\ b = k[x].next /\ m = t.links
  OBVIOUS
<1>3. x \in Blocks /\ b \in Blocks \cup {NoNode} /\ r \in 1..r
  BY <1>2 DEF Astray, Links, Link
<1>4. m = ListInsertAfter(l, k, x, y).links
  BY <1>2
<1>5. t.list.last = (IF b = NoNode THEN y ELSE x) /\ t.list \in Headers
  <2>1. PICK z : z = IF b = NoNode THEN y ELSE x
    OBVIOUS
  <2>2. l.count \in Int /\ l = [count |-> l.count, first |-> l.first, last |-> x]
    BY <1>2 DEF Headers
  <2>3. t.list = [l EXCEPT !.count = @ + 1, !.last = z]
    BY <1>2, <2>1 DEF ListInsertAfter
  <2>4. t.list = [count |-> l.count + 1, first |-> l.first, last |-> z]
    BY <2>2, <2>3
  <2>5. l.first \in Blocks \cup {NoNode} /\ z \in Blocks
    BY <1>3, <2>1 DEF Headers
  <2> QED
    BY <2>1, <2>2, <2>4, <2>5 DEF Headers
<1>6. CASE b = NoNode
  <2>1. m \in Links(Blocks) /\ InsertedInto(m, k, x, b, y, Blocks)
    BY <1>1, <1>2, <1>3, <1>4, <1>6, Inserted
  <2>2. PICK p : p = [i \in 1..(r + 1) |-> IF i <= r THEN q[i] ELSE y]
    OBVIOUS
  <2>3. /\ p \in [1..(r + 1) -> Blocks] /\ p[r + 1] = y /\ p[r] = x /\ p[1] = q[1]
        /\ \A i \in 1..r : p[i] = q[i]
    BY <1>2, <1>3, <2>2 DEF Astray
  <2>4. ASSUME NEW i \in 2..(r + 1)
        PROVE  m[p[i]].prev = p[i - 1] /\ p[i] \in v \cup {y}
    <3>1. CASE i = r + 1
      BY <2>1, <2>3, <3>1 DEF InsertedInto
    <3>2. CASE i # r + 1
      <4>1. i \in 2..r /\ i - 1 \in 1..r /\ p[i] = q[i] /\ p[i - 1] = q[i - 1]
        BY <2>3, <3>2
      <4>2. q[i] \in v /\ k[q[i]].prev = q[i - 1]
        BY <4>1 DEF Astray
      <4>3. m[q[i]].prev = k[q[i]].prev
        BY <1>1, <1>6, <2>1, <4>2 DEF InsertedInto
      <4> QED
        BY <4>1, <4>2, <4>3
    <3> QED
      BY <3>1, <3>2
  <2>5. ASSUME NEW i \in 2..(r + 1), NEW j \in 2..(r + 1), p[i] = p[j] PROVE i = j
    <3>1. \A e \in 2..r : p[e] = q[e] /\ p[e] # y
      BY <2>3 DEF Astray
    <3>2. CASE i = r + 1 \/ j = r + 1
      BY <2>3, <2>5, <3>1, <3>2
    <3>3. CASE i # r + 1 /\ j # r + 1
      <4>1. i \in 2..r /\ j \in 2..r /\ q[i] = q[j]
        BY <2>5, <3>1, <3>3
      <4> QED
        BY <4>1 DEF Astray
    <3> QED
      BY <3>2, <3>3
  <2>6. p[1] \in v \cup {y} => \E i \in 2..(r + 1) : p[i] = p[1]
    <3>1. CASE p[1] = y
      BY <2>3, <3>1
    <3>2. ASSUME p[1] \in v PROVE \E i \in 2..(r + 1) : p[i] = p[1]
      <4>1. PICK i \in 2..r : q[i] = q[1]
        BY <2>3, <3>2 DEF Astray
      <4> QED
        BY <2>3, <4>1
    <3> QED
      BY <3>1, <3>2
  <2>7. \A i \in 1..(r + 1) : p[i] # h
    BY <1>1, <2>2 DEF Astray
  <2>8. \/ m[p[r + 1]].next = NoNode
        \/ r + 1 >= 2 /\ p[1] = p[r + 1] /\ m[p[r + 1]].next = p[2]
    <3>1. CASE x # y
      BY <1>6, <2>1, <2>3, <3>1 DEF InsertedInto
    <3>2. CASE x = y
      <4>1. r = 1
        <5>1. r \in 2..r => q[r] \in v
          BY DEF Astray
        <5> QED
          BY <1>2, <3>2, <5>1
      <4> QED
        BY <2>1, <2>3, <3>2, <4>1 DEF InsertedInto
    <3> QED
      BY <3>1, <3>2
  <2>9. Astray(p, r + 1, m, v \cup {y}, h)
    BY <2>3, <2>4, <2>5, <2>6, <2>7, <2>8 DEF Astray
  <2> QED
    BY <1>2, <1>5, <1>6, <2>1, <2>3, <2>9 DEF GoesAstray
<1>7. CASE b # NoNode
  <2>1. r >= 2 /\ q[1] = x /\ b = q[2] /\ r \in 2..r /\ 2 \in 2..r
    BY <1>2, <1>7 DEF Astray
  <2>2. x \in v /\ b \in v
    BY <1>2, <2>1 DEF Astray
  <2>3. m \in Links(Blocks) /\ InsertedInto(m, k, x, b, y, Blocks)
    BY <1>1, <1>2, <1>3, <1>4, <2>2, Inserted
  <2>4. PICK p : p = [i \in 1..(r + 1) |-> IF i = 1 THEN x ELSE IF i = 2 THEN y ELSE q[i - 1]]
    OBVIOUS
  <2>5. /\ p \in [1..(r + 1) -> Blocks] /\ p[r + 1] = x /\ p[1] = x /\ p[2] = y
        /\ \A i \in 3..(r + 1) : p[i] = q[i - 1]
    BY <1>2, <1>3, <2>1, <2>4 DEF Astray
  <2>6. p[3] = b
    BY <2>1, <2>5
  <2>7. ASSUME NEW i \in 2..(r + 1)
        PROVE  m[p[i]].prev = p[i - 1] /\ p[i] \in v \cup {y}
    <3>1. CASE i = 2
      BY <2>3, <2>5, <3>1 DEF InsertedInto
    <3>2. CASE i = 3
      BY <2>2, <2>3, <2>5, <2>6, <3>2 DEF InsertedInto
    <3>3. CASE i > 3
      <4>1. /\ i - 1 \in 2..r /\ i - 1 # 2 /\ i - 1 \in 3..(r + 1)
            /\ p[i] = q[i - 1] /\ p[i - 1] = q[(i - 1) - 1]
        BY <2>5, <3>3
      <4>2. q[i - 1] \in v /\ q[i - 1] # b /\ k[q[i - 1]].prev = q[(i - 1) - 1]
        BY <2>1, <4>1 DEF Astray
      <4>3. m[q[i - 1]].prev = k[q[i - 1]].prev
        BY <2>3, <4>2 DEF InsertedInto
      <4> QED
        BY <4>1, <4>2, <4>3
    <3> QED
      BY <3>1, <3>2, <3>3
  <2>8. ASSUME NEW i \in 2..(r + 1), NEW j \in 2..(r + 1), p[i] = p[j] PROVE i = j
    <3>1. \A e \in 3..(r + 1) : p[e] = q[e - 1] /\ e - 1 \in 2..r /\ p[e] # y
      BY <2>5 DEF Astray
    <3>2. CASE i = 2 \/ j = 2
      BY <2>5, <2>8, <3>1, <3>2
    <3>3. CASE i # 2 /\ j # 2
      <4>1. i - 1 \in 2..r /\ j - 1 \in 2..r /\ q[i - 1] = q[j - 1]
        BY <2>8, <3>1, <3>3
      <4>2. i - 1 = j - 1
        BY <4>1 DEF Astray
      <4> QED
        BY <4>2
    <3> QED
      BY <3>2, <3>3
  <2>9. p[1] \in v \cup {y} => \E i \in 2..(r + 1) : p[i] = p[1]
    BY <2>1, <2>5
  <2>10. \A i \in 1..(r + 1) : p[i] # h
    BY <1>1, <1>3, <2>1, <2>4 DEF Astray
  <2>11. r + 1 >= 2 /\ p[1] = p[r + 1] /\ m[p[r + 1]].next = p[2]
    BY <1>3, <2>2, <2>3, <2>5 DEF InsertedInto
  <2>12. Astray(p, r + 1, m, v \cup {y}, h)
    BY <2>5, <2>7, <2>8, <2>9, <2>10, <2>11 DEF Astray
  <2> QED
    BY <1>2, <1>5, <1>7, <2>3, <2>5, <2>12 DEF GoesAstray
<1> QED
  BY <1>6, <1>7

-----------------------------------------------------------------------------
(***************************************************************************)
(* The pieces in use, ps, with the free marks f, the blocks v and the      *)
(* block h the heap lives in.  Top is TopAfter of any sequence of pieces.  *)
(***************************************************************************)
Handed == [block : Blocks, offset : Nat, size : Nat]

Top(ps, h, k) ==
  IF k = 0 THEN <<h, Header>>
           ELSE <<ps[k].block, ps[k].offset + Needed(ps[k].size)>>

Inside(ps, f, v) ==
  \A i \in 1..Len(ps) : /\ ps[i].block \in v
                        /\ ps[i].offset >= Header
                        /\ ps[i].offset % Alignment = 0
                        /\ ps[i].offset + Needed(ps[i].size) <= f[ps[i].block]

Disjoint(ps) ==
  \A i, j \in 1..Len(ps) : i < j /\ ps[i].block = ps[j].block =>
    ps[i].offset + Needed(ps[i].size) <= ps[j].offset

(* A piece begins where the piece before it ends, or in a block of its     *)
(* own.                                                                    *)
Stacked(ps, h) ==
  \A i \in 1..Len(ps) :
    \/ <<ps[i].block, ps[i].offset>> = Top(ps, h, i - 1)
    \/ ps[i].offset = Header /\ ps[i].block # h

Filled(f, e, v) == \A b \in v : Header <= f[b] /\ f[b] <= e[b]

(* Where a piece ends.                                                     *)
LEMMA PieceEnds ==
  ASSUME NEW ps \in Seq(Handed), NEW i \in 1..Len(ps)
  PROVE  /\ ps[i].block \in Blocks /\ ps[i].offset \in Nat /\ ps[i].size \in Nat
         /\ Needed(ps[i].size) \in Nat /\ Needed(ps[i].size) >= ps[i].size
         /\ Needed(ps[i].size) % Alignment = 0
<1>1. ps[i] \in Handed
  OBVIOUS
<1>2. ps[i].block \in Blocks /\ ps[i].offset \in Nat /\ ps[i].size \in Nat
  BY <1>1 DEF Handed
<1> QED
  BY <1>2, NeededIsEnough

LEMMA AlignedSum ==
  ASSUME NEW m \in Nat, NEW n \in Nat, m % Alignment = 0, n % Alignment = 0
  PROVE  (m + n) % Alignment = 0
<1>1. Alignment \in Nat \ {0}
  BY HeapAssumption
<1>2. PICK p \in Int, c \in 0..(Alignment - 1) :
        p = m \div Alignment /\ c = m % Alignment /\ m = Alignment * p + c
  BY <1>1
<1>3. PICK q \in Int, d \in 0..(Alignment - 1) :
        q = n \div Alignment /\ d = n % Alignment /\ n = Alignment * q + d
  BY <1>1
<1>4. m + n = (p + q) * Alignment
  BY <1>1, <1>2, <1>3
<1>5. ((p + q) * Alignment) % Alignment = 0
  BY <1>1
<1> QED
  BY <1>4, <1>5

(* The top lies in one of the blocks and is aligned.                       *)
LEMMA TopIsPlace ==
  ASSUME NEW ps \in Seq(Handed), NEW v \in SUBSET Blocks, NEW h \in v,
         NEW f, Inside(ps, f, v), NEW k \in 0..Len(ps),
         NEW c, NEW o, <<c, o>> = Top(ps, h, k)
  PROVE  /\ c \in v /\ o \in Nat /\ o >= Header /\ o % Alignment = 0
         /\ k # 0 => o <= f[c]
<1>1. Header \in Nat /\ Header % Alignment = 0
  BY HeapAssumption
<1>2. CASE k = 0
  BY <1>1, <1>2 DEF Top
<1>3. CASE k # 0
  <2>1. k \in 1..Len(ps)
    BY <1>3
  <2>2. c = ps[k].block /\ o = ps[k].offset + Needed(ps[k].size)
    BY <1>3 DEF Top
  <2>3. /\ ps[k].block \in v /\ ps[k].offset >= Header /\ ps[k].offset % Alignment = 0
        /\ ps[k].offset + Needed(ps[k].size) <= f[ps[k].block]
    BY <2>1 DEF Inside
  <2>4. ps[k].offset \in Nat /\ Needed(ps[k].size) \in Nat
        /\ Needed(ps[k].size) % Alignment = 0
    BY <2>1, PieceEnds
  <2>5. o % Alignment = 0
    BY <2>2, <2>3, <2>4, AlignedSum
  <2> QED
    BY <1>1, <2>2, <2>3, <2>4, <2>5
<1> QED
  BY <1>2, <1>3

(* A piece more, on top or at the beginning of a block of its own.         *)
Raised(g, f, v) == \A c \in v : f[c] <= g[c]

Stacks(t, g, v, h, b, e) ==
  /\ t \in Seq(Handed) /\ Inside(t, g, v) /\ Disjoint(t) /\ Stacked(t, h)
  /\ <<b, e>> = Top(t, h, Len(t))

LEMMA PieceAdded ==
  ASSUME NEW ps \in Seq(Handed), NEW v \in SUBSET Blocks, NEW h \in v,
         NEW f \in [Blocks -> Nat], Inside(ps, f, v), Disjoint(ps), Stacked(ps, h),
         NEW b \in Blocks, NEW o \in Nat, NEW n \in Nat, o >= Header, o % Alignment = 0,
         NEW g \in [Blocks -> Nat], o + Needed(n) <= g[b],
         Raised(g, f, v),
         b \in v => f[b] <= o,
         <<b, o>> = Top(ps, h, Len(ps)) \/ (o = Header /\ b # h),
         NEW t, t = Append(ps, Piece(b, o, n))
  PROVE  Stacks(t, g, v \cup {b}, h, b, o + Needed(n))
<1>1. PICK e : e = Piece(b, o, n)
  OBVIOUS
<1>2. e \in Handed /\ e.block = b /\ e.offset = o /\ e.size = n
  BY <1>1 DEF Piece, Handed
<1>3. /\ t \in Seq(Handed) /\ Len(t) = Len(ps) + 1 /\ Len(ps) \in Nat
      /\ t[Len(ps) + 1] = e
  BY <1>1, <1>2
<1>4. \A i \in 1..Len(ps) : t[i] = ps[i]
  BY <1>1, <1>2
<1>5. Inside(t, g, v \cup {b})
  <2>1. ASSUME NEW i \in 1..Len(t)
        PROVE  /\ t[i].block \in v \cup {b} /\ t[i].offset >= Header
               /\ t[i].offset % Alignment = 0
               /\ t[i].offset + Needed(t[i].size) <= g[t[i].block]
    <3>1. CASE i = Len(ps) + 1
      BY <1>2, <1>3, <3>1
    <3>2. CASE i # Len(ps) + 1
      <4>1. i \in 1..Len(ps) /\ t[i] = ps[i]
        BY <1>3, <1>4, <3>2
      <4>2. /\ ps[i].block \in v /\ ps[i].offset >= Header
            /\ ps[i].offset % Alignment = 0
            /\ ps[i].offset + Needed(ps[i].size) <= f[ps[i].block]
        BY <4>1 DEF Inside
      <4>3. f[ps[i].block] <= g[ps[i].block] /\ ps[i].block \in Blocks
        BY <4>2 DEF Raised
      <4>4. ps[i].offset \in Nat /\ Needed(ps[i].size) \in Nat
        BY <4>1, PieceEnds
      <4>5. f[ps[i].block] \in Nat /\ g[ps[i].block] \in Nat
        BY <4>3
      <4>6. ps[i].offset + Needed(ps[i].size) <= g[ps[i].block]
        <5>1. \A p, m, r, q \in Nat : p + m <= r /\ r <= q => p + m <= q
          OBVIOUS
        <5>2. ps[i].offset + Needed(ps[i].size) <= f[ps[i].block]
          BY <4>2
        <5>3. f[ps[i].block] <= g[ps[i].block]
          BY <4>3
        <5> QED
          BY <4>4, <4>5, <5>1, <5>2, <5>3
      <4> QED
        BY <4>1, <4>2, <4>6
    <3> QED
      BY <3>1, <3>2
  <2> QED
    BY <2>1 DEF Inside
<1>6. Disjoint(t)
  <2>1. ASSUME NEW i \in 1..Len(t), NEW j \in 1..Len(t), i < j, t[i].block = t[j].block
        PROVE  t[i].offset + Needed(t[i].size) <= t[j].offset
    <3>1. i \in 1..Len(ps) /\ t[i] = ps[i]
      BY <1>3, <1>4, <2>1
    <3>2. CASE j = Len(ps) + 1
      <4>1. ps[i].block \in v /\ ps[i].offset + Needed(ps[i].size) <= f[ps[i].block]
        BY <3>1 DEF Inside
      <4>2. ps[i].block = b /\ t[j].offset = o
        BY <1>2, <1>3, <2>1, <3>1, <3>2
      <4>3. ps[i].offset \in Nat /\ Needed(ps[i].size) \in Nat
        BY <3>1, PieceEnds
      <4>4. f[b] \in Nat /\ f[b] <= o
        BY <4>1, <4>2
      <4> QED
        BY <3>1, <4>1, <4>2, <4>3, <4>4
    <3>3. CASE j # Len(ps) + 1
      <4>1. j \in 1..Len(ps) /\ t[j] = ps[j]
        BY <1>3, <1>4, <3>3
      <4> QED
        BY <2>1, <3>1, <4>1 DEF Disjoint
    <3> QED
      BY <3>2, <3>3
  <2> QED
    BY <2>1 DEF Disjoint
<1>7. ASSUME NEW k \in 0..Len(ps) PROVE Top(t, h, k) = Top(ps, h, k)
  <2>1. k # 0 => k \in 1..Len(ps)
    BY <1>3
  <2>2. k # 0 => t[k] = ps[k]
    BY <1>4, <2>1
  <2> QED
    BY <2>2 DEF Top
<1>8. Stacked(t, h)
  <2>1. ASSUME NEW i \in 1..Len(t)
        PROVE  \/ <<t[i].block, t[i].offset>> = Top(t, h, i - 1)
               \/ t[i].offset = Header /\ t[i].block # h
    <3>1. CASE i = Len(ps) + 1
      <4>1. i - 1 = Len(ps) /\ Top(t, h, i - 1) = Top(ps, h, Len(ps))
        BY <1>3, <1>7, <3>1
      <4> QED
        BY <1>2, <1>3, <3>1, <4>1
    <3>2. CASE i # Len(ps) + 1
      <4>1. i \in 1..Len(ps) /\ t[i] = ps[i] /\ i - 1 \in 0..Len(ps)
        BY <1>3, <1>4, <3>2
      <4>2. Top(t, h, i - 1) = Top(ps, h, i - 1)
        BY <1>7, <4>1
      <4> QED
        BY <4>1, <4>2 DEF Stacked
    <3> QED
      BY <3>1, <3>2
  <2> QED
    BY <2>1 DEF Stacked
<1>9. <<b, o + Needed(n)>> = Top(t, h, Len(t))
  BY <1>2, <1>3 DEF Top
<1> QED
  BY <1>3, <1>5, <1>6, <1>8, <1>9 DEF Stacks

(* The first k pieces, with the free mark of their last block where they   *)
(* end.                                                                    *)
Dropped(t, ps, f, v, h, k) ==
  /\ t \in Seq(Handed) /\ Len(t) = k
  /\ Inside(t, f, v) /\ Disjoint(t) /\ Stacked(t, h)
  /\ Top(t, h, k) = Top(ps, h, k)

LEMMA PiecesDropped ==
  ASSUME NEW ps \in Seq(Handed), NEW v \in SUBSET Blocks, NEW h \in v,
         NEW f, Inside(ps, f, v), Disjoint(ps), Stacked(ps, h), NEW k \in 0..Len(ps),
         NEW t, t = SubSeq(ps, 1, k)
  PROVE  Dropped(t, ps, f, v, h, k)
<1>1. k \in Nat /\ t \in Seq(Handed) /\ Len(t) = k
  OBVIOUS
<1>2. \A i \in 1..k : i \in 1..Len(ps) /\ t[i] = ps[i]
  OBVIOUS
<1>3. Inside(t, f, v)
  BY <1>1, <1>2 DEF Inside
<1>4. Disjoint(t)
  <2>1. ASSUME NEW i \in 1..k, NEW j \in 1..k, i < j, t[i].block = t[j].block
        PROVE  t[i].offset + Needed(t[i].size) <= t[j].offset
    <3>1. i \in 1..Len(ps) /\ j \in 1..Len(ps) /\ t[i] = ps[i] /\ t[j] = ps[j]
      BY <1>2
    <3>2. ps[i].offset + Needed(ps[i].size) <= ps[j].offset
      BY <2>1, <3>1 DEF Disjoint
    <3> QED
      BY <3>1, <3>2
  <2> QED
    BY <1>1, <2>1 DEF Disjoint
<1>5. ASSUME NEW i \in 0..k PROVE Top(t, h, i) = Top(ps, h, i)
  <2>1. i # 0 => i \in 1..k
    BY <1>1
  <2>2. i # 0 => t[i] = ps[i]
    BY <1>2, <2>1
  <2> QED
    BY <2>2 DEF Top
<1>6. Stacked(t, h)
  BY <1>1, <1>2, <1>5 DEF Stacked
<1> QED
  BY <1>1, <1>3, <1>4, <1>5, <1>6 DEF Dropped

LEMMA MarkLowered ==
  ASSUME NEW ps \in Seq(Handed), NEW v \in SUBSET Blocks, NEW h \in v,
         NEW f \in [Blocks -> Nat], Inside(ps, f, v), Disjoint(ps),
         NEW c, NEW o, <<c, o>> = Top(ps, h, Len(ps)),
         NEW g, g = [f EXCEPT ![c] = o]
  PROVE  Inside(ps, g, v)
<1>1. c \in v /\ o \in Nat
  <2>1. PICK z \in 0..Len(ps) : z = Len(ps)
    OBVIOUS
  <2>2. <<c, o>> = Top(ps, h, z)
    BY <2>1
  <2> QED
    BY <2>2, TopIsPlace
<1>2. ASSUME NEW i \in 1..Len(ps)
      PROVE  ps[i].offset + Needed(ps[i].size) <= g[ps[i].block]
  <2>1. ps[i].block \in v /\ ps[i].offset + Needed(ps[i].size) <= f[ps[i].block]
    BY DEF Inside
  <2>2. CASE ps[i].block # c
    BY <2>1, <2>2
  <2>3. CASE ps[i].block = c
    <3>1. Len(ps) \in 1..Len(ps)
      OBVIOUS
    <3>2. PICK z : z = Len(ps)
      OBVIOUS
    <3>3. c = ps[z].block /\ o = ps[z].offset + Needed(ps[z].size) /\ g[c] = o
      BY <1>1, <3>1, <3>2 DEF Top
    <3>4. CASE i = z
      BY <2>3, <3>3, <3>4
    <3>5. CASE i # z
      <4>1. ps[i].offset + Needed(ps[i].size) <= ps[z].offset
        BY <2>3, <3>1, <3>2, <3>3, <3>5 DEF Disjoint
      <4>2. ps[z].offset \in Nat /\ Needed(ps[z].size) \in Nat
            /\ ps[i].offset \in Nat /\ Needed(ps[i].size) \in Nat
        BY <3>1, <3>2, PieceEnds
      <4>3. \A p, m, q, r \in Nat : p + m <= q => p + m <= q + r
        OBVIOUS
      <4>4. ps[i].offset + Needed(ps[i].size) <= ps[z].offset + Needed(ps[z].size)
        BY <4>1, <4>2, <4>3
      <4> QED
        BY <2>3, <3>3, <4>4
    <3> QED
      BY <3>4, <3>5
  <2> QED
    BY <2>2, <2>3
<1> QED
  BY <1>2 DEF Inside

-----------------------------------------------------------------------------
(***************************************************************************)
(* The inductive invariant.  While the program runs there is no heap, or   *)
(* the heap is whole, or a call is freeing its blocks, or the last of them *)
(* is freed, or block_free has left base.last behind in a block it gave    *)
(* back: then the chain backwards from there is astray for good, and what  *)
(* is known of it is just enough to bring mem_heap_free to its end.        *)
(***************************************************************************)
HeapTypes ==
  /\ links \in Links(Blocks) /\ base \in Headers
  /\ len \in [Blocks -> Nat] /\ free \in [Blocks -> Nat] /\ total \in Nat
  /\ live \in SUBSET Blocks /\ heap \in Blocks \cup {NoNode}
  /\ pieces \in Seq(Handed)
  /\ op \in {"none", "free", "free_heap_top"}
  /\ op = "free_heap_top" =>
       \E b \in Blocks, o \in Nat : oldTop = <<b, o>>
  /\ op = "free" => pieces = <<>>

(* The blocks v, hanging together from the block h of the heap on.         *)
Hanging(s, n, k, v, h) ==
  Path(s, n, Blocks) /\ Threaded(s, n, k) /\ h = s[1] /\ NodesOf(s, n) = v

Kept(ps, f, e, v, h) ==
  Filled(f, e, v) /\ Inside(ps, f, v) /\ Disjoint(ps) /\ Stacked(ps, h)

NoHeap ==
  /\ heap = NoNode /\ op = "none" /\ live = {} /\ base = EmptyList
  /\ ~dangling /\ pieces = <<>>

(* The top is on the newest piece, or will be when the call is done.       *)
AtTop ==
  /\ op = "none" => <<base.last, free[base.last]>> = Top(pieces, heap, Len(pieces))
  /\ op # "none" => cursor = base.last
  /\ op = "free_heap_top" =>
       oldTop = Top(pieces, heap, Len(pieces)) /\ oldTop[2] <= free[oldTop[1]]

IsWhole ==
  /\ \E n \in Nat \ {0} : \E s :
       Hanging(s, n, links, live, heap) /\ base = HeaderOf(s, n)
  /\ total = SumOf(len, live)
  /\ Kept(pieces, free, len, live, heap)
  /\ AtTop
  /\ ~dangling

(* The block base.last points to was given back.                           *)
LeftBehind(x, k, v, h) == x \in Blocks \ v /\ x # h /\ k[x].next = NoNode

IsUnwinding ==
  /\ \E n \in Nat \ {0} : \E s : Hanging(s, n, links, live, heap) /\ cursor = s[n]
  /\ LeftBehind(base.last, links, live, heap)
  /\ op # "none"
  /\ op = "free_heap_top" => oldTop[1] \in live /\ oldTop[2] <= free[oldTop[1]]
  /\ dangling

IsEmptied ==
  op = "free" /\ cursor = NoNode /\ live = {} /\ heap \in Blocks

IsAstray ==
  /\ heap \in live
  /\ \E r \in Nat \ {0} : \E q :
       /\ Astray(q, r, links, live, heap)
       /\ op = "none" => q[r] = base.last
       /\ op # "none" => q[r] = cursor
  /\ op # "none" => base.last = cursor \/ LeftBehind(base.last, links, live, heap)
  /\ dangling

HeapInv ==
  outcome = "running" =>
    HeapTypes /\ (NoHeap \/ IsWhole \/ IsUnwinding \/ IsEmptied \/ IsAstray)

-----------------------------------------------------------------------------
(***************************************************************************)
(* The chain of a heap that is whole, as it grows and comes apart.         *)
(***************************************************************************)
LEMMA HangingEnds ==
  ASSUME NEW n \in Nat \ {0}, NEW s, NEW k, NEW v, NEW h, Hanging(s, n, k, v, h)
  PROVE  /\ h \in v /\ s[n] \in v /\ v \subseteq Blocks
         /\ s[1] \in Blocks /\ s[n] \in Blocks
         /\ k[s[n]].prev = s[n - 1] /\ k[s[n]].next = NoNode
<1>1. 1 \in 1..n /\ n \in 1..n
  OBVIOUS
<1>2. s[1] \in v /\ s[n] \in v /\ h \in v
  BY <1>1 DEF Hanging, NodesOf
<1>3. \A i \in 1..n : s[i] \in Blocks
  BY DEF Hanging, Path
<1>4. v \subseteq Blocks
  BY <1>3 DEF Hanging, NodesOf
<1>5. k[s[n]].prev = s[n - 1] /\ k[s[n]].next = s[n + 1]
  BY <1>1 DEF Hanging, Threaded
<1>6. s[n + 1] = NoNode
  BY DEF Hanging, Path
<1> QED
  BY <1>1, <1>2, <1>3, <1>4, <1>5, <1>6

Grows(r, n, v, h, y) ==
  /\ r.links \in Links(Blocks) /\ r.list.last = y
  /\ \E w : /\ Hanging(w, n + 1, r.links, v \cup {y}, h)
            /\ r.list = HeaderOf(w, n + 1)

LEMMA HangingGrows ==
  ASSUME NEW n \in Nat \ {0}, NEW s, NEW k \in Links(Blocks), NEW v, NEW h,
         Hanging(s, n, k, v, h), NEW l, l = HeaderOf(s, n),
         NEW y \in Blocks, y \notin v, NEW r, r = ListInsertAfter(l, k, l.last, y)
  PROVE  Grows(r, n, v, h, y)
<1>1. NoNode \notin Blocks /\ n \in 1..n /\ n \in Nat
  BY HeapAssumption
<1>2. PICK w : Widens(w, s, n, n, y)
  BY DEF Widens
<1>3. Along(s, n, Blocks, l, k) /\ Path(s, n, Blocks)
  BY DEF Along, Hanging
<1>4. y \notin NodesOf(s, n)
  BY DEF Hanging
<1>5. r = ListInsertAfter(l, k, s[n], y)
  BY DEF HeaderOf
<1>6. r.links \in Links(Blocks) /\ Along(w, n + 1, Blocks, r.list, r.links)
  BY <1>1, <1>2, <1>3, <1>4, <1>5, InsertAfterWidens
<1>7. n \in 0..n
  OBVIOUS
<1>8. NodesOf(w, n + 1) = NodesOf(s, n) \cup {y}
  BY <1>1, <1>2, <1>3, <1>4, <1>7, WidenedPath
<1>9. w[1] = s[1] /\ w[n + 1] = y
  BY <1>2 DEF Widens
<1>10. Hanging(w, n + 1, r.links, v \cup {y}, h)
  BY <1>6, <1>8, <1>9 DEF Along, Hanging
<1>11. r.list = HeaderOf(w, n + 1)
  BY <1>6 DEF Along
<1> QED
  BY <1>6, <1>9, <1>10, <1>11 DEF HeaderOf, Grows

Single(r, y) ==
  /\ r.links \in Links(Blocks) /\ r.list.last = y
  /\ \E w : Hanging(w, 1, r.links, {y}, y) /\ r.list = HeaderOf(w, 1)

LEMMA HangingBegins ==
  ASSUME NEW k \in Links(Blocks), NEW y \in Blocks, NEW r, r = ListAddFirst(EmptyList, k, y)
  PROVE  Single(r, y)
<1>1. NoNode \notin Blocks
  BY HeapAssumption
<1>2. PICK s : s = [i \in 0..1 |-> NoNode]
  OBVIOUS
<1>3. PICK n \in Nat : n = 0
  OBVIOUS
<1>4. PICK w : Widens(w, s, n, 0, y)
  BY DEF Widens
<1>5. NodesOf(s, n) = {}
  BY <1>3 DEF NodesOf
<1>6. Path(s, n, Blocks) /\ Threaded(s, n, k)
  BY <1>2, <1>3 DEF Path, Threaded
<1>7. EmptyList = HeaderOf(s, n)
  BY <1>2, <1>3 DEF HeaderOf, EmptyList
<1>8. Along(s, n, Blocks, EmptyList, k)
  BY <1>6, <1>7 DEF Along
<1>9. y \notin NodesOf(s, n)
  BY <1>5
<1>10. r.links \in Links(Blocks) /\ Along(w, n + 1, Blocks, r.list, r.links)
  BY <1>1, <1>4, <1>8, <1>9, AddFirstWidens
<1>11. 0 \in 0..n
  BY <1>3
<1>12. NodesOf(w, n + 1) = NodesOf(s, n) \cup {y}
  BY <1>1, <1>4, <1>6, <1>9, <1>11, WidenedPath
<1>13. w[1] = y /\ n + 1 = 1
  BY <1>3, <1>4 DEF Widens
<1>14. NodesOf(w, 1) = {y}
  BY <1>5, <1>12, <1>13
<1>15. Along(w, 1, Blocks, r.list, r.links)
  BY <1>10, <1>13
<1>16. Hanging(w, 1, r.links, {y}, y) /\ r.list = HeaderOf(w, 1)
  BY <1>13, <1>14, <1>15 DEF Along, Hanging
<1> QED
  BY <1>10, <1>13, <1>16 DEF HeaderOf, Single

(* The last block of the chain, x, is freed, under whatever header.        *)
Shrinks(m, n, k, x, v, h) ==
  /\ m \in Links(Blocks) /\ m[x].next = NoNode /\ x \in v
  /\ \A z \in Blocks \ v : k[z].next = NoNode => m[z].next = NoNode
  /\ x = h => k[x].prev = NoNode /\ v \ {x} = {}
  /\ x # h => \E w : /\ Hanging(w, n - 1, m, v \ {x}, h)
                     /\ k[x].prev = w[n - 1] /\ n - 1 \in Nat \ {0}

LEMMA HangingShrinks ==
  ASSUME NEW n \in Nat \ {0}, NEW s, NEW k \in Links(Blocks), NEW v \in SUBSET Blocks,
         NEW h, Hanging(s, n, k, v, h), NEW x, x = s[n], NEW l,
         NEW m, m = ListRemove(l, k, x).links
  PROVE  Shrinks(m, n, k, x, v, h)
<1>1. NoNode \notin Blocks /\ n \in 1..n /\ n \in Nat
  BY HeapAssumption
<1>2. x \in v /\ x \in Blocks /\ h \in v /\ k[x].prev = s[n - 1] /\ k[x].next = NoNode
  BY HangingEnds
<1>3. PICK a, b : a = k[x].prev /\ b = k[x].next
  OBVIOUS
<1>4. m \in Links(Blocks) /\ RemovedFrom(m, k, x, a, b, Blocks)
  BY <1>1, <1>2, <1>3, Removed
<1>5. b = NoNode /\ a = s[n - 1]
  BY <1>2, <1>3
<1>6. m[x].next = NoNode
  BY <1>4 DEF RemovedFrom
<1>7. a \in v \/ a = NoNode
  <2>1. CASE n = 1
    BY <1>5, <2>1 DEF Hanging, Path
  <2>2. CASE n # 1
    BY <1>5, <2>2 DEF Hanging, NodesOf
  <2> QED
    BY <2>1, <2>2
<1>8. \A z \in Blocks \ v : k[z].next = NoNode => m[z].next = NoNode
  BY <1>1, <1>2, <1>4, <1>7 DEF RemovedFrom
<1>9. x = h <=> n = 1
  BY <1>1 DEF Hanging, Path
<1>10. ASSUME n = 1 PROVE k[x].prev = NoNode /\ v \ {x} = {}
  <2>1. s[n - 1] = NoNode
    BY <1>10 DEF Hanging, Path
  <2>2. v = {s[i] : i \in 1..1}
    BY <1>10 DEF Hanging, NodesOf
  <2> QED
    BY <1>2, <1>10, <2>1, <2>2
<1>11. ASSUME n # 1
       PROVE  \E w : Hanging(w, n - 1, m, v \ {x}, h) /\ k[x].prev = w[n - 1]
  <2>1. PICK w : Narrows(w, s, n, n)
    BY DEF Narrows
  <2>2. PICK e : e = HeaderOf(s, n)
    OBVIOUS
  <2>3. Along(s, n, Blocks, e, k) /\ Path(s, n, Blocks)
    BY <2>2 DEF Along, Hanging
  <2>4. PICK t : t = ListRemove(e, k, s[n])
    OBVIOUS
  <2>5. Along(w, n - 1, Blocks, t.list, t.links)
    BY <1>1, <2>1, <2>3, <2>4, RemoveNarrows
  <2>6. NodesOf(w, n - 1) = NodesOf(s, n) \ {s[n]}
    BY <1>1, <2>1, <2>3, NarrowedPath
  <2>7. t.links = m
    BY <2>4 DEF ListRemove
  <2>8. w[1] = s[1] /\ w[n - 1] = s[n - 1]
    BY <1>11, <2>1 DEF Narrows
  <2>9. Hanging(w, n - 1, m, v \ {x}, h)
    BY <2>5, <2>6, <2>7, <2>8 DEF Along, Hanging
  <2> QED
    BY <1>2, <2>8, <2>9
<1>12. n # 1 => n - 1 \in Nat \ {0}
  OBVIOUS
<1> QED
  BY <1>2, <1>4, <1>6, <1>8, <1>9, <1>10, <1>11, <1>12 DEF Shrinks

LEMMA HeaderRemoved ==
  ASSUME NEW l \in Headers, NEW k \in Links(Blocks), NEW x \in Blocks
  PROVE  ListRemove(l, k, x).list \in Headers
<1>1. k[x].prev \in Blocks \cup {NoNode} /\ k[x].next \in Blocks \cup {NoNode}
  BY DEF Links, Link
<1> QED
  BY <1>1 DEF Headers, ListRemove

-----------------------------------------------------------------------------
(* mem_heap_block_free, as far as the program goes on.                     *)
LEMMA BlockFreed ==
  ASSUME HeapTypes, NEW b \in Blocks, BlockFree(b), outcome' = "running"
  PROVE  /\ b \in live /\ live' = live \ {b} /\ total' \in Nat
         /\ links' = ListRemove(base, links, b).links
         /\ base' \in Headers
         /\ b # heap => base' = base
         /\ dangling' <=> (dangling \/ (b # heap /\ base.last = b))
<1>1. base \in Headers /\ links \in Links(Blocks) /\ total \in Nat /\ len[b] \in Nat
  BY DEF HeapTypes
<1>2. PICK r : r = ListRemove(base, links, b)
  OBVIOUS
<1>3. r.list \in Headers
  BY <1>1, <1>2, HeaderRemoved
<1>4. links' = r.links /\ base' = IF b = heap THEN r.list ELSE base
  BY <1>2 DEF BlockFree
<1>5. dangling' <=> (dangling \/ (b # heap /\ base.last = b))
  BY DEF BlockFree
<1>6. /\ total >= len[b] /\ total' = total - len[b] /\ live' = live \ {b}
      /\ outcome' = IF b \in live THEN "running" ELSE "double free"
  BY DEF BlockFree
<1> QED
  BY <1>1, <1>2, <1>3, <1>4, <1>5, <1>6

(* One block further back, in mem_heap_free or mem_heap_free_heap_top.     *)
StepsBack ==
  /\ outcome = "running" /\ op # "none" /\ cursor # NoNode
  /\ op = "free_heap_top" => ~Includes(cursor, oldTop)
  /\ cursor' = links[cursor].prev
  /\ BlockFree(cursor)
  /\ UNCHANGED <<heap, len, free, op, oldTop, pieces>>

LEMMA WholeCursor ==
  ASSUME HeapTypes, IsWhole
  PROVE  /\ base.last \in live /\ heap \in live /\ links[base.last].next = NoNode
         /\ base.last \in Blocks /\ heap \in Blocks /\ NoNode \notin Blocks
         /\ op # "none" => cursor = base.last
<1>1. PICK n \in Nat \ {0} : \E s : Hanging(s, n, links, live, heap) /\ base = HeaderOf(s, n)
  BY DEF IsWhole
<1>2. PICK s : Hanging(s, n, links, live, heap) /\ base = HeaderOf(s, n)
  BY <1>1
<1>3. base.last = s[n]
  BY <1>2 DEF HeaderOf
<1>4. s[n] \in live /\ heap \in live /\ links[s[n]].next = NoNode /\ live \subseteq Blocks
  BY <1>2, HangingEnds
<1>5. op # "none" => cursor = base.last
  BY DEF IsWhole, AtTop
<1> QED
  BY <1>3, <1>4, <1>5, HeapAssumption

(* A whole heap that a call is about to take apart hangs from its cursor.  *)
LEMMA WholeHangs ==
  ASSUME HeapTypes, IsWhole, op # "none"
  PROVE  /\ \E n \in Nat \ {0} : \E s : Hanging(s, n, links, live, heap) /\ cursor = s[n]
         /\ base.last = cursor
         /\ op = "free_heap_top" => oldTop[1] \in live /\ oldTop[2] <= free[oldTop[1]]
<1>1. PICK n \in Nat \ {0} : \E s : Hanging(s, n, links, live, heap) /\ base = HeaderOf(s, n)
  BY DEF IsWhole
<1>2. PICK s : Hanging(s, n, links, live, heap) /\ base = HeaderOf(s, n)
  BY <1>1
<1>3. cursor = base.last
  BY WholeCursor
<1>4. cursor = s[n]
  BY <1>2, <1>3 DEF HeaderOf
<1>5. ASSUME op = "free_heap_top"
      PROVE  oldTop[1] \in live /\ oldTop[2] <= free[oldTop[1]]
  <2>1. oldTop = Top(pieces, heap, Len(pieces)) /\ oldTop[2] <= free[oldTop[1]]
    BY <1>5 DEF IsWhole, AtTop
  <2>2. PICK b \in Blocks, o \in Nat : oldTop = <<b, o>>
    BY <1>5 DEF HeapTypes
  <2>3. PICK z \in 0..Len(pieces) : z = Len(pieces)
    BY DEF HeapTypes
  <2>4. <<b, o>> = Top(pieces, heap, z)
    BY <2>1, <2>2, <2>3
  <2>5. Inside(pieces, free, live) /\ pieces \in Seq(Handed) /\ live \in SUBSET Blocks
    BY DEF IsWhole, Kept, HeapTypes
  <2>6. heap \in live
    BY WholeCursor
  <2>7. b \in live
    BY <2>4, <2>5, <2>6, TopIsPlace
  <2> QED
    BY <2>1, <2>2, <2>7
<1> QED
  BY <1>2, <1>3, <1>4, <1>5

LEMMA StepBackTypes ==
  ASSUME HeapTypes, StepsBack, outcome' = "running", cursor \in Blocks,
         links' \in Links(Blocks)
  PROVE  HeapTypes'
<1>1. BlockFree(cursor)
  BY DEF StepsBack
<1>2. /\ live' = live \ {cursor} /\ total' \in Nat /\ base' \in Headers
  BY <1>1, BlockFreed
<1> QED
  BY <1>2 DEF HeapTypes, StepsBack

LEMMA HangingStepsBack ==
  ASSUME HeapTypes, StepsBack, outcome' = "running",
         \E n \in Nat \ {0} : \E s : Hanging(s, n, links, live, heap) /\ cursor = s[n],
         base.last = cursor \/ LeftBehind(base.last, links, live, heap),
         base.last # cursor => dangling,
         op = "free_heap_top" => oldTop[1] \in live /\ oldTop[2] <= free[oldTop[1]]
  PROVE  HeapTypes' /\ (IsUnwinding \/ IsEmptied)'
<1>1. PICK n \in Nat \ {0} : \E s : Hanging(s, n, links, live, heap) /\ cursor = s[n]
  OBVIOUS
<1>2. PICK s : Hanging(s, n, links, live, heap) /\ cursor = s[n]
  BY <1>1
<1>3. /\ links \in Links(Blocks) /\ live \in SUBSET Blocks
      /\ op \in {"none", "free", "free_heap_top"}
  BY DEF HeapTypes
<1>4. cursor \in live /\ heap \in live /\ cursor \in Blocks /\ heap \in Blocks
  BY <1>2, <1>3, HangingEnds
<1>0. BlockFree(cursor)
  BY DEF StepsBack
<1>5. /\ live' = live \ {cursor} /\ links' = ListRemove(base, links, cursor).links
      /\ cursor # heap => base' = base
      /\ dangling' <=> (dangling \/ (cursor # heap /\ base.last = cursor))
  BY <1>0, <1>4, BlockFreed
<1>6. /\ op # "none" /\ (op = "free_heap_top" => ~Includes(cursor, oldTop))
      /\ cursor' = links[cursor].prev
      /\ heap' = heap /\ op' = op /\ oldTop' = oldTop /\ free' = free
  BY DEF StepsBack
<1>7. PICK m, w, h : m = links' /\ w = live' /\ h = heap
  OBVIOUS
<1>13. m = ListRemove(base, links, cursor).links /\ w = live \ {cursor}
  BY <1>5, <1>7
<1>15. cursor = s[n]
  BY <1>2
<1>14. Hanging(s, n, links, live, h)
  BY <1>2, <1>7
<1>16. Shrinks(m, n, links, cursor, live, h)
  BY <1>3, <1>13, <1>14, <1>15, HangingShrinks
<1>8. /\ m \in Links(Blocks) /\ m[cursor].next = NoNode
      /\ \A z \in Blocks \ live : links[z].next = NoNode => m[z].next = NoNode
      /\ cursor = h => links[cursor].prev = NoNode /\ w = {}
      /\ cursor # h => \E t : /\ Hanging(t, n - 1, m, w, h)
                              /\ links[cursor].prev = t[n - 1] /\ n - 1 \in Nat \ {0}
  BY <1>13, <1>16 DEF Shrinks
<1>9. HeapTypes'
  BY <1>4, <1>7, <1>8, StepBackTypes
<1>10. ASSUME op = "free_heap_top" PROVE cursor # oldTop[1]
  BY <1>6, <1>10 DEF Includes
<1>11. CASE cursor = heap
  <2>1. op = "free"
    <3>1. ASSUME op = "free_heap_top" PROVE FALSE
      <4>1. oldTop[1] \in live /\ live \ {cursor} = {}
        BY <1>5, <1>7, <1>8, <1>11, <3>1
      <4> QED
        BY <1>10, <3>1, <4>1
    <3> QED
      BY <1>3, <1>6, <3>1
  <2>2. op' = "free" /\ cursor' = NoNode /\ live' = {} /\ heap' \in Blocks
    BY <1>4, <1>6, <1>7, <1>8, <1>11, <2>1
  <2>3. IsEmptied'
    BY <2>2 DEF IsEmptied
  <2> QED
    BY <1>9, <2>3
<1>12. CASE cursor # heap
  <2>1. PICK t : /\ Hanging(t, n - 1, m, w, h)
                 /\ links[cursor].prev = t[n - 1] /\ n - 1 \in Nat \ {0}
    BY <1>7, <1>8, <1>12
  <2>2. Hanging(t, n - 1, m, w, h)' /\ cursor' = t[n - 1]
    BY <1>6, <2>1
  <2>3. \E e \in Nat \ {0} : \E q : Hanging(q, e, links', live', heap') /\ cursor' = q[e]
    BY <1>6, <1>7, <2>1
  <2>4. base'.last = base.last
    BY <1>5, <1>12
  <2>5. LeftBehind(base.last, m, w, h)
    <3>1. CASE base.last = cursor
      BY <1>4, <1>5, <1>7, <1>8, <1>12, <3>1 DEF LeftBehind
    <3>2. CASE base.last # cursor
      BY <1>5, <1>7, <1>8, <3>2 DEF LeftBehind
    <3> QED
      BY <3>1, <3>2
  <2>6. LeftBehind(base'.last, links', live', heap')
    BY <1>6, <1>7, <2>4, <2>5
  <2>7. dangling'
    BY <1>5, <1>12
  <2>8. op' # "none"
    BY <1>6
  <2>9. op' = "free_heap_top" => oldTop'[1] \in live' /\ oldTop'[2] <= free'[oldTop'[1]]
    BY <1>5, <1>6, <1>10
  <2>10. IsUnwinding'
    BY <2>3, <2>6, <2>7, <2>8, <2>9 DEF IsUnwinding
  <2> QED
    BY <1>9, <2>10
<1> QED
  BY <1>11, <1>12

(* Freeing the block x that a heap astray looks at.                        *)
LEMMA AstrayFreed ==
  ASSUME HeapTypes, heap \in live, dangling, NEW x,
         \E r \in Nat \ {0} : \E q : Astray(q, r, links, live, heap) /\ q[r] = x,
         base.last = x \/ LeftBehind(base.last, links, live, heap),
         BlockFree(x), outcome' = "running"
  PROVE  /\ x \in Blocks /\ x # heap /\ live' = live \ {x}
         /\ links' \in Links(Blocks) /\ heap \in live'
         /\ base' = base /\ dangling'
         /\ links[x].prev # NoNode
         /\ LeftBehind(base.last, links', live', heap)
         /\ \E r \in Nat \ {0} : \E q : /\ Astray(q, r, links', live', heap)
                                        /\ q[r] = links[x].prev
<1>1. PICK r \in Nat \ {0} : \E q : Astray(q, r, links, live, heap) /\ q[r] = x
  OBVIOUS
<1>2. PICK q : Astray(q, r, links, live, heap) /\ q[r] = x
  BY <1>1
<1>3. r \in 1..r
  OBVIOUS
<1>4. x \in Blocks
  BY <1>2, <1>3 DEF Astray
<1>5. /\ x \in live /\ live' = live \ {x}
      /\ links' = ListRemove(base, links, x).links
      /\ x # heap => base' = base
      /\ dangling' <=> (dangling \/ (x # heap /\ base.last = x))
  BY <1>4, BlockFreed
<1>6. /\ heap \in live /\ live \in SUBSET Blocks /\ links \in Links(Blocks) /\ dangling
      /\ base.last = x \/ LeftBehind(base.last, links, live, heap)
  BY DEF HeapTypes
<1>7. PICK m : m = ListRemove(base, links, x).links
  OBVIOUS
<1>8. x = q[r]
  BY <1>2
<1>9. /\ r >= 2 /\ m \in Links(Blocks) /\ x # heap
      /\ m[x].next = NoNode
      /\ links[x].prev \in Blocks
      /\ \A z \in Blocks \ live : links[z].next = NoNode => m[z].next = NoNode
      /\ \E p : Astray(p, r - 1, m, live \ {x}, heap) /\ p[r - 1] = links[x].prev
  <2>1. StaysAstray(m, r, links, x, live, heap)
    BY <1>2, <1>5, <1>6, <1>7, <1>8, AstrayShrinks
  <2> QED
    BY <2>1 DEF StaysAstray
<1>10. LeftBehind(base.last, m, live \ {x}, heap)
  BY <1>4, <1>6, <1>9 DEF LeftBehind
<1>11. r - 1 \in Nat \ {0}
  BY <1>9
<1>12. \E e \in Nat \ {0} : \E p : /\ Astray(p, e, m, live \ {x}, heap)
                                   /\ p[e] = links[x].prev
  BY <1>9, <1>11
<1>13. links' = m
  BY <1>5, <1>7
<1>14. links[x].prev # NoNode
  BY <1>9, HeapAssumption
<1> QED
  BY <1>4, <1>5, <1>6, <1>9, <1>10, <1>12, <1>13, <1>14

LEMMA AstrayStepsBack ==
  ASSUME HeapTypes, StepsBack, outcome' = "running", IsAstray
  PROVE  HeapTypes' /\ IsAstray'
<1>1. /\ op # "none" /\ BlockFree(cursor) /\ cursor' = links[cursor].prev
      /\ heap' = heap /\ op' = op
  BY DEF StepsBack
<1>2. /\ cursor \in Blocks /\ cursor # heap /\ live' = live \ {cursor}
      /\ links' \in Links(Blocks) /\ heap \in live'
      /\ base' = base /\ dangling'
      /\ LeftBehind(base.last, links', live', heap)
      /\ \E r \in Nat \ {0} : \E q : /\ Astray(q, r, links', live', heap)
                                     /\ q[r] = links[cursor].prev
  <2>1. /\ heap \in live /\ dangling
        /\ \E r \in Nat \ {0} : \E q : Astray(q, r, links, live, heap) /\ q[r] = cursor
        /\ base.last = cursor \/ LeftBehind(base.last, links, live, heap)
    BY <1>1 DEF IsAstray
  <2> QED
    BY <1>1, <2>1, AstrayFreed
<1>3. HeapTypes'
  BY <1>2, StepBackTypes
<1>4. heap' \in live' /\ LeftBehind(base'.last, links', live', heap')
  BY <1>1, <1>2
<1>5. \E r \in Nat \ {0} : \E q : Astray(q, r, links', live', heap') /\ q[r] = cursor'
  BY <1>1, <1>2
<1>6. op' # "none"
  BY <1>1
<1>7. IsAstray'
  BY <1>2, <1>4, <1>5, <1>6 DEF IsAstray
<1> QED
  BY <1>3, <1>7

LEMMA StepBack ==
  ASSUME HeapInv, StepsBack
  PROVE  HeapInv'
<1>1. SUFFICES ASSUME outcome' = "running" PROVE HeapInv'
  BY DEF HeapInv
<1>2. HeapTypes /\ (NoHeap \/ IsWhole \/ IsUnwinding \/ IsEmptied \/ IsAstray)
  BY DEF HeapInv, StepsBack
<1>3. op # "none" /\ cursor # NoNode
  BY DEF StepsBack
<1>4. IsWhole \/ IsUnwinding \/ IsAstray
  BY <1>2, <1>3 DEF NoHeap, IsEmptied
<1>5. CASE IsAstray
  BY <1>1, <1>2, <1>5, AstrayStepsBack DEF HeapInv
<1>6. CASE IsWhole
  <2>1. /\ \E n \in Nat \ {0} : \E s : Hanging(s, n, links, live, heap) /\ cursor = s[n]
        /\ base.last = cursor
        /\ op = "free_heap_top" => oldTop[1] \in live /\ oldTop[2] <= free[oldTop[1]]
    BY <1>2, <1>3, <1>6, WholeHangs
  <2>2. HeapTypes' /\ (IsUnwinding \/ IsEmptied)'
    BY <1>1, <1>2, <2>1, HangingStepsBack
  <2> QED
    BY <2>2 DEF HeapInv
<1>7. CASE IsUnwinding
  <2>1. /\ \E n \in Nat \ {0} : \E s : Hanging(s, n, links, live, heap) /\ cursor = s[n]
        /\ LeftBehind(base.last, links, live, heap) /\ dangling
        /\ op = "free_heap_top" => oldTop[1] \in live /\ oldTop[2] <= free[oldTop[1]]
    BY <1>7 DEF IsUnwinding
  <2>2. HeapTypes' /\ (IsUnwinding \/ IsEmptied)'
    BY <1>1, <1>2, <2>1, HangingStepsBack
  <2> QED
    BY <2>2 DEF HeapInv
<1> QED
  BY <1>4, <1>5, <1>6, <1>7

LEMMA FreeStepKeeps ==
  ASSUME HeapInv, FreeStep
  PROVE  HeapInv'
<1>1. StepsBack
  BY DEF FreeStep, StepsBack
<1> QED
  BY <1>1, StepBack

LEMMA FreeHeapTopStepKeeps ==
  ASSUME HeapInv, FreeHeapTopStep
  PROVE  HeapInv'
<1>1. StepsBack
  BY DEF FreeHeapTopStep, StepsBack
<1> QED
  BY <1>1, StepBack

-----------------------------------------------------------------------------
(* The other actions, one lemma each.                                      *)
LEMMA InitEstablishes == Init => HeapInv
<1>1. SUFFICES ASSUME Init PROVE HeapInv
  OBVIOUS
<1>2. links \in Links(Blocks) /\ base \in Headers
  BY <1>1 DEF Init, Links, Link, Detached, EmptyList, Headers
<1>3. HeapTypes
  BY <1>1, <1>2 DEF Init, HeapTypes
<1>4. NoHeap
  BY <1>1 DEF Init, NoHeap
<1> QED
  BY <1>3, <1>4 DEF HeapInv

LEMMA CreateKeeps ==
  ASSUME HeapInv, NEW n \in CreateSizes, NEW b \in Blocks, Create(n, b)
  PROVE  HeapInv'
<1>1. outcome = "running" /\ op = "none" /\ heap = NoNode
  BY DEF Create
<1>2. HeapTypes /\ NoHeap
  <2>1. HeapTypes /\ (NoHeap \/ IsWhole \/ IsUnwinding \/ IsEmptied \/ IsAstray)
    BY <1>1 DEF HeapInv
  <2>2. ~ IsUnwinding /\ ~ IsEmptied
    BY <1>1 DEF IsUnwinding, IsEmptied
  <2>3. ~ IsAstray
    BY <1>1, <2>1, HeapAssumption DEF IsAstray, HeapTypes
  <2>4. ~ IsWhole
    BY <1>1, <2>1, WholeCursor
  <2> QED
    BY <2>1, <2>2, <2>3, <2>4
<1>3. PICK size : size = Header + Needed(IF n = 0 THEN StartSize ELSE n)
  OBVIOUS
<1>4. size \in Nat /\ size >= Header /\ Header \in Nat
  <2>1. PICK a : a = IF n = 0 THEN StartSize ELSE n
    OBVIOUS
  <2>2. a \in Nat /\ Header \in Nat
    BY <2>1, HeapAssumption
  <2>3. Needed(a) \in Nat
    BY <2>2, NeededIsEnough
  <2>4. size = Header + Needed(a)
    BY <1>3, <2>1
  <2> QED
    BY <2>2, <2>3, <2>4
<1>5. PICK r : r = ListAddFirst(EmptyList, links, b)
  OBVIOUS
<1>6. /\ live' = live \cup {b} /\ len' = [len EXCEPT ![b] = size]
      /\ free' = [free EXCEPT ![b] = Header] /\ heap' = b /\ total' = size
      /\ base' = r.list /\ links' = r.links
      /\ UNCHANGED <<op, cursor, oldTop, outcome, pieces, dangling>>
  BY <1>3, <1>5 DEF Create, Malloc
<1>7. links \in Links(Blocks) /\ len \in [Blocks -> Nat] /\ free \in [Blocks -> Nat]
  BY <1>2 DEF HeapTypes
<1>19. Single(r, b)
  BY <1>5, <1>7, HangingBegins
<1>8. /\ r.links \in Links(Blocks) /\ r.list.last = b
      /\ \E w : Hanging(w, 1, r.links, {b}, b) /\ r.list = HeaderOf(w, 1)
  BY <1>19 DEF Single
<1>9. PICK w : Hanging(w, 1, r.links, {b}, b) /\ r.list = HeaderOf(w, 1)
  BY <1>8
<1>10. live' = {b} /\ live = {} /\ pieces = <<>> /\ ~dangling
  BY <1>2, <1>6 DEF NoHeap
<1>11. len' \in [Blocks -> Nat] /\ free' \in [Blocks -> Nat] /\ len'[b] = size /\ free'[b] = Header
  BY <1>4, <1>6, <1>7
<1>12. base' \in Headers
  <2>1. w[1] \in Blocks
    BY <1>9 DEF Hanging, Path
  <2>2. r.list = [count |-> 1, first |-> w[1], last |-> w[1]]
    BY <1>9 DEF HeaderOf
  <2> QED
    BY <1>6, <2>1, <2>2 DEF Headers
<1>13. HeapTypes'
  BY <1>1, <1>2, <1>4, <1>6, <1>8, <1>10, <1>11, <1>12 DEF HeapTypes
<1>14. \E m \in Nat \ {0} : \E s :
         Hanging(s, m, links', live', heap') /\ base' = HeaderOf(s, m)
  <2>1. Hanging(w, 1, links', live', heap') /\ base' = HeaderOf(w, 1)
    BY <1>6, <1>9, <1>10
  <2>2. 1 \in Nat \ {0}
    OBVIOUS
  <2> QED
    BY <2>1, <2>2
<1>15. total' = SumOf(len', live')
  <2>1. PICK e \in SUBSET Blocks : e = {}
    OBVIOUS
  <2>2. IsFiniteSet(Blocks) /\ b \notin e /\ e \in SUBSET Blocks
    BY <2>1, HeapAssumption
  <2>3. PICK f, w1 : SetsAt(f, len, b, size) /\ Joins(w1, e, b)
    BY DEF SetsAt, Joins
  <2>4. SumOf(f, w1) = SumOf(len, e) + size
    BY <1>4, <1>7, <2>2, <2>3, SumGrows
  <2>5. SumOf(len, e) = 0
    BY <2>1, SumOfNone
  <2>6. len' = f /\ live' = w1
    BY <1>6, <1>10, <2>1, <2>3 DEF SetsAt, Joins
  <2>7. SumOf(len', live') = 0 + size
    BY <2>4, <2>5, <2>6
  <2> QED
    BY <1>4, <1>6, <2>7
<1>16. Kept(pieces', free', len', live', heap')
  <2>1. Filled(free', len', live')
    BY <1>4, <1>10, <1>11 DEF Filled
  <2>2. Len(pieces') = 0
    BY <1>6, <1>10
  <2> QED
    BY <2>1, <2>2 DEF Kept, Inside, Disjoint, Stacked
<1>17. AtTop'
  <2>1. Top(pieces', heap', Len(pieces')) = <<heap', Header>>
    BY <1>6, <1>10 DEF Top
  <2>2. base'.last = b
    BY <1>6, <1>8
  <2> QED
    BY <1>1, <1>6, <1>11, <2>1, <2>2 DEF AtTop
<1>18. IsWhole'
  BY <1>6, <1>10, <1>14, <1>15, <1>16, <1>17 DEF IsWhole
<1> QED
  BY <1>13, <1>18 DEF HeapInv

LEMMA FreeReturnKeeps ==
  ASSUME HeapInv, FreeReturn
  PROVE  HeapInv'
<1>1. outcome = "running" /\ op = "free" /\ cursor = NoNode
  BY DEF FreeReturn
<1>2. HeapTypes /\ (NoHeap \/ IsWhole \/ IsUnwinding \/ IsEmptied \/ IsAstray)
  BY <1>1 DEF HeapInv
<1>3. ~ NoHeap
  BY <1>1 DEF NoHeap
<1>4. ~ IsWhole
  BY <1>1, <1>2, WholeCursor
<1>5. ~ IsUnwinding
  <2>1. SUFFICES ASSUME IsUnwinding PROVE FALSE
    OBVIOUS
  <2>2. PICK n \in Nat \ {0} : \E s : Hanging(s, n, links, live, heap) /\ cursor = s[n]
    BY <2>1 DEF IsUnwinding
  <2>3. PICK s : Hanging(s, n, links, live, heap) /\ cursor = s[n]
    BY <2>2
  <2> QED
    BY <1>1, <2>3, HangingEnds, HeapAssumption
<1>6. ~ IsAstray
  <2>1. SUFFICES ASSUME IsAstray PROVE FALSE
    OBVIOUS
  <2>2. PICK r \in Nat \ {0} : \E q : Astray(q, r, links, live, heap) /\ q[r] = cursor
    BY <1>1, <2>1 DEF IsAstray
  <2>3. PICK q : Astray(q, r, links, live, heap) /\ q[r] = cursor
    BY <2>2
  <2>4. r \in 1..r
    OBVIOUS
  <2>5. q[r] \in Blocks
    BY <2>3, <2>4 DEF Astray
  <2> QED
    BY <1>1, <2>3, <2>5, HeapAssumption
<1>7. live = {} /\ pieces = <<>>
  BY <1>1, <1>2, <1>3, <1>4, <1>5, <1>6 DEF IsEmptied, HeapTypes
<1>8. live' = {} /\ pieces' = <<>> /\ heap' = NoNode /\ op' = "none" /\ base' = EmptyList /\ ~dangling'
  BY <1>7 DEF FreeReturn
<1>9. links' \in Links(Blocks) /\ base' \in Headers
  BY <1>8 DEF FreeReturn, Links, Link, Detached, EmptyList, Headers
<1>10. HeapTypes'
  BY <1>2, <1>8, <1>9 DEF FreeReturn, HeapTypes
<1>11. NoHeap'
  BY <1>8 DEF NoHeap
<1> QED
  BY <1>10, <1>11 DEF HeapInv

(* Between two calls there is a whole heap, or one that is astray.         *)
LEMMA BetweenCalls ==
  ASSUME HeapInv, outcome = "running", op = "none", heap # NoNode
  PROVE  HeapTypes /\ (IsWhole \/ IsAstray)
BY DEF HeapInv, NoHeap, IsUnwinding, IsEmptied

LEMMA BecomesAstray ==
  ASSUME NEW k, NEW v, NEW h, NEW x, LeftBehind(x, k, v, h)
  PROVE  \E r \in Nat \ {0} : \E q : Astray(q, r, k, v, h) /\ q[r] = x
<1>1. x \in Blocks /\ x \notin v /\ x # h /\ k[x].next = NoNode
  BY DEF LeftBehind
<1>2. \E q : Astray(q, 1, k, v, h) /\ q[1] = x
  BY <1>1, AstrayAtFreed
<1>3. 1 \in Nat \ {0}
  OBVIOUS
<1> QED
  BY <1>2, <1>3

LEMMA FreeCallKeeps ==
  ASSUME HeapInv, FreeCall
  PROVE  HeapInv'
<1>1. /\ outcome = "running" /\ op = "none" /\ heap # NoNode
      /\ op' = "free" /\ cursor' = base.last /\ pieces' = <<>>
      /\ UNCHANGED <<heap, base, total, links, live, len, free, oldTop, outcome, dangling>>
  BY DEF FreeCall, Begin, chain
<1>2. HeapTypes /\ (IsWhole \/ IsAstray)
  BY <1>1, BetweenCalls
<1>3. HeapTypes'
  BY <1>1, <1>2 DEF HeapTypes
<1>4. CASE IsWhole
  <2>1. /\ \E n \in Nat \ {0} : \E s :
             Hanging(s, n, links, live, heap) /\ base = HeaderOf(s, n)
        /\ total = SumOf(len, live) /\ Filled(free, len, live) /\ ~dangling
    BY <1>4 DEF IsWhole, Kept
  <2>2. \E n \in Nat \ {0} : \E s :
          Hanging(s, n, links', live', heap') /\ base' = HeaderOf(s, n)
    BY <1>1, <2>1
  <2>3. Len(pieces') = 0
    BY <1>1
  <2>4. Kept(pieces', free', len', live', heap')
    BY <1>1, <2>1, <2>3 DEF Kept, Filled, Inside, Disjoint, Stacked
  <2>5. AtTop'
    BY <1>1 DEF AtTop
  <2>6. total' = SumOf(len', live') /\ ~dangling'
    BY <1>1, <2>1
  <2>7. IsWhole'
    BY <2>2, <2>4, <2>5, <2>6 DEF IsWhole
  <2> QED
    BY <1>3, <2>7 DEF HeapInv
<1>5. CASE IsAstray
  <2>1. /\ heap \in live /\ dangling
        /\ \E r \in Nat \ {0} : \E q : /\ Astray(q, r, links, live, heap)
                                       /\ q[r] = base.last
    BY <1>1, <1>5 DEF IsAstray
  <2>2. \E r \in Nat \ {0} : \E q : Astray(q, r, links', live', heap') /\ q[r] = cursor'
    BY <1>1, <2>1
  <2>3. heap' \in live' /\ dangling' /\ op' # "none" /\ base'.last = cursor'
    BY <1>1, <2>1
  <2>4. IsAstray'
    BY <2>2, <2>3 DEF IsAstray
  <2> QED
    BY <1>3, <2>4 DEF HeapInv
<1> QED
  BY <1>2, <1>4, <1>5

LEMMA FreeHeapTopCallKeeps ==
  ASSUME HeapInv, NEW k \in 0..Len(pieces), FreeHeapTopCall(k)
  PROVE  HeapInv'
<1>1. /\ outcome = "running" /\ op = "none" /\ heap # NoNode
      /\ op' = "free_heap_top" /\ cursor' = base.last
      /\ oldTop' = TopAfter(k) /\ pieces' = SubSeq(pieces, 1, k)
      /\ UNCHANGED <<heap, base, total, links, live, len, free, outcome, dangling>>
  BY DEF FreeHeapTopCall, Begin, chain
<1>2. HeapTypes /\ (IsWhole \/ IsAstray)
  BY <1>1, BetweenCalls
<1>3. heap \in Blocks /\ pieces \in Seq(Handed) /\ live \in SUBSET Blocks
  BY <1>1, <1>2 DEF HeapTypes
<1>4. pieces' \in Seq(Handed)
  BY <1>1, <1>3
<1>5. oldTop' = Top(pieces, heap, k)
  BY <1>1 DEF TopAfter, Top
<1>6. PICK c \in Blocks, o \in Nat : Top(pieces, heap, k) = <<c, o>>
  <2>1. CASE k = 0
    BY <1>3, <2>1, HeapAssumption DEF Top
  <2>2. CASE k # 0
    <3>1. k \in 1..Len(pieces)
      BY <1>3, <2>2
    <3>2. /\ pieces[k].block \in Blocks /\ pieces[k].offset \in Nat
          /\ Needed(pieces[k].size) \in Nat
      BY <1>3, <3>1, PieceEnds
    <3> QED
      BY <2>2, <3>2 DEF Top
  <2> QED
    BY <2>1, <2>2
<1>7. HeapTypes'
  BY <1>1, <1>2, <1>4, <1>5, <1>6 DEF HeapTypes
<1>8. CASE IsWhole
  <2>1. /\ \E n \in Nat \ {0} : \E s :
             Hanging(s, n, links, live, heap) /\ base = HeaderOf(s, n)
        /\ total = SumOf(len, live) /\ Filled(free, len, live) /\ ~dangling
        /\ Inside(pieces, free, live) /\ Disjoint(pieces) /\ Stacked(pieces, heap)
    BY <1>8 DEF IsWhole, Kept
  <2>2. \E n \in Nat \ {0} : \E s :
          Hanging(s, n, links', live', heap') /\ base' = HeaderOf(s, n)
    BY <1>1, <2>1
  <2>3. heap \in live
    BY <1>2, <1>8, WholeCursor
  <2>4. PICK t : t = SubSeq(pieces, 1, k)
    OBVIOUS
  <2>5. /\ Len(t) = k /\ Inside(t, free, live) /\ Disjoint(t) /\ Stacked(t, heap)
        /\ Top(t, heap, k) = Top(pieces, heap, k)
    <3>1. Dropped(t, pieces, free, live, heap, k)
      BY <1>3, <2>1, <2>3, <2>4, PiecesDropped
    <3> QED
      BY <3>1 DEF Dropped
  <2>6. Kept(pieces', free', len', live', heap')
    BY <1>1, <2>1, <2>4, <2>5 DEF Kept
  <2>7. o <= free[c]
    <3>1. CASE k = 0
      <4>1. c = heap /\ o = Header
        BY <1>6, <3>1 DEF Top
      <4> QED
        BY <2>1, <2>3, <4>1 DEF Filled
    <3>2. CASE k # 0
      <4>1. <<c, o>> = Top(pieces, heap, k)
        BY <1>6
      <4> QED
        BY <1>3, <2>1, <2>3, <3>2, <4>1, TopIsPlace
    <3> QED
      BY <3>1, <3>2
  <2>8. AtTop'
    <3>1. oldTop' = Top(pieces', heap', Len(pieces'))
      BY <1>1, <1>5, <2>4, <2>5
    <3>2. oldTop'[2] <= free'[oldTop'[1]]
      BY <1>1, <1>5, <1>6, <2>7
    <3> QED
      BY <1>1, <3>1, <3>2 DEF AtTop
  <2>9. total' = SumOf(len', live') /\ ~dangling'
    BY <1>1, <2>1
  <2>10. IsWhole'
    BY <2>2, <2>6, <2>8, <2>9 DEF IsWhole
  <2> QED
    BY <1>7, <2>10 DEF HeapInv
<1>9. CASE IsAstray
  <2>1. /\ heap \in live /\ dangling
        /\ \E r \in Nat \ {0} : \E q : /\ Astray(q, r, links, live, heap)
                                       /\ q[r] = base.last
    BY <1>1, <1>9 DEF IsAstray
  <2>2. \E r \in Nat \ {0} : \E q : Astray(q, r, links', live', heap') /\ q[r] = cursor'
    BY <1>1, <2>1
  <2>3. heap' \in live' /\ dangling' /\ op' # "none" /\ base'.last = cursor'
    BY <1>1, <2>1
  <2>4. IsAstray'
    BY <2>2, <2>3 DEF IsAstray
  <2> QED
    BY <1>7, <2>4 DEF HeapInv
<1> QED
  BY <1>2, <1>8, <1>9

(* What the bookkeeping of a whole heap says of its last block.            *)
LEMMA WholeTop ==
  ASSUME HeapTypes, IsWhole, op = "none"
  PROVE  /\ free[base.last] \in Nat /\ len[base.last] \in Nat
         /\ Header <= free[base.last] /\ free[base.last] <= len[base.last]
         /\ free[base.last] % Alignment = 0
         /\ <<base.last, free[base.last]>> = Top(pieces, heap, Len(pieces))
<1>1. base.last \in live /\ heap \in live /\ base.last \in Blocks
  BY WholeCursor
<1>2. /\ free \in [Blocks -> Nat] /\ len \in [Blocks -> Nat] /\ pieces \in Seq(Handed)
      /\ live \in SUBSET Blocks
  BY DEF HeapTypes
<1>3. /\ Filled(free, len, live) /\ Inside(pieces, free, live)
      /\ <<base.last, free[base.last]>> = Top(pieces, heap, Len(pieces))
  BY DEF IsWhole, Kept, AtTop
<1>4. PICK z \in 0..Len(pieces) : z = Len(pieces)
  BY <1>2
<1>5. PICK c, o : c = base.last /\ o = free[base.last]
  OBVIOUS
<1>6. <<c, o>> = Top(pieces, heap, z)
  BY <1>3, <1>4, <1>5
<1>7. o % Alignment = 0
  BY <1>1, <1>2, <1>3, <1>6, TopIsPlace
<1>8. Header <= free[base.last] /\ free[base.last] <= len[base.last]
  BY <1>1, <1>3 DEF Filled
<1> QED
  BY <1>1, <1>2, <1>3, <1>5, <1>7, <1>8

LEMMA AllocHereKeeps ==
  ASSUME HeapInv, NEW n \in Sizes, AllocHere(n)
  PROVE  HeapInv'
<1>1. PICK b, o : b = base.last /\ o = free[base.last]
  OBVIOUS
<1>2. /\ outcome = "running" /\ op = "none" /\ heap # NoNode
      /\ Fits(n) /\ free' = [free EXCEPT ![b] = o + Needed(n)]
      /\ pieces' = Append(pieces, Piece(b, o, n))
      /\ UNCHANGED <<heap, base, total, links, live, len, op, cursor, oldTop, outcome, dangling>>
  BY <1>1 DEF AllocHere, Begin, chain
<1>3. HeapTypes /\ (IsWhole \/ IsAstray)
  BY <1>2, BetweenCalls
<1>4. /\ free \in [Blocks -> Nat] /\ len \in [Blocks -> Nat] /\ pieces \in Seq(Handed)
      /\ live \in SUBSET Blocks
  BY <1>3 DEF HeapTypes
<1>5. n \in Nat /\ Needed(n) \in Nat
  BY HeapAssumption, NeededIsEnough
<1>6. b \in Blocks
  <2>1. CASE IsWhole
    BY <1>1, <1>3, <2>1, WholeCursor
  <2>2. CASE IsAstray
    <3>1. PICK r \in Nat \ {0} : \E q : Astray(q, r, links, live, heap) /\ q[r] = base.last
      BY <1>2, <2>2 DEF IsAstray
    <3>2. PICK q : Astray(q, r, links, live, heap) /\ q[r] = base.last
      BY <3>1
    <3>3. r \in 1..r
      OBVIOUS
    <3> QED
      BY <1>1, <3>2, <3>3 DEF Astray
  <2> QED
    BY <1>3, <2>1, <2>2
<1>7. /\ o \in Nat /\ free' \in [Blocks -> Nat] /\ free'[b] = o + Needed(n)
      /\ \A c \in Blocks \ {b} : free'[c] = free[c]
  BY <1>1, <1>2, <1>4, <1>5, <1>6
<1>8. Piece(b, o, n) \in Handed
  BY <1>5, <1>6, <1>7 DEF Piece, Handed
<1>9. pieces' \in Seq(Handed)
  BY <1>2, <1>4, <1>8
<1>10. HeapTypes'
  BY <1>2, <1>3, <1>7, <1>9 DEF HeapTypes
<1>11. CASE IsWhole
  <2>1. /\ \E m \in Nat \ {0} : \E s :
             Hanging(s, m, links, live, heap) /\ base = HeaderOf(s, m)
        /\ total = SumOf(len, live) /\ Filled(free, len, live) /\ ~dangling
        /\ Inside(pieces, free, live) /\ Disjoint(pieces) /\ Stacked(pieces, heap)
    BY <1>11 DEF IsWhole, Kept
  <2>2. \E m \in Nat \ {0} : \E s :
          Hanging(s, m, links', live', heap') /\ base' = HeaderOf(s, m)
    BY <1>2, <2>1
  <2>3. b \in live /\ heap \in live
    BY <1>1, <1>3, <1>11, WholeCursor
  <2>4. /\ Header <= o /\ o % Alignment = 0
        /\ <<b, o>> = Top(pieces, heap, Len(pieces))
    BY <1>1, <1>2, <1>3, <1>11, WholeTop
  <2>5. o + Needed(n) <= len[b]
    BY <1>1, <1>2, <1>4, <1>5, <1>6, <1>7 DEF Fits
  <2>6. Header \in Nat
    BY HeapAssumption
  <2>7. PICK g, t : g = free' /\ t = Append(pieces, Piece(b, o, n))
    OBVIOUS
  <2>8. /\ g \in [Blocks -> Nat] /\ g[b] = o + Needed(n)
        /\ \A c \in Blocks \ {b} : g[c] = free[c]
    BY <1>7, <2>7
  <2>9. Raised(g, free, live)
    <3>1. ASSUME NEW c \in live PROVE free[c] <= g[c]
      <4>1. c \in Blocks /\ free[c] \in Nat
        BY <1>4
      <4>2. CASE c = b
        BY <1>1, <1>5, <1>7, <2>8, <4>1, <4>2
      <4>3. CASE c # b
        BY <2>8, <4>1, <4>3
      <4> QED
        BY <4>2, <4>3
    <3> QED
      BY <3>1 DEF Raised
  <2>10. o + Needed(n) <= g[b] /\ o >= Header /\ free[b] <= o
    BY <1>1, <1>5, <1>7, <2>4, <2>6, <2>8
  <2>11. Stacks(t, g, live \cup {b}, heap, b, o + Needed(n))
    BY <1>4, <1>5, <1>6, <1>7, <2>1, <2>3, <2>4, <2>7, <2>8, <2>9, <2>10, PieceAdded
  <2>12. live \cup {b} = live
    BY <2>3
  <2>13. /\ Inside(t, g, live) /\ Disjoint(t) /\ Stacked(t, heap)
         /\ <<b, o + Needed(n)>> = Top(t, heap, Len(t))
    BY <2>11, <2>12 DEF Stacks
  <2>14. Filled(g, len, live)
    <3>1. ASSUME NEW c \in live PROVE Header <= g[c] /\ g[c] <= len[c]
      <4>1. CASE c = b
        BY <1>4, <1>5, <1>6, <1>7, <2>4, <2>5, <2>6, <2>8, <4>1
      <4>2. CASE c # b
        BY <1>4, <2>1, <2>8, <4>2 DEF Filled
      <4> QED
        BY <4>1, <4>2
    <3> QED
      BY <3>1 DEF Filled
  <2>15. Kept(pieces', free', len', live', heap')
    BY <1>2, <2>7, <2>13, <2>14 DEF Kept
  <2>16. AtTop'
    BY <1>1, <1>2, <1>7, <2>7, <2>13 DEF AtTop
  <2>17. total' = SumOf(len', live') /\ ~dangling'
    BY <1>2, <2>1
  <2>18. IsWhole'
    BY <2>2, <2>15, <2>16, <2>17 DEF IsWhole
  <2> QED
    BY <1>10, <2>18 DEF HeapInv
<1>12. CASE IsAstray
  <2>1. IsAstray'
    BY <1>2, <1>12 DEF IsAstray
  <2> QED
    BY <1>10, <2>1 DEF HeapInv
<1> QED
  BY <1>3, <1>11, <1>12

LEMMA AllocAddingKeeps ==
  ASSUME HeapInv, NEW n \in Sizes, NEW b \in Blocks, AllocAdding(n, b)
  PROVE  HeapInv'
<1>1. PICK size, r, end : /\ size = Header + Needed(AddedSize(n))
                          /\ r = ListInsertAfter(base, links, base.last, b)
                          /\ end = Header + Needed(n)
  OBVIOUS
<1>2. /\ outcome = "running" /\ op = "none" /\ heap # NoNode
      /\ b \notin live /\ live' = live \cup {b} /\ len' = [len EXCEPT ![b] = size]
      /\ total' = total + size /\ base' = r.list /\ links' = r.links
      /\ free' = [free EXCEPT ![b] = end]
      /\ pieces' = Append(pieces, Piece(b, Header, n))
      /\ UNCHANGED <<heap, op, cursor, oldTop, outcome, dangling>>
  BY <1>1 DEF AllocAdding, Begin, Malloc
<1>3. HeapTypes /\ (IsWhole \/ IsAstray)
  BY <1>2, BetweenCalls
<1>4. /\ free \in [Blocks -> Nat] /\ len \in [Blocks -> Nat] /\ pieces \in Seq(Handed)
      /\ live \in SUBSET Blocks /\ links \in Links(Blocks) /\ base \in Headers
      /\ total \in Nat /\ base.last \in Blocks \cup {NoNode}
  BY <1>3 DEF HeapTypes, Headers
<1>5. n \in Nat /\ Needed(n) \in Nat /\ Header \in Nat /\ Header % Alignment = 0
      /\ StandardSize \in Nat
  BY HeapAssumption, NeededIsEnough
<1>6. base.last \in Blocks
  <2>1. CASE IsWhole
    BY <1>3, <2>1, WholeCursor
  <2>2. CASE IsAstray
    <3>1. PICK e \in Nat \ {0} : \E q : Astray(q, e, links, live, heap) /\ q[e] = base.last
      BY <1>2, <2>2 DEF IsAstray
    <3>2. PICK q : Astray(q, e, links, live, heap) /\ q[e] = base.last
      BY <3>1
    <3>3. e \in 1..e
      OBVIOUS
    <3> QED
      BY <3>2, <3>3 DEF Astray
  <2> QED
    BY <1>3, <2>1, <2>2
<1>7. size \in Nat /\ end \in Nat /\ Header <= end /\ end <= size
  <2>1. len[base.last] \in Nat
    BY <1>4, <1>6
  <2>2. PICK d : d = IF 2 * len[base.last] > StandardSize THEN StandardSize
                                                         ELSE 2 * len[base.last]
    OBVIOUS
  <2>3. d \in Nat
    BY <1>5, <2>1, <2>2
  <2>4. AddedSize(n) = Max({n, d})
    BY <2>2 DEF AddedSize
  <2>5. PICK a : a = AddedSize(n)
    OBVIOUS
  <2>6. a \in Nat /\ n <= a
    BY <1>5, <2>3, <2>4, <2>5, MaxOfTwo
  <2>7. Needed(a) \in Nat /\ Needed(n) <= Needed(a)
    BY <1>5, <2>6, NeededIsEnough, NeededGrows
  <2> QED
    BY <1>1, <1>5, <2>5, <2>7
<1>8. /\ free' \in [Blocks -> Nat] /\ free'[b] = end
      /\ len' \in [Blocks -> Nat] /\ len'[b] = size
      /\ \A c \in Blocks \ {b} : free'[c] = free[c] /\ len'[c] = len[c]
  BY <1>2, <1>4, <1>7
<1>9. Piece(b, Header, n) \in Handed
  BY <1>5 DEF Piece, Handed
<1>10. pieces' \in Seq(Handed)
  BY <1>2, <1>4, <1>9
<1>11. total' \in Nat /\ live' \in SUBSET Blocks
  BY <1>2, <1>4, <1>7
<1>12. ASSUME links' \in Links(Blocks), base' \in Headers PROVE HeapTypes'
  BY <1>2, <1>3, <1>8, <1>10, <1>11, <1>12 DEF HeapTypes
<1>13. CASE IsWhole
  <2>1. /\ \E m \in Nat \ {0} : \E s :
             Hanging(s, m, links, live, heap) /\ base = HeaderOf(s, m)
        /\ total = SumOf(len, live) /\ Filled(free, len, live) /\ ~dangling
        /\ Inside(pieces, free, live) /\ Disjoint(pieces) /\ Stacked(pieces, heap)
    BY <1>13 DEF IsWhole, Kept
  <2>2. PICK m \in Nat \ {0} : \E s :
          Hanging(s, m, links, live, heap) /\ base = HeaderOf(s, m)
    BY <2>1
  <2>3. PICK s : Hanging(s, m, links, live, heap) /\ base = HeaderOf(s, m)
    BY <2>2
  <2>4. Grows(r, m, live, heap, b)
    BY <1>1, <1>2, <1>4, <2>3, HangingGrows
  <2>5. /\ r.links \in Links(Blocks) /\ r.list.last = b
        /\ \E w : /\ Hanging(w, m + 1, r.links, live \cup {b}, heap)
                  /\ r.list = HeaderOf(w, m + 1)
    BY <2>4 DEF Grows
  <2>6. PICK w : /\ Hanging(w, m + 1, r.links, live \cup {b}, heap)
                 /\ r.list = HeaderOf(w, m + 1)
    BY <2>5
  <2>7. m + 1 \in Nat \ {0}
    OBVIOUS
  <2>8. \E e \in Nat \ {0} : \E q :
          Hanging(q, e, links', live', heap') /\ base' = HeaderOf(q, e)
    BY <1>2, <2>6, <2>7
  <2>9. base' \in Headers
    <3>1. PICK e \in Nat \ {0} : e = m + 1
      BY <2>7
    <3>2. Hanging(w, e, r.links, live \cup {b}, heap)
      BY <2>6, <3>1
    <3>3. w[1] \in Blocks /\ w[e] \in Blocks
      BY <3>2, HangingEnds
    <3>4. r.list = [count |-> e, first |-> w[1], last |-> w[e]]
      BY <2>6, <3>1 DEF HeaderOf
    <3> QED
      BY <1>2, <3>3, <3>4 DEF Headers
  <2>10. HeapTypes'
    BY <1>2, <1>12, <2>5, <2>9
  <2>11. b # heap /\ heap \in live
    BY <1>2, <1>3, <1>13, WholeCursor
  <2>12. PICK g, t, e, x : /\ g = free' /\ t = Append(pieces, Piece(b, Header, n))
                           /\ e = len' /\ x = live \cup {b}
    OBVIOUS
  <2>13. /\ g \in [Blocks -> Nat] /\ g[b] = end /\ e[b] = size
         /\ \A c \in Blocks \ {b} : g[c] = free[c] /\ e[c] = len[c]
    BY <1>8, <2>12
  <2>14. \A c \in live : c \in Blocks \ {b}
    BY <1>2, <1>4
  <2>15. Raised(g, free, live)
    <3>1. ASSUME NEW c \in live PROVE free[c] <= g[c]
      <4>1. c \in Blocks \ {b} /\ free[c] \in Nat
        BY <1>4, <2>14
      <4> QED
        BY <2>13, <4>1
    <3> QED
      BY <3>1 DEF Raised
  <2>16. Header + Needed(n) <= g[b]
    BY <1>1, <1>7, <2>13
  <2>17. Stacks(t, g, live \cup {b}, heap, b, Header + Needed(n))
    <3>1. /\ pieces \in Seq(Handed) /\ live \in SUBSET Blocks /\ heap \in live
          /\ free \in [Blocks -> Nat] /\ Inside(pieces, free, live)
          /\ Disjoint(pieces) /\ Stacked(pieces, heap)
      BY <1>4, <2>1, <2>11
    <3>2. /\ Header \in Nat /\ n \in Nat /\ Header >= Header /\ Header % Alignment = 0
          /\ g \in [Blocks -> Nat]
      BY <1>5, <2>13
    <3>3. (b \in live => free[b] <= Header) /\ b # heap
      BY <1>2, <2>11
    <3>4. t = Append(pieces, Piece(b, Header, n))
      BY <2>12
    <3> QED
      BY <2>15, <2>16, <3>1, <3>2, <3>3, <3>4, PieceAdded
  <2>18. /\ Inside(t, g, x) /\ Disjoint(t) /\ Stacked(t, heap)
         /\ <<b, end>> = Top(t, heap, Len(t))
    BY <1>1, <2>12, <2>17 DEF Stacks
  <2>19. Filled(g, e, x)
    <3>1. ASSUME NEW c \in x PROVE Header <= g[c] /\ g[c] <= e[c]
      <4>1. CASE c = b
        BY <1>7, <2>13, <4>1
      <4>2. CASE c # b
        <5>1. c \in live /\ c \in Blocks \ {b}
          BY <2>12, <2>14, <4>2
        <5> QED
          BY <2>1, <2>13, <5>1 DEF Filled
      <4> QED
        BY <4>1, <4>2
    <3> QED
      BY <3>1 DEF Filled
  <2>20. Kept(pieces', free', len', live', heap')
    BY <1>2, <2>12, <2>18, <2>19 DEF Kept
  <2>21. AtTop'
    BY <1>2, <1>8, <2>5, <2>12, <2>18 DEF AtTop
  <2>22. total' = SumOf(len', live')
    <3>1. /\ IsFiniteSet(Blocks) /\ live \in SUBSET Blocks /\ b \notin live
          /\ len \in [Blocks -> Nat] /\ size \in Nat
      BY <1>2, <1>4, <1>7, HeapAssumption
    <3>2. PICK f, v : SetsAt(f, len, b, size) /\ Joins(v, live, b)
      BY DEF SetsAt, Joins
    <3>3. SumOf(f, v) = SumOf(len, live) + size
      BY <3>1, <3>2, SumGrows
    <3>4. len' = f /\ live' = v
      BY <1>2, <3>2 DEF SetsAt, Joins
    <3> QED
      BY <1>2, <2>1, <3>3, <3>4
  <2>23. ~dangling'
    BY <1>2, <2>1
  <2>24. IsWhole'
    BY <2>8, <2>20, <2>21, <2>22, <2>23 DEF IsWhole
  <2> QED
    BY <2>10, <2>24 DEF HeapInv
<1>14. CASE IsAstray
  <2>1. /\ heap \in live /\ dangling
        /\ \E e \in Nat \ {0} : \E q : /\ Astray(q, e, links, live, heap)
                                       /\ q[e] = base.last
    BY <1>2, <1>14 DEF IsAstray
  <2>2. PICK e \in Nat \ {0} : \E q : Astray(q, e, links, live, heap) /\ q[e] = base.last
    BY <2>1
  <2>3. PICK q : Astray(q, e, links, live, heap) /\ q[e] = base.last
    BY <2>2
  <2>4. base.last = q[e]
    BY <2>3
  <2>5. GoesAstray(r, e, live, b, heap)
    BY <1>1, <1>2, <1>4, <2>1, <2>3, <2>4, AstrayGrows
  <2>6. /\ r.links \in Links(Blocks) /\ r.list \in Headers
        /\ \E p : Astray(p, e + 1, r.links, live \cup {b}, heap) /\ p[e + 1] = r.list.last
    BY <2>5 DEF GoesAstray
  <2>7. HeapTypes'
    BY <1>2, <1>12, <2>6
  <2>8. e + 1 \in Nat \ {0}
    OBVIOUS
  <2>9. \E d \in Nat \ {0} : \E p : /\ Astray(p, d, r.links, live \cup {b}, heap)
                                    /\ p[d] = r.list.last
    BY <2>6, <2>8
  <2>10. \E d \in Nat \ {0} : \E p : Astray(p, d, links', live', heap') /\ p[d] = base'.last
    BY <1>2, <2>9
  <2>11. heap' \in live' /\ dangling' /\ op' = "none"
    BY <1>2, <2>1
  <2>12. IsAstray'
    BY <2>10, <2>11 DEF IsAstray
  <2> QED
    BY <2>7, <2>12 DEF HeapInv
<1> QED
  BY <1>3, <1>13, <1>14

(* Freeing the last block, x, of a chain that has another.                 *)
LEMMA HangingFreed ==
  ASSUME HeapTypes, NEW x,
         \E n \in Nat \ {0} : \E s : Hanging(s, n, links, live, heap) /\ x = s[n],
         x # heap,
         base.last = x \/ LeftBehind(base.last, links, live, heap),
         base.last # x => dangling,
         BlockFree(x), outcome' = "running"
  PROVE  /\ x \in Blocks /\ live' = live \ {x}
         /\ links' \in Links(Blocks) /\ heap \in live'
         /\ base' = base /\ dangling'
         /\ LeftBehind(base.last, links', live', heap)
<1>1. PICK n \in Nat \ {0} : \E s : Hanging(s, n, links, live, heap) /\ x = s[n]
  OBVIOUS
<1>2. PICK s : Hanging(s, n, links, live, heap) /\ x = s[n]
  BY <1>1
<1>3. links \in Links(Blocks) /\ live \in SUBSET Blocks
  BY DEF HeapTypes
<1>4. x \in live /\ heap \in live /\ x \in Blocks
  BY <1>2, <1>3, HangingEnds
<1>5. /\ live' = live \ {x} /\ links' = ListRemove(base, links, x).links
      /\ x # heap => base' = base
      /\ dangling' <=> (dangling \/ (x # heap /\ base.last = x))
  BY <1>4, BlockFreed
<1>6. PICK m : m = ListRemove(base, links, x).links
  OBVIOUS
<1>7. Shrinks(m, n, links, x, live, heap)
  BY <1>2, <1>3, <1>6, HangingShrinks
<1>8. /\ m \in Links(Blocks) /\ m[x].next = NoNode
      /\ \A z \in Blocks \ live : links[z].next = NoNode => m[z].next = NoNode
  BY <1>7 DEF Shrinks
<1>9. LeftBehind(base.last, m, live \ {x}, heap)
  <2>1. CASE base.last = x
    BY <1>4, <1>8, <2>1 DEF LeftBehind
  <2>2. CASE base.last # x
    BY <1>8, <2>2 DEF LeftBehind
  <2> QED
    BY <2>1, <2>2
<1>10. links' = m
  BY <1>5, <1>6
<1>11. dangling'
  BY <1>5
<1> QED
  BY <1>4, <1>5, <1>8, <1>9, <1>10, <1>11

LEMMA FreeHeapTopReturnKeeps ==
  ASSUME HeapInv, FreeHeapTopReturn
  PROVE  HeapInv'
<1>1. /\ outcome = "running" /\ op = "free_heap_top" /\ cursor # NoNode
      /\ cursor = oldTop[1] /\ oldTop[2] <= free[cursor]
      /\ free' = [free EXCEPT ![cursor] = oldTop[2]]
      /\ op' = "none" /\ heap' = heap /\ len' = len /\ pieces' = pieces
  BY DEF FreeHeapTopReturn, Includes
<1>2. HeapTypes /\ (IsWhole \/ IsUnwinding \/ IsAstray)
  BY <1>1 DEF HeapInv, NoHeap, IsEmptied
<1>3. SUFFICES ASSUME outcome' = "running" PROVE HeapInv'
  BY DEF HeapInv
<1>4. PICK c \in Blocks, o \in Nat : oldTop = <<c, o>>
  BY <1>1, <1>2 DEF HeapTypes
<1>5. c = cursor /\ o = oldTop[2] /\ o <= free[c]
  BY <1>1, <1>4
<1>6. /\ free \in [Blocks -> Nat] /\ len \in [Blocks -> Nat] /\ pieces \in Seq(Handed)
      /\ live \in SUBSET Blocks
  BY <1>2 DEF HeapTypes
<1>7. free' = [free EXCEPT ![c] = o] /\ free' \in [Blocks -> Nat]
  BY <1>1, <1>4, <1>5, <1>6
<1>8. ASSUME links' \in Links(Blocks), base' \in Headers, total' \in Nat,
             live' \in SUBSET Blocks
      PROVE  HeapTypes'
  BY <1>1, <1>2, <1>7, <1>8 DEF HeapTypes
<1>9. CASE cursor # heap /\ oldTop[2] = Header /\ BlockFree(cursor)
  <2>1. cursor \in Blocks /\ op # "none"
    BY <1>1, <1>5
  <2>2. live' = live \ {cursor} /\ total' \in Nat /\ base' \in Headers
    BY <1>2, <1>3, <1>9, <2>1, BlockFreed
  <2>3. /\ links' \in Links(Blocks) /\ heap \in live'
        /\ base' = base /\ dangling'
        /\ LeftBehind(base.last, links', live', heap)
    <3>1. CASE IsAstray
      <4>1. /\ heap \in live /\ dangling
            /\ \E r \in Nat \ {0} : \E q : Astray(q, r, links, live, heap) /\ q[r] = cursor
            /\ base.last = cursor \/ LeftBehind(base.last, links, live, heap)
        BY <2>1, <3>1 DEF IsAstray
      <4> QED
        BY <1>2, <1>3, <1>9, <4>1, AstrayFreed
    <3>2. CASE IsWhole \/ IsUnwinding
      <4>1. /\ \E n \in Nat \ {0} : \E s : Hanging(s, n, links, live, heap) /\ cursor = s[n]
            /\ base.last = cursor \/ LeftBehind(base.last, links, live, heap)
            /\ base.last # cursor => dangling
        <5>1. CASE IsWhole
          BY <1>2, <2>1, <5>1, WholeHangs
        <5>2. CASE IsUnwinding
          BY <5>2 DEF IsUnwinding
        <5> QED
          BY <3>2, <5>1, <5>2
      <4> QED
        BY <1>2, <1>3, <1>9, <4>1, HangingFreed
    <3> QED
      BY <1>2, <3>1, <3>2
  <2>4. HeapTypes'
    BY <1>6, <1>8, <2>2, <2>3
  <2>5. \E r \in Nat \ {0} : \E q : Astray(q, r, links', live', heap) /\ q[r] = base.last
    BY <2>3, BecomesAstray
  <2>6. \E r \in Nat \ {0} : \E q : Astray(q, r, links', live', heap') /\ q[r] = base'.last
    BY <1>1, <2>3, <2>5
  <2>7. IsAstray'
    BY <1>1, <2>3, <2>6 DEF IsAstray
  <2> QED
    BY <2>4, <2>7 DEF HeapInv
<1>10. CASE /\ cursor = heap \/ oldTop[2] # Header
            /\ outcome' = IF oldTop[2] < Header THEN "assertion" ELSE outcome
            /\ UNCHANGED <<base, total, links, live, dangling>>
  <2>1. /\ base' = base /\ total' = total /\ links' = links /\ live' = live
        /\ dangling' = dangling
    BY <1>10
  <2>2. HeapTypes'
    <3>1. links \in Links(Blocks) /\ base \in Headers /\ total \in Nat
      BY <1>2 DEF HeapTypes
    <3> QED
      BY <1>6, <1>8, <2>1, <3>1
  <2>3. CASE IsWhole
    <3>1. /\ \E m \in Nat \ {0} : \E s :
               Hanging(s, m, links, live, heap) /\ base = HeaderOf(s, m)
          /\ total = SumOf(len, live) /\ Filled(free, len, live) /\ ~dangling
          /\ Inside(pieces, free, live) /\ Disjoint(pieces) /\ Stacked(pieces, heap)
          /\ oldTop = Top(pieces, heap, Len(pieces)) /\ cursor = base.last
      BY <1>1, <2>3 DEF IsWhole, Kept, AtTop
    <3>2. heap \in live /\ base.last \in live
      BY <1>2, <2>3, WholeCursor
    <3>3. <<c, o>> = Top(pieces, heap, Len(pieces))
      BY <1>4, <3>1
    <3>4. PICK g : SetsAt(g, free, c, o)
      BY DEF SetsAt
    <3>5. Inside(pieces, g, live)
      <4>1. g = [free EXCEPT ![c] = o]
        BY <3>4 DEF SetsAt
      <4> QED
        BY <1>6, <3>1, <3>2, <3>3, <4>1, MarkLowered
    <3>6. g = free' /\ g[c] = o /\ \A x \in Blocks \ {c} : g[x] = free[x]
      BY <1>6, <1>7, <3>4 DEF SetsAt
    <3>7. Header <= o
      <4>1. PICK z \in 0..Len(pieces) : z = Len(pieces)
        BY <1>6
      <4>2. <<c, o>> = Top(pieces, heap, z)
        BY <3>3, <4>1
      <4>3. o >= Header
        BY <1>6, <3>1, <3>2, <4>2, TopIsPlace
      <4> QED
        BY <4>3, HeapAssumption
    <3>8. Filled(g, len, live)
      <4>1. ASSUME NEW x \in live PROVE Header <= g[x] /\ g[x] <= len[x]
        <5>1. Header <= free[x] /\ free[x] <= len[x] /\ x \in Blocks
          BY <1>6, <3>1 DEF Filled
        <5>2. CASE x = c
          <6>1. free[c] \in Nat /\ len[c] \in Nat
            BY <1>6
          <6> QED
            BY <1>5, <3>6, <3>7, <5>1, <5>2, <6>1
        <5>3. CASE x # c
          BY <3>6, <5>1, <5>3
        <5> QED
          BY <5>2, <5>3
      <4> QED
        BY <4>1 DEF Filled
    <3>9. Kept(pieces', free', len', live', heap')
      BY <1>1, <2>1, <3>1, <3>5, <3>6, <3>8 DEF Kept
    <3>10. AtTop'
      <4>1. <<base'.last, free'[base'.last]>> = Top(pieces', heap', Len(pieces'))
        BY <1>1, <1>5, <2>1, <3>1, <3>3, <3>6
      <4> QED
        BY <1>1, <4>1 DEF AtTop
    <3>11. \E m \in Nat \ {0} : \E s :
             Hanging(s, m, links', live', heap') /\ base' = HeaderOf(s, m)
      BY <1>1, <2>1, <3>1
    <3>12. total' = SumOf(len', live') /\ ~dangling'
      BY <1>1, <2>1, <3>1
    <3>13. IsWhole'
      BY <3>9, <3>10, <3>11, <3>12 DEF IsWhole
    <3> QED
      BY <2>2, <3>13 DEF HeapInv
  <2>4. CASE IsUnwinding \/ IsAstray
    <3>1. /\ heap \in live /\ dangling
          /\ \E r \in Nat \ {0} : \E q : Astray(q, r, links, live, heap) /\ q[r] = base.last
      <4>1. CASE IsUnwinding
        <5>1. PICK n \in Nat \ {0} : \E s : Hanging(s, n, links, live, heap) /\ cursor = s[n]
          BY <4>1 DEF IsUnwinding
        <5>2. heap \in live
          BY <5>1, HangingEnds
        <5>3. LeftBehind(base.last, links, live, heap) /\ dangling
          BY <4>1 DEF IsUnwinding
        <5> QED
          BY <5>2, <5>3, BecomesAstray
      <4>2. CASE IsAstray
        <5>1. /\ heap \in live /\ dangling
              /\ \E r \in Nat \ {0} : \E q : Astray(q, r, links, live, heap) /\ q[r] = cursor
              /\ base.last = cursor \/ LeftBehind(base.last, links, live, heap)
          BY <1>1, <4>2 DEF IsAstray
        <5>2. CASE base.last = cursor
          BY <5>1, <5>2
        <5>3. CASE LeftBehind(base.last, links, live, heap)
          BY <5>1, <5>3, BecomesAstray
        <5> QED
          BY <5>1, <5>2, <5>3
      <4> QED
        BY <2>4, <4>1, <4>2
    <3>2. \E r \in Nat \ {0} : \E q : Astray(q, r, links', live', heap') /\ q[r] = base'.last
      BY <1>1, <2>1, <3>1
    <3>3. heap' \in live' /\ dangling'
      BY <1>1, <2>1, <3>1
    <3>4. IsAstray'
      BY <1>1, <3>2, <3>3 DEF IsAstray
    <3> QED
      BY <2>2, <3>4 DEF HeapInv
  <2> QED
    BY <1>2, <2>3, <2>4
<1> QED
  BY <1>9, <1>10 DEF FreeHeapTopReturn

LEMMA FreeTopKeeps ==
  ASSUME HeapInv, FreeTop
  PROVE  HeapInv'
<1>1. PICK b, o, z : /\ b = base.last /\ z = Len(pieces)
                     /\ o = free[b] - Needed(pieces[z].size)
  OBVIOUS
<1>2. /\ outcome = "running" /\ op = "none" /\ heap # NoNode /\ pieces # <<>>
      /\ free' = [free EXCEPT ![b] = o] /\ pieces' = SubSeq(pieces, 1, z - 1)
      /\ heap' = heap /\ len' = len /\ op' = op
  BY <1>1 DEF FreeTop, Begin
<1>3. \/ b # heap /\ o = Header /\ BlockFree(b)
      \/ /\ b = heap \/ o # Header
         /\ outcome' = IF o >= Header THEN "running"
                       ELSE IF o >= 0 THEN "assertion" ELSE "wrapped"
         /\ UNCHANGED <<base, total, links, live, dangling>>
  BY <1>1 DEF FreeTop
<1>4. HeapTypes /\ (IsWhole \/ IsAstray)
  BY <1>2, BetweenCalls
<1>5. SUFFICES ASSUME outcome' = "running" PROVE HeapInv'
  BY DEF HeapInv
<1>6. /\ free \in [Blocks -> Nat] /\ len \in [Blocks -> Nat] /\ pieces \in Seq(Handed)
      /\ live \in SUBSET Blocks /\ base \in Headers /\ links \in Links(Blocks)
      /\ total \in Nat
  BY <1>4 DEF HeapTypes
<1>7. z \in 1..Len(pieces) /\ z - 1 \in 0..Len(pieces) /\ z \in Nat
  BY <1>1, <1>2, <1>6
<1>8. /\ pieces[z].block \in Blocks /\ pieces[z].offset \in Nat
      /\ Needed(pieces[z].size) \in Nat
  BY <1>6, <1>7, PieceEnds
<1>9. b \in Blocks
  <2>1. CASE IsWhole
    BY <1>1, <1>4, <2>1, WholeCursor
  <2>2. CASE IsAstray
    <3>1. PICK r \in Nat \ {0} : \E q : Astray(q, r, links, live, heap) /\ q[r] = base.last
      BY <1>2, <2>2 DEF IsAstray
    <3>2. PICK q : Astray(q, r, links, live, heap) /\ q[r] = base.last
      BY <3>1
    <3>3. r \in 1..r
      OBVIOUS
    <3> QED
      BY <1>1, <3>2, <3>3 DEF Astray
  <2> QED
    BY <1>4, <2>1, <2>2
<1>10. o \in Int /\ Header \in Nat
  BY <1>1, <1>6, <1>8, <1>9, HeapAssumption
<1>11. o \in Nat /\ o >= Header
  <2>1. o >= Header
    BY <1>3, <1>5, <1>10
  <2> QED
    BY <1>10, <2>1
<1>12. free' \in [Blocks -> Nat] /\ pieces' \in Seq(Handed)
  BY <1>2, <1>6, <1>7, <1>9, <1>11
<1>13. ASSUME links' \in Links(Blocks), base' \in Headers, total' \in Nat,
              live' \in SUBSET Blocks
       PROVE  HeapTypes'
  BY <1>2, <1>4, <1>12, <1>13 DEF HeapTypes
<1>14. CASE b # heap /\ o = Header /\ BlockFree(b)
  <2>1. live' = live \ {b} /\ total' \in Nat /\ base' \in Headers
    BY <1>4, <1>5, <1>9, <1>14, BlockFreed
  <2>2. /\ links' \in Links(Blocks) /\ heap \in live'
        /\ base' = base /\ dangling'
        /\ LeftBehind(base.last, links', live', heap)
    <3>1. CASE IsAstray
      <4>1. /\ heap \in live /\ dangling
            /\ \E r \in Nat \ {0} : \E q : Astray(q, r, links, live, heap) /\ q[r] = b
        BY <1>1, <1>2, <3>1 DEF IsAstray
      <4> QED
        BY <1>1, <1>4, <1>5, <1>14, <4>1, AstrayFreed
    <3>2. CASE IsWhole
      <4>1. \E n \in Nat \ {0} : \E s : Hanging(s, n, links, live, heap) /\ b = s[n]
        BY <1>1, <3>2 DEF IsWhole, HeaderOf
      <4> QED
        BY <1>1, <1>4, <1>5, <1>14, <4>1, HangingFreed
    <3> QED
      BY <1>4, <3>1, <3>2
  <2>3. HeapTypes'
    BY <1>6, <1>13, <2>1, <2>2
  <2>4. \E r \in Nat \ {0} : \E q : Astray(q, r, links', live', heap) /\ q[r] = base.last
    BY <2>2, BecomesAstray
  <2>5. \E r \in Nat \ {0} : \E q : Astray(q, r, links', live', heap') /\ q[r] = base'.last
    BY <1>2, <2>2, <2>4
  <2>6. IsAstray'
    BY <1>2, <2>2, <2>5 DEF IsAstray
  <2> QED
    BY <2>3, <2>6 DEF HeapInv
<1>15. CASE (b = heap \/ o # Header) /\ UNCHANGED <<base, total, links, live, dangling>>
  <2>1. /\ base' = base /\ total' = total /\ links' = links /\ live' = live
        /\ dangling' = dangling
    BY <1>15
  <2>2. HeapTypes'
    BY <1>6, <1>13, <2>1
  <2>3. CASE IsWhole
    <3>1. /\ \E m \in Nat \ {0} : \E s :
               Hanging(s, m, links, live, heap) /\ base = HeaderOf(s, m)
          /\ total = SumOf(len, live) /\ Filled(free, len, live) /\ ~dangling
          /\ Inside(pieces, free, live) /\ Disjoint(pieces) /\ Stacked(pieces, heap)
      BY <2>3 DEF IsWhole, Kept
    <3>2. heap \in live /\ b \in live
      BY <1>1, <1>4, <2>3, WholeCursor
    <3>3. <<b, free[b]>> = Top(pieces, heap, z)
      BY <1>1, <1>2, <1>4, <2>3, WholeTop
    <3>4. b = pieces[z].block /\ free[b] = pieces[z].offset + Needed(pieces[z].size)
      BY <1>7, <3>3 DEF Top
    <3>5. o = pieces[z].offset
      BY <1>1, <1>8, <3>4
    <3>6. PICK t, y : t = SubSeq(pieces, 1, y) /\ y = z - 1
      OBVIOUS
    <3>7. y \in 0..Len(pieces) /\ t = SubSeq(pieces, 1, y) /\ pieces' = t
      BY <1>2, <1>7, <3>6
    <3>8. Dropped(t, pieces, free, live, heap, y)
      BY <1>6, <3>1, <3>2, <3>7, PiecesDropped
    <3>9. /\ t \in Seq(Handed) /\ Len(t) = y
          /\ Inside(t, free, live) /\ Disjoint(t) /\ Stacked(t, heap)
          /\ Top(t, heap, y) = Top(pieces, heap, y)
      BY <3>8 DEF Dropped
    <3>10. <<b, o>> = Top(pieces, heap, y)
      <4>1. \/ <<pieces[z].block, pieces[z].offset>> = Top(pieces, heap, z - 1)
            \/ pieces[z].offset = Header /\ pieces[z].block # heap
        BY <1>7, <3>1 DEF Stacked
      <4> QED
        BY <1>15, <3>4, <3>5, <3>6, <4>1
    <3>11. <<b, o>> = Top(t, heap, Len(t))
      BY <3>9, <3>10
    <3>12. PICK g : SetsAt(g, free, b, o)
      BY DEF SetsAt
    <3>13. Inside(t, g, live)
      <4>1. g = [free EXCEPT ![b] = o]
        BY <3>12 DEF SetsAt
      <4> QED
        BY <1>6, <3>2, <3>9, <3>11, <4>1, MarkLowered
    <3>14. g = free' /\ g[b] = o /\ \A x \in Blocks \ {b} : g[x] = free[x]
      BY <1>2, <1>6, <1>9, <3>12 DEF SetsAt
    <3>15. Filled(g, len, live)
      <4>1. ASSUME NEW x \in live PROVE Header <= g[x] /\ g[x] <= len[x]
        <5>1. Header <= free[x] /\ free[x] <= len[x] /\ x \in Blocks
          BY <1>6, <3>1 DEF Filled
        <5>2. CASE x = b
          <6>1. free[b] \in Nat /\ len[b] \in Nat /\ o <= free[b]
            BY <1>1, <1>6, <1>8, <1>9
          <6> QED
            BY <1>10, <1>11, <3>14, <5>1, <5>2, <6>1
        <5>3. CASE x # b
          BY <3>14, <5>1, <5>3
        <5> QED
          BY <5>2, <5>3
      <4> QED
        BY <4>1 DEF Filled
    <3>16. Kept(pieces', free', len', live', heap')
      BY <1>2, <2>1, <3>7, <3>9, <3>13, <3>14, <3>15 DEF Kept
    <3>17. AtTop'
      <4>1. <<base'.last, free'[base'.last]>> = Top(pieces', heap', Len(pieces'))
        BY <1>1, <1>2, <2>1, <3>7, <3>11, <3>14
      <4> QED
        BY <1>2, <4>1 DEF AtTop
    <3>18. \E m \in Nat \ {0} : \E s :
             Hanging(s, m, links', live', heap') /\ base' = HeaderOf(s, m)
      BY <1>2, <2>1, <3>1
    <3>19. total' = SumOf(len', live') /\ ~dangling'
      BY <1>2, <2>1, <3>1
    <3>20. IsWhole'
      BY <3>16, <3>17, <3>18, <3>19 DEF IsWhole
    <3> QED
      BY <2>2, <3>20 DEF HeapInv
  <2>4. CASE IsAstray
    <3>1. IsAstray'
      BY <1>2, <2>1, <2>4 DEF IsAstray
    <3> QED
      BY <2>2, <3>1 DEF HeapInv
  <2> QED
    BY <1>4, <2>3, <2>4
<1> QED
  BY <1>3, <1>14, <1>15

-----------------------------------------------------------------------------
LEMMA NextKeeps ==
  ASSUME HeapInv, [Next]_vars
  PROVE  HeapInv'
<1>1. CASE \E n \in CreateSizes, b \in Blocks : Create(n, b)
  BY <1>1, CreateKeeps
<1>2. CASE \E n \in Sizes : Alloc(n)
  BY <1>2, AllocHereKeeps, AllocAddingKeeps DEF Alloc
<1>3. CASE FreeCall
  BY <1>3, FreeCallKeeps
<1>4. CASE FreeStep
  BY <1>4, FreeStepKeeps
<1>5. CASE FreeReturn
  BY <1>5, FreeReturnKeeps
<1>6. CASE \E k \in 0..Len(pieces) : FreeHeapTopCall(k)
  BY <1>6, FreeHeapTopCallKeeps
<1>7. CASE FreeHeapTopStep
  BY <1>7, FreeHeapTopStepKeeps
<1>8. CASE FreeHeapTopReturn
  BY <1>8, FreeHeapTopReturnKeeps
<1>9. CASE FreeTop
  BY <1>9, FreeTopKeeps
<1>10. CASE UNCHANGED vars
  BY <1>10 DEF vars, chain, HeapInv, HeapTypes, NoHeap, IsWhole, IsUnwinding, IsEmptied,
     IsAstray, AtTop
<1> QED
  BY <1>1, <1>2, <1>3, <1>4, <1>5, <1>6, <1>7, <1>8, <1>9, <1>10 DEF Next

(* The heap is always in one of the five shapes.                           *)
THEOREM HeapInvAlways == Spec => []HeapInv
<1>1. Init => HeapInv
  BY InitEstablishes
<1>2. HeapInv /\ [Next]_vars => HeapInv'
  BY NextKeeps
<1> QED
  BY <1>1, <1>2, PTL DEF Spec

LEMMA IntactIsWhole ==
  ASSUME HeapInv, Intact
  PROVE  HeapTypes /\ IsWhole /\ op = "none"
BY BetweenCalls DEF Intact, IsAstray

(* Every piece in use lies in a block that malloc has handed out, between  *)
(* its header and its free mark, starts aligned and overlaps no other.     *)
THEOREM PiecesStayApart == Spec => []PiecesApart
<1>1. HeapInv => PiecesApart
  <2>1. SUFFICES ASSUME HeapInv, Intact
                 PROVE  /\ \A i \in 1..Len(pieces) :
                             /\ pieces[i].block \in live /\ pieces[i].offset >= Header
                             /\ pieces[i].offset % Alignment = 0
                             /\ pieces[i].offset + pieces[i].size <= free[pieces[i].block]
                             /\ free[pieces[i].block] <= len[pieces[i].block]
                        /\ \A i, j \in 1..Len(pieces) :
                             i < j /\ pieces[i].block = pieces[j].block =>
                               pieces[i].offset + pieces[i].size <= pieces[j].offset
    <3>1. HeapTypes /\ HeapInv /\ Intact => DOMAIN pieces = 1..Len(pieces)
      BY DEF HeapTypes
    <3>2. HeapInv /\ Intact => HeapTypes
      BY IntactIsWhole
    <3> QED
      BY <3>1, <3>2 DEF PiecesApart
  <2>2. /\ pieces \in Seq(Handed) /\ free \in [Blocks -> Nat] /\ live \in SUBSET Blocks
        /\ Filled(free, len, live) /\ Inside(pieces, free, live) /\ Disjoint(pieces)
    BY <2>1, IntactIsWhole DEF HeapTypes, IsWhole, Kept
  <2>3. ASSUME NEW i \in 1..Len(pieces)
        PROVE  /\ pieces[i].block \in live /\ pieces[i].offset >= Header
               /\ pieces[i].offset % Alignment = 0
               /\ pieces[i].offset + pieces[i].size <= free[pieces[i].block]
               /\ free[pieces[i].block] <= len[pieces[i].block]
    <3>1. /\ pieces[i].block \in live /\ pieces[i].offset >= Header
          /\ pieces[i].offset % Alignment = 0
          /\ pieces[i].offset + Needed(pieces[i].size) <= free[pieces[i].block]
      BY <2>2 DEF Inside
    <3>2. /\ pieces[i].offset \in Nat /\ pieces[i].size \in Nat
          /\ Needed(pieces[i].size) \in Nat /\ Needed(pieces[i].size) >= pieces[i].size
      BY <2>2, PieceEnds
    <3>3. free[pieces[i].block] \in Nat /\ free[pieces[i].block] <= len[pieces[i].block]
      BY <2>2, <3>1 DEF Filled
    <3> QED
      BY <3>1, <3>2, <3>3
  <2>4. ASSUME NEW i \in 1..Len(pieces), NEW j \in 1..Len(pieces),
               i < j, pieces[i].block = pieces[j].block
        PROVE  pieces[i].offset + pieces[i].size <= pieces[j].offset
    <3>1. pieces[i].offset + Needed(pieces[i].size) <= pieces[j].offset
      BY <2>2, <2>4 DEF Disjoint
    <3>2. /\ pieces[i].offset \in Nat /\ pieces[i].size \in Nat
          /\ Needed(pieces[i].size) \in Nat /\ Needed(pieces[i].size) >= pieces[i].size
      BY <2>2, PieceEnds
    <3>3. pieces[j].offset \in Nat
      BY <2>2, PieceEnds
    <3> QED
      BY <3>1, <3>2, <3>3
  <2> QED
    BY <2>3, <2>4
<1> QED
  BY <1>1, HeapInvAlways, PTL

(* The two getters of the top find the newest piece.                       *)
THEOREM NewestStaysOnTop == Spec => []NewestOnTop
<1>1. HeapInv => NewestOnTop
  <2>1. SUFFICES ASSUME HeapInv, Intact
                 PROVE  /\ GetHeapTop = TopAfter(Len(pieces))
                        /\ pieces # <<>> =>
                             GetTop(pieces[Len(pieces)].size) =
                               <<pieces[Len(pieces)].block, pieces[Len(pieces)].offset>>
    BY DEF NewestOnTop
  <2>2. HeapTypes /\ IsWhole /\ op = "none"
    BY <2>1, IntactIsWhole
  <2>3. /\ <<base.last, free[base.last]>> = Top(pieces, heap, Len(pieces))
        /\ free[base.last] \in Nat
    BY <2>2, WholeTop
  <2>4. GetHeapTop = TopAfter(Len(pieces))
    BY <2>3 DEF GetHeapTop, TopAfter, Top
  <2>5. ASSUME pieces # <<>>
        PROVE  GetTop(pieces[Len(pieces)].size) =
                 <<pieces[Len(pieces)].block, pieces[Len(pieces)].offset>>
    <3>1. pieces \in Seq(Handed)
      BY <2>2 DEF HeapTypes
    <3>2. PICK z \in 1..Len(pieces) : z = Len(pieces)
      BY <2>5, <3>1
    <3>3. pieces[z].offset \in Nat /\ Needed(pieces[z].size) \in Nat
      BY <3>1, PieceEnds
    <3>4. base.last = pieces[z].block
          /\ free[base.last] = pieces[z].offset + Needed(pieces[z].size)
      BY <2>3, <3>2 DEF Top
    <3>5. free[base.last] - Needed(pieces[z].size) = pieces[z].offset
      BY <2>3, <3>3, <3>4
    <3> QED
      BY <3>2, <3>4, <3>5 DEF GetTop
  <2> QED
    BY <2>4, <2>5
<1> QED
  BY <1>1, HeapInvAlways, PTL

(* Every block is in the chain once, and mem_heap_get_size counts exactly  *)
(* their bytes.                                                            *)
THEOREM ChainStaysWhole == Spec => []ChainIsWhole
<1>1. HeapInv => ChainIsWhole
  <2>1. SUFFICES ASSUME HeapInv, Intact
                 PROVE  /\ {Visited(base, links)[i] : i \in 1..base.count} = live
                        /\ base.count = Cardinality(live)
                        /\ Visited(base, links)[1] = heap
                        /\ Visited(base, links)[base.count] = base.last
                        /\ links[base.last].next = NoNode
                        /\ total = MapThenSumSet(LAMBDA b : len[b], live)
    BY DEF ChainIsWhole
  <2>2. HeapTypes /\ IsWhole
    BY <2>1, IntactIsWhole
  <2>3. PICK n \in Nat \ {0} : \E s : Hanging(s, n, links, live, heap) /\ base = HeaderOf(s, n)
    BY <2>2 DEF IsWhole
  <2>4. PICK s : Hanging(s, n, links, live, heap) /\ base = HeaderOf(s, n)
    BY <2>3
  <2>5. base.count = n /\ base.last = s[n]
    BY <2>4 DEF HeaderOf
  <2>6. Along(s, n, Blocks, base, links) /\ Path(s, n, Blocks) /\ n \in Nat
    BY <2>4 DEF Along, Hanging
  <2>7. PICK at : at = Visited(base, links)
    OBVIOUS
  <2>8. at = [i \in 1..n |-> s[i]]
    BY <2>6, <2>7, VisitedIsPath
  <2>9. \A i \in 1..n : at[i] = s[i]
    BY <2>8
  <2>10. {at[i] : i \in 1..n} = NodesOf(s, n)
    BY <2>9 DEF NodesOf
  <2>11. NodesOf(s, n) = live /\ s[1] = heap
    BY <2>4 DEF Hanging
  <2>12. Cardinality(NodesOf(s, n)) = n
    BY <2>6, NodesCounted
  <2>13. at[1] = s[1] /\ at[n] = s[n]
    BY <2>9
  <2>14. links[base.last].next = NoNode
    BY <2>2, WholeCursor
  <2>15. total = MapThenSumSet(LAMBDA b : len[b], live)
    BY <2>2 DEF IsWhole, SumOf
  <2>16. /\ {at[i] : i \in 1..base.count} = live
         /\ at[1] = heap /\ at[base.count] = base.last
    BY <2>5, <2>10, <2>11, <2>13
  <2> QED
    BY <2>5, <2>7, <2>11, <2>12, <2>14, <2>15, <2>16
<1> QED
  BY <1>1, HeapInvAlways, PTL

(* When mem_heap_free is done it has freed every block, even of a heap     *)
(* whose chain was damaged.                                                *)
THEOREM NothingEverLeaks == Spec => []NothingLeaks
<1>1. HeapInv => NothingLeaks
  <2>1. SUFFICES ASSUME HeapInv, outcome = "running", heap = NoNode PROVE live = {}
    BY DEF NothingLeaks
  <2>2. HeapTypes /\ (NoHeap \/ IsWhole \/ IsUnwinding \/ IsEmptied \/ IsAstray)
    BY <2>1 DEF HeapInv
  <2>3. NoNode \notin Blocks /\ live \subseteq Blocks
    BY <2>2, HeapAssumption DEF HeapTypes
  <2>4. ~ IsWhole
    BY <2>1, <2>2, WholeCursor
  <2>5. ~ IsAstray
    BY <2>1, <2>3 DEF IsAstray
  <2>6. ~ IsUnwinding
    <3>1. SUFFICES ASSUME IsUnwinding PROVE FALSE
      OBVIOUS
    <3>2. PICK n \in Nat \ {0} : \E s : Hanging(s, n, links, live, heap) /\ cursor = s[n]
      BY <3>1 DEF IsUnwinding
    <3>3. heap \in live
      BY <3>2, HangingEnds
    <3> QED
      BY <2>1, <2>3, <3>3
  <2> QED
    BY <2>2, <2>4, <2>5, <2>6 DEF NoHeap, IsEmptied
<1> QED
  BY <1>1, HeapInvAlways, PTL

(* The walk of mem_heap_free_heap_top is never at the end of the chain.    *)
THEOREM TopIsAlwaysFound == Spec => []TopIsFound
<1>1. HeapInv => TopIsFound
  <2>1. SUFFICES ASSUME HeapInv, outcome = "running", op = "free_heap_top"
                 PROVE  cursor # NoNode
    BY DEF TopIsFound
  <2>2. HeapTypes /\ (IsWhole \/ IsUnwinding \/ IsAstray)
    BY <2>1 DEF HeapInv, NoHeap, IsEmptied
  <2>3. NoNode \notin Blocks
    BY HeapAssumption
  <2>4. ASSUME IsWhole PROVE cursor # NoNode
    BY <2>1, <2>2, <2>4, WholeCursor
  <2>5. ASSUME IsUnwinding PROVE cursor # NoNode
    <3>1. PICK n \in Nat \ {0} : \E s : Hanging(s, n, links, live, heap) /\ cursor = s[n]
      BY <2>5 DEF IsUnwinding
    <3>2. cursor \in Blocks
      BY <3>1, HangingEnds
    <3> QED
      BY <2>3, <3>2
  <2>6. ASSUME IsAstray PROVE cursor # NoNode
    <3>1. PICK r \in Nat \ {0} : \E q : Astray(q, r, links, live, heap) /\ q[r] = cursor
      BY <2>1, <2>6 DEF IsAstray
    <3>2. PICK q : Astray(q, r, links, live, heap) /\ q[r] = cursor
      BY <3>1
    <3>3. r \in 1..r
      OBVIOUS
    <3>4. cursor \in Blocks
      BY <3>2, <3>3 DEF Astray
    <3> QED
      BY <2>3, <3>4
  <2> QED
    BY <2>2, <2>4, <2>5, <2>6
<1> QED
  BY <1>1, HeapInvAlways, PTL
-----------------------------------------------------------------------------
(***************************************************************************)
(* Radix, and division by it.                                              *)
(***************************************************************************)
LEMMA Radices ==
  /\ Radix \in [Nat -> Nat \ {0}]
  /\ Radix[0] = 1
  /\ \A k \in Nat : Radix[k + 1] = ByteModulus * Radix[k]
<1> DEFINE Multiplies(f) == f = [k \in Nat |-> IF k = 0 THEN 1 ELSE ByteModulus * f[k - 1]]
<1>1. PICK S, g : S = Nat \ {0} /\ g = [x \in S |-> ByteModulus * x]
  OBVIOUS
<1>2. PICK a \in S : a = 1
  BY <1>1
<1>3. g \in [S -> S]
  BY <1>1, DynAssumption
<1>4. PICK f \in [Nat -> S] : f[0] = a /\ \A k \in Nat : f[k + 1] = g[f[k]]
  BY <1>3, Iterates
<1>5. \A k \in Nat : f[k] = IF k = 0 THEN 1 ELSE ByteModulus * f[k - 1]
  <2> SUFFICES ASSUME NEW k \in Nat, k # 0 PROVE f[k] = ByteModulus * f[k - 1]
    BY <1>2, <1>4
  <2>1. k - 1 \in Nat /\ (k - 1) + 1 = k
    OBVIOUS
  <2>2. f[k] = g[f[k - 1]] /\ f[k - 1] \in S
    BY <1>4, <2>1
  <2> QED
    BY <1>1, <2>2
<1>6. f = [k \in Nat |-> f[k]]
  BY <1>4
<1>7. Multiplies(f)
  BY <1>5, <1>6
<1>8. Radix = CHOOSE e : Multiplies(e)
  BY DEF Radix
<1>9. Multiplies(Radix)
  BY <1>7, <1>8
<1>10. PICK p : p = Radix
  OBVIOUS
<1>11. p = [k \in Nat |-> IF k = 0 THEN 1 ELSE ByteModulus * p[k - 1]]
  BY <1>9, <1>10
<1>12. p[0] = 1 /\ \A k \in Nat : p[k + 1] = ByteModulus * p[k]
  <2>1. \A k \in Nat : k + 1 \in Nat /\ k + 1 # 0 /\ (k + 1) - 1 = k
    OBVIOUS
  <2> QED
    BY <1>11, <2>1
<1> DEFINE U == {k \in Nat : p[k] \in Nat \ {0}}
<1>13. 0 \in U /\ \A k \in Nat : k \in U => k + 1 \in U
  <2>1. \A x \in Nat \ {0} : ByteModulus * x \in Nat \ {0}
    BY DynAssumption
  <2> QED
    BY <1>12, <2>1
<1>14. \A k \in Nat : k \in U
  <2> HIDE DEF U
  <2> QED
    BY <1>13, AllNaturals
<1>15. p \in [Nat -> Nat \ {0}]
  BY <1>11, <1>14
<1> QED
  BY <1>10, <1>12, <1>15

LEMMA RadixOfSum ==
  ASSUME NEW i \in Nat
  PROVE  \A k \in Nat : Radix[i + k] = Radix[i] * Radix[k]
<1> DEFINE U == {k \in Nat : Radix[i + k] = Radix[i] * Radix[k]}
<1>1. 0 \in U
  BY Radices
<1>2. ASSUME NEW k \in Nat, k \in U PROVE k + 1 \in U
  <2>1. PICK x, y, z : x = Radix[i] /\ y = Radix[k] /\ z = Radix[i + k]
    OBVIOUS
  <2>2. x \in Nat /\ y \in Nat /\ z = x * y
    BY <1>2, <2>1, Radices
  <2>3. i + (k + 1) = (i + k) + 1 /\ i + k \in Nat
    OBVIOUS
  <2>4. Radix[i + (k + 1)] = ByteModulus * z /\ Radix[k + 1] = ByteModulus * y
    BY <2>1, <2>3, Radices
  <2>5. ByteModulus * (x * y) = x * (ByteModulus * y)
    BY <2>2, DynAssumption
  <2> QED
    BY <2>1, <2>2, <2>4, <2>5
<1>3. \A k \in Nat : k \in U => k + 1 \in U
  BY <1>2
<1> HIDE DEF U
<1>4. \A k \in Nat : k \in U
  BY <1>1, <1>3, AllNaturals
<1> USE DEF U
<1> QED
  BY <1>4

(* Quotient and remainder are what they have to be, and nothing else is.   *)
LEMMA Divided ==
  ASSUME NEW m \in Nat \ {0}, NEW x \in Nat
  PROVE  x \div m \in Nat /\ x % m \in 0..(m - 1) /\ x = m * (x \div m) + (x % m)
<1>1. x \div m \in Int /\ x % m \in 0..(m - 1) /\ x = m * (x \div m) + (x % m)
  OBVIOUS
<1>2. x \div m >= 0
  BY <1>1
<1> QED
  BY <1>1, <1>2

LEMMA DividedOnce ==
  ASSUME NEW m \in Nat \ {0}, NEW x \in Nat, NEW q \in Nat, NEW r \in 0..(m - 1),
         x = m * q + r
  PROVE  x \div m = q /\ x % m = r
<1>1. PICK p \in Nat, s \in 0..(m - 1) : p = x \div m /\ s = x % m /\ x = m * p + s
  BY Divided
<1>2. p <= q
  <2> SUFFICES ASSUME p >= q + 1 PROVE FALSE
    OBVIOUS
  <2>1. m * p >= m * (q + 1)
    OBVIOUS
  <2>2. m * (q + 1) = m * q + m
    OBVIOUS
  <2> QED
    BY <1>1, <2>1, <2>2
<1>3. q <= p
  <2> SUFFICES ASSUME q >= p + 1 PROVE FALSE
    OBVIOUS
  <2>1. m * q >= m * (p + 1)
    OBVIOUS
  <2>2. m * (p + 1) = m * p + m
    OBVIOUS
  <2> QED
    BY <1>1, <2>1, <2>2
<1>4. p = q
  BY <1>1, <1>2, <1>3
<1> QED
  BY <1>1, <1>4

(* Dividing by two numbers in turn is dividing by their product.           *)
LEMMA DividedTwice ==
  ASSUME NEW m \in Nat \ {0}, NEW p \in Nat \ {0}, NEW x \in Nat
  PROVE  x \div (m * p) = (x \div p) \div m
<1>1. PICK q \in Nat, r \in 0..(p - 1) : q = x \div p /\ x = p * q + r
  BY Divided
<1>2. PICK h \in Nat, s \in 0..(m - 1) : h = q \div m /\ q = m * h + s
  BY Divided
<1>3. m * p \in Nat \ {0}
  OBVIOUS
<1>4. p * (m * h + s) = (m * p) * h + p * s
  OBVIOUS
<1>5. x = (m * p) * h + (p * s + r)
  <2>1. p * q = p * (m * h + s)
    BY <1>2
  <2>2. p * q = (m * p) * h + p * s /\ x = p * q + r
    BY <1>1, <1>4, <2>1
  <2> QED
    BY <2>2
<1>6. p * s <= p * (m - 1)
  OBVIOUS
<1>7. p * (m - 1) = m * p - p
  OBVIOUS
<1>8. p * s + r \in 0..(m * p - 1)
  <2>1. p * s \in Nat
    OBVIOUS
  <2> QED
    BY <1>3, <1>6, <1>7, <2>1
<1>9. x \div (m * p) = h
  BY <1>3, <1>5, <1>8, DividedOnce
<1> QED
  BY <1>1, <1>2, <1>9

(* A remainder by m * p, from the one by p of the quotient by m.           *)
LEMMA RemainderOfProduct ==
  ASSUME NEW m \in Nat \ {0}, NEW p \in Nat \ {0}, NEW x \in Nat
  PROVE  x % (m * p) = m * ((x \div m) % p) + (x % m)
<1>1. PICK q \in Nat, r \in 0..(m - 1) : q = x \div m /\ r = x % m /\ x = m * q + r
  BY Divided
<1>2. PICK h \in Nat, s \in 0..(p - 1) : s = q % p /\ q = p * h + s
  BY Divided
<1>3. m * p \in Nat \ {0}
  OBVIOUS
<1>4. m * (p * h + s) = (m * p) * h + m * s
  OBVIOUS
<1>5. x = (m * p) * h + (m * s + r)
  <2>1. m * q = m * (p * h + s)
    BY <1>2
  <2>2. m * q = (m * p) * h + m * s /\ x = m * q + r
    BY <1>1, <1>4, <2>1
  <2> QED
    BY <2>2
<1>6. m * s <= m * (p - 1)
  OBVIOUS
<1>7. m * (p - 1) = m * p - m
  OBVIOUS
<1>8. m * s + r \in 0..(m * p - 1)
  <2>1. m * s \in Nat
    OBVIOUS
  <2> QED
    BY <1>3, <1>6, <1>7, <2>1
<1>9. x % (m * p) = m * s + r
  BY <1>3, <1>5, <1>8, DividedOnce
<1> QED
  BY <1>1, <1>2, <1>9

(* What is divided grows with what it is divided from.                     *)
LEMMA QuotientsGrow ==
  ASSUME NEW m \in Nat \ {0}, NEW x \in Nat, NEW y \in Nat, x <= y
  PROVE  x \div m <= y \div m
<1>1. PICK p \in Nat, r \in 0..(m - 1) : p = x \div m /\ x = m * p + r
  BY Divided
<1>2. PICK q \in Nat, s \in 0..(m - 1) : q = y \div m /\ y = m * q + s
  BY Divided
<1>3. SUFFICES ASSUME p >= q + 1 PROVE FALSE
  BY <1>1, <1>2
<1>4. m * p >= m * (q + 1)
  BY <1>3
<1>5. m * (q + 1) = m * q + m
  OBVIOUS
<1> QED
  BY <1>1, <1>2, <1>4, <1>5

-----------------------------------------------------------------------------
(***************************************************************************)
(* byte.c                                                                  *)
(***************************************************************************)
LEMMA IsBytes ==
  ASSUME NEW n \in Nat, NEW w \in Nat
  PROVE  /\ BigEndian(n, w) \in Seq(Byte) /\ Len(BigEndian(n, w)) = w
         /\ \A k \in 1..w : BigEndian(n, w)[k] = (n \div Radix[w - k]) % ByteModulus
         /\ \A k \in 1..w : BigEndian(n, w)[k] \in Byte
<1>1. PICK b : b = BigEndian(n, w)
  OBVIOUS
<1>2. b = [k \in 1..w |-> (n \div Radix[w - k]) % ByteModulus]
  BY <1>1 DEF BigEndian
<1>3. ASSUME NEW k \in 1..w PROVE (n \div Radix[w - k]) % ByteModulus \in Byte
  <2>1. Radix[w - k] \in Nat \ {0}
    BY Radices
  <2>2. n \div Radix[w - k] \in Nat
    BY <2>1, Divided
  <2> QED
    BY <2>2, Divided, DynAssumption DEF Byte
<1>4. b \in [1..w -> Byte]
  BY <1>2, <1>3
<1>5. b \in Seq(Byte) /\ Len(b) = w
  BY <1>4
<1> QED
  BY <1>1, <1>2, <1>4, <1>5

LEMMA NumbersAre ==
  ASSUME NEW b \in Seq(Byte)
  PROVE  /\ Numbers(b) \in [0..Len(b) -> Nat] /\ Numbers(b)[0] = 0
         /\ \A k \in 1..Len(b) : Numbers(b)[k] = ByteModulus * Numbers(b)[k - 1] + b[k]
<1>1. PICK n \in Nat : n = Len(b)
  OBVIOUS
<1>2. PICK g : g = [z \in (1..n) \X Nat |-> ByteModulus * z[2] + b[z[1]]]
  OBVIOUS
<1>3. g \in [(1..n) \X Nat -> Nat]
  <2>1. \A k \in 1..n : b[k] \in Nat
    BY <1>1, DynAssumption DEF Byte
  <2>2. \A x \in Nat : ByteModulus * x \in Nat
    BY DynAssumption
  <2>3. ASSUME NEW z \in (1..n) \X Nat PROVE ByteModulus * z[2] + b[z[1]] \in Nat
    <3>1. z[1] \in 1..n /\ z[2] \in Nat
      OBVIOUS
    <3>2. ByteModulus * z[2] \in Nat /\ b[z[1]] \in Nat
      BY <2>1, <2>2, <3>1
    <3> QED
      BY <3>2
  <2> QED
    BY <1>2, <2>3
<1>4. PICK a \in Nat : a = 0
  OBVIOUS
<1>5. PICK f : Computes(f, n, Nat, a, g)
  BY <1>3, Recursion
<1>6. f \in [0..n -> Nat] /\ f = [k \in 0..n |-> IF k = 0 THEN a ELSE g[<<k, f[k - 1]>>]]
  BY <1>5 DEF Computes
<1> DEFINE Reads(e) == e = [k \in 0..Len(b) |-> IF k = 0 THEN 0 ELSE ByteModulus * e[k - 1] + b[k]]
<1>7. ASSUME NEW k \in 0..n PROVE f[k] = IF k = 0 THEN 0 ELSE ByteModulus * f[k - 1] + b[k]
  <2>1. CASE k = 0
    BY <1>4, <1>6, <2>1
  <2>2. CASE k # 0
    <3>1. k \in 1..n /\ k - 1 \in 0..n
      BY <2>2
    <3>2. f[k - 1] \in Nat
      BY <1>6, <3>1
    <3>3. f[k] = g[<<k, f[k - 1]>>]
      BY <1>6, <2>2
    <3>4. <<k, f[k - 1]>> \in (1..n) \X Nat
      BY <3>1, <3>2
    <3> QED
      BY <1>2, <2>2, <3>3, <3>4
  <2> QED
    BY <2>1, <2>2
<1>8. f = [k \in 0..n |-> f[k]]
  BY <1>6
<1>9. Reads(f)
  BY <1>1, <1>7, <1>8
<1>10. Numbers(b) = CHOOSE e : Reads(e)
  BY DEF Numbers
<1>11. Reads(Numbers(b))
  BY <1>9, <1>10
<1>12. PICK p : p = Numbers(b)
  OBVIOUS
<1>13. p = [k \in 0..n |-> IF k = 0 THEN 0 ELSE ByteModulus * p[k - 1] + b[k]]
  BY <1>1, <1>11, <1>12
<1>14. p[0] = 0 /\ \A k \in 1..n : p[k] = ByteModulus * p[k - 1] + b[k]
  BY <1>13
<1> DEFINE U == {k \in Nat : k <= n => p[k] \in Nat}
<1>15. 0 \in U
  BY <1>14
<1>16. ASSUME NEW k \in Nat, k \in U PROVE k + 1 \in U
  <2> SUFFICES ASSUME k + 1 <= n PROVE p[k + 1] \in Nat
    OBVIOUS
  <2>1. p[k] \in Nat /\ k + 1 \in 1..n /\ (k + 1) - 1 = k
    BY <1>16
  <2>2. b[k + 1] \in Nat
    BY <1>1, <2>1, DynAssumption DEF Byte
  <2>3. ByteModulus * p[k] \in Nat
    BY <2>1, DynAssumption
  <2>4. p[k + 1] = ByteModulus * p[k] + b[k + 1]
    BY <1>14, <2>1
  <2> QED
    BY <2>2, <2>3, <2>4
<1>17. \A k \in Nat : k \in U
  <2>1. \A k \in Nat : k \in U => k + 1 \in U
    BY <1>16
  <2> HIDE DEF U
  <2> QED
    BY <1>15, <2>1, AllNaturals
<1>18. p \in [0..n -> Nat]
  BY <1>13, <1>17
<1> QED
  BY <1>1, <1>12, <1>14, <1>18

(* The first k of w bytes make what dividing by the others leaves.         *)
LEMMA NumbersOfBytes ==
  ASSUME NEW n \in Nat, NEW w \in Nat
  PROVE  \A k \in 0..w : Numbers(BigEndian(n, w))[k] = (n \div Radix[w - k]) % Radix[k]
<1>1. PICK b : b = BigEndian(n, w)
  OBVIOUS
<1>2. b \in Seq(Byte) /\ Len(b) = w /\ \A k \in 1..w : b[k] = (n \div Radix[w - k]) % ByteModulus
  BY <1>1, IsBytes
<1>3. PICK p : p = Numbers(b)
  OBVIOUS
<1>4. p \in [0..w -> Nat] /\ p[0] = 0 /\ \A k \in 1..w : p[k] = ByteModulus * p[k - 1] + b[k]
  BY <1>2, <1>3, NumbersAre
<1> DEFINE U == {k \in Nat : k <= w => p[k] = (n \div Radix[w - k]) % Radix[k]}
<1>5. 0 \in U
  <2>1. Radix[w - 0] \in Nat \ {0} /\ Radix[0] = 1
    BY Radices
  <2>2. PICK q \in Nat : q = n \div Radix[w - 0]
    BY <2>1, Divided
  <2>3. q % 1 = 0
    OBVIOUS
  <2> QED
    BY <1>4, <2>1, <2>2, <2>3
<1>6. ASSUME NEW k \in Nat, k \in U PROVE k + 1 \in U
  <2> SUFFICES ASSUME k + 1 <= w PROVE p[k + 1] = (n \div Radix[w - (k + 1)]) % Radix[k + 1]
    OBVIOUS
  <2>1. PICK i \in Nat : i = w - (k + 1)
    OBVIOUS
  <2>2. i + 1 = w - k /\ k <= w /\ k + 1 \in 1..w /\ (k + 1) - 1 = k
    BY <2>1
  <2>3. PICK r \in Nat \ {0}, s \in Nat \ {0} : r = Radix[i] /\ s = Radix[k]
    BY Radices
  <2>4. Radix[w - k] = ByteModulus * r /\ Radix[k + 1] = ByteModulus * s
    BY <2>2, <2>3, Radices
  <2>5. PICK x \in Nat : x = n \div r
    BY <2>3, Divided
  <2>6. n \div (ByteModulus * r) = x \div ByteModulus
    BY <2>5, DividedTwice, DynAssumption
  <2>7. x % (ByteModulus * s) = ByteModulus * ((x \div ByteModulus) % s) + (x % ByteModulus)
    BY RemainderOfProduct, DynAssumption
  <2>8. p[k] = (x \div ByteModulus) % s
    BY <1>6, <2>2, <2>3, <2>4, <2>6
  <2>9. b[k + 1] = x % ByteModulus
    BY <1>2, <2>1, <2>2, <2>3, <2>5
  <2>10. p[k + 1] = ByteModulus * p[k] + b[k + 1]
    BY <1>4, <2>2
  <2> QED
    BY <2>1, <2>3, <2>4, <2>5, <2>7, <2>8, <2>9, <2>10
<1>7. \A k \in Nat : k \in U
  <2>1. \A k \in Nat : k \in U => k + 1 \in U
    BY <1>6
  <2> HIDE DEF U
  <2> QED
    BY <1>5, <2>1, AllNaturals
<1> QED
  BY <1>1, <1>3, <1>7

LEMMA NumberOfBytes ==
  ASSUME NEW n \in Nat, NEW w \in Nat
  PROVE  Number(BigEndian(n, w)) = n % Radix[w]
<1>1. Len(BigEndian(n, w)) = w
  BY IsBytes
<1>2. Numbers(BigEndian(n, w))[w] = (n \div Radix[w - w]) % Radix[w]
  BY NumbersOfBytes
<1>3. w - w = 0 /\ Radix[0] = 1
  BY Radices
<1>4. n \div 1 = n
  BY DividedOnce
<1> QED
  BY <1>1, <1>2, <1>3, <1>4 DEF Number

(* Two sequences with the same elements are the same.                      *)
LEMMA SameBytes ==
  ASSUME NEW S, NEW s \in Seq(S), NEW t \in Seq(S), Len(s) = Len(t),
         \A k \in 1..Len(s) : s[k] = t[k]
  PROVE  s = t
OBVIOUS

IsSum(w, i, j) == w = i + j

(* The bytes of a quotient are the first bytes of what was divided.        *)
LEMMA HigherBytes ==
  ASSUME NEW v \in Nat, NEW i \in Nat, NEW j \in Nat, NEW w \in Nat, IsSum(w, i, j),
         NEW k \in 1..i
  PROVE  BigEndian(v \div Radix[j], i)[k] = BigEndian(v, w)[k]
<1>0. i - k \in Nat
  OBVIOUS
<1>1. PICK p \in Nat \ {0}, m \in Nat \ {0} : p = Radix[j] /\ m = Radix[i - k]
  <2>1. Radix[j] \in Nat \ {0} /\ Radix[i - k] \in Nat \ {0}
    BY <1>0, Radices
  <2> QED
    BY <2>1
<1>2. Radix[(i - k) + j] = m * p
  <2>1. Radix[(i - k) + j] = Radix[i - k] * Radix[j]
    BY <1>0, RadixOfSum
  <2> QED
    BY <1>1, <2>1
<1>3. v \div p \in Nat /\ v \div (m * p) = (v \div p) \div m
  <2>1. v \div p \in Nat
    BY Divided
  <2>2. v \div (m * p) = (v \div p) \div m
    BY DividedTwice
  <2> QED
    BY <2>1, <2>2
<1>4. k \in 1..w /\ w - k = (i - k) + j
  BY DEF IsSum
<1>5. BigEndian(v \div p, i)[k] = ((v \div p) \div m) % ByteModulus
  <2>1. PICK x \in Nat : x = v \div p
    BY <1>3
  <2>2. BigEndian(x, i)[k] = (x \div Radix[i - k]) % ByteModulus
    BY IsBytes
  <2> QED
    BY <1>1, <2>1, <2>2
<1>6. BigEndian(v, w)[k] = (v \div (m * p)) % ByteModulus
  <2>1. BigEndian(v, w)[k] = (v \div Radix[w - k]) % ByteModulus
    BY <1>4, IsBytes
  <2> QED
    BY <1>2, <1>4, <2>1
<1> QED
  BY <1>1, <1>3, <1>5, <1>6

LEMMA LowerBytes ==
  ASSUME NEW v \in Nat, NEW i \in Nat, NEW j \in Nat, NEW w \in Nat, IsSum(w, i, j),
         NEW k \in 1..j, NEW x \in Nat, IsSum(x, i, k)
  PROVE  BigEndian(v, j)[k] = BigEndian(v, w)[x]
<1>1. x \in 1..w /\ w - x = j - k
  BY DEF IsSum
<1>2. BigEndian(v, j)[k] = (v \div Radix[j - k]) % ByteModulus
  BY IsBytes
<1>3. BigEndian(v, w)[x] = (v \div Radix[w - x]) % ByteModulus
  BY <1>1, IsBytes
<1> QED
  BY <1>1, <1>2, <1>3

LEMMA HalfBytes ==
  ASSUME NEW v \in Nat, NEW k \in 1..4
  PROVE  /\ BigEndian(v \div Radix[4], 4)[k] = BigEndian(v, 8)[k]
         /\ BigEndian(v, 4)[k] = BigEndian(v, 8)[4 + k]
<1>1. ASSUME NEW i \in Nat, NEW w \in Nat, w = i + i, NEW o \in 1..i
      PROVE  /\ BigEndian(v \div Radix[i], i)[o] = BigEndian(v, w)[o]
             /\ BigEndian(v, i)[o] = BigEndian(v, w)[i + o]
  <2>1. PICK j \in Nat : j = i
    OBVIOUS
  <2>2. IsSum(w, i, j) /\ o \in 1..i /\ o \in 1..j
    BY <1>1, <2>1 DEF IsSum
  <2>3. BigEndian(v \div Radix[j], i)[o] = BigEndian(v, w)[o]
    BY <2>2, HigherBytes
  <2>4. PICK x \in Nat : x = i + o /\ IsSum(x, i, o)
    BY DEF IsSum
  <2>5. BigEndian(v, j)[o] = BigEndian(v, w)[x]
    <3>1. IsSum(x, i, o)
      BY <2>4
    <3> QED
      BY <2>2, <3>1, LowerBytes
  <2> QED
    BY <2>1, <2>3, <2>4, <2>5
<1>2. 8 = 4 + 4 /\ 4 \in Nat /\ 8 \in Nat
  OBVIOUS
<1> QED
  BY <1>1, <1>2

(* write8b writes the bytes of the whole number, high half first.          *)
LEMMA HalvesMakeWhole ==
  ASSUME NEW v \in Nat
  PROVE  BigEndian(v \div Radix[4], 4) \o BigEndian(v, 4) = BigEndian(v, 8)
<1>1. v \div Radix[4] \in Nat
  BY Radices, Divided
<1>2. PICK h, l, b : h = BigEndian(v \div Radix[4], 4) /\ l = BigEndian(v, 4) /\ b = BigEndian(v, 8)
  OBVIOUS
<1>3. h \in Seq(Byte) /\ Len(h) = 4 /\ l \in Seq(Byte) /\ Len(l) = 4 /\ b \in Seq(Byte) /\ Len(b) = 8
  BY <1>1, <1>2, IsBytes
<1>4. PICK c : c = h \o l
  OBVIOUS
<1>5. /\ c \in Seq(Byte) /\ Len(c) = 8
      /\ \A k \in 1..8 : c[k] = IF k <= 4 THEN h[k] ELSE l[k - 4]
  <2>1. /\ c \in Seq(Byte) /\ Len(c) = Len(h) + Len(l)
        /\ \A k \in 1..(Len(h) + Len(l)) : c[k] = IF k <= Len(h) THEN h[k] ELSE l[k - Len(h)]
    BY <1>3, <1>4, ConcatProperties
  <2>2. Len(h) + Len(l) = 8
    BY <1>3
  <2> QED
    BY <1>3, <2>1, <2>2
<1>6. \A k \in 1..4 : h[k] = b[k] /\ l[k] = b[4 + k]
  BY <1>2, HalfBytes
<1>8. ASSUME NEW k \in 1..8 PROVE c[k] = b[k]
  <2>1. CASE k <= 4
    BY <1>5, <1>6, <2>1
  <2>2. CASE k > 4
    <3>1. k - 4 \in 1..4 /\ 4 + (k - 4) = k
      BY <2>2
    <3> QED
      BY <1>5, <1>6, <2>2, <3>1
  <2> QED
    BY <2>1, <2>2
<1>9. c = b
  <2>1. Len(c) = Len(b) /\ \A k \in 1..Len(c) : c[k] = b[k]
    BY <1>3, <1>5, <1>8
  <2> QED
    BY <1>3, <1>5, <2>1, SameBytes
<1> QED
  BY <1>2, <1>4, <1>9

(* A number that fits in w bytes and is read from them is the number.      *)
LEMMA ReadsBack ==
  ASSUME NEW w \in {1, 2, 4, 8}, NEW v \in Nat, v < Radix[w]
  PROVE  Read(BigEndian(v, w)) = v
<1>1. Radix[w] \in Nat \ {0} /\ Radix[4] \in Nat \ {0} /\ Radix[8] = Radix[4] * Radix[4]
  <2>1. \A i \in Nat : Radix[i + i] = Radix[i] * Radix[i]
    BY RadixOfSum
  <2>2. Radix[8] = Radix[4] * Radix[4]
    <3>1. Radix[4 + 4] = Radix[4] * Radix[4]
      BY <2>1
    <3>2. 4 + 4 = 8
      OBVIOUS
    <3> QED
      BY <3>1, <3>2
  <2>3. w \in Nat /\ 4 \in Nat
    OBVIOUS
  <2>4. Radix[w] \in Nat \ {0} /\ Radix[4] \in Nat \ {0}
    BY <2>3, Radices
  <2> QED
    BY <2>2, <2>4
<1>2. Len(BigEndian(v, w)) = w
  <2>1. w \in Nat
    OBVIOUS
  <2> QED
    BY <2>1, IsBytes
<1>3. CASE w # 8
  <2>1. Number(BigEndian(v, w)) = v % Radix[w]
    <3>1. w \in Nat
      OBVIOUS
    <3> QED
      BY <3>1, NumberOfBytes
  <2>2. v % Radix[w] = v
    <3>1. PICK m \in Nat \ {0} : m = Radix[w]
      BY <1>1
    <3>2. v = m * 0 + v /\ v \in 0..(m - 1)
      BY <3>1
    <3> QED
      BY <3>1, <3>2, DividedOnce
  <2> QED
    BY <1>2, <1>3, <2>1, <2>2 DEF Read
<1>4. CASE w = 8
  <2>1. PICK r \in Nat \ {0} : r = Radix[4]
    BY <1>1
  <2>2. PICK q \in Nat, s \in 0..(r - 1) : q = v \div r /\ s = v % r /\ v = r * q + s
    BY Divided
  <2>3. PICK b : b = BigEndian(v, 8)
    OBVIOUS
  <2>4. b \in Seq(Byte) /\ Len(b) = 8
    BY <2>3, IsBytes
  <2>5. /\ BigEndian(q, 4) \in Seq(Byte) /\ Len(BigEndian(q, 4)) = 4
        /\ BigEndian(v, 4) \in Seq(Byte) /\ Len(BigEndian(v, 4)) = 4
    BY IsBytes
  <2>6. \A k \in 1..8 : b[k] \in Byte
    BY <2>3, IsBytes
  <2>7. SubSeq(b, 1, 4) = BigEndian(q, 4)
    <3>1. PICK c : c = SubSeq(b, 1, 4)
      OBVIOUS
    <3>2. \A k \in 1..4 : b[k] \in Byte
      BY <2>6
    <3>3. c \in Seq(Byte) /\ Len(c) = 4 /\ \A k \in 1..4 : c[k] = b[1 + k - 1]
      BY <3>1, <3>2, SubSeqProperties
    <3>4. \A k \in 1..4 : c[k] = BigEndian(q, 4)[k]
      <4>1. \A k \in 1..4 : 1 + k - 1 = k
        OBVIOUS
      <4>2. \A k \in 1..4 : BigEndian(v \div Radix[4], 4)[k] = b[k]
        BY <2>3, HalfBytes
      <4> QED
        BY <2>1, <2>2, <3>3, <4>1, <4>2
    <3> QED
      BY <2>5, <3>1, <3>3, <3>4, SameBytes
  <2>8. SubSeq(b, 5, 8) = BigEndian(v, 4)
    <3>1. PICK c : c = SubSeq(b, 5, 8)
      OBVIOUS
    <3>2. \A k \in 5..8 : b[k] \in Byte
      BY <2>6
    <3>3. c \in Seq(Byte) /\ Len(c) = 4 /\ \A k \in 1..4 : c[k] = b[5 + k - 1]
      BY <3>1, <3>2, SubSeqProperties
    <3>4. \A k \in 1..4 : c[k] = BigEndian(v, 4)[k]
      <4>1. \A k \in 1..4 : 5 + k - 1 = 4 + k
        OBVIOUS
      <4> QED
        BY <2>3, <3>3, <4>1, HalfBytes
    <3> QED
      BY <2>5, <3>1, <3>3, <3>4, SameBytes
  <2>9. q < r
    <3> SUFFICES ASSUME q >= r PROVE FALSE
      BY <2>2
    <3>1. r * q >= r * r
      OBVIOUS
    <3>2. v < r * r
      BY <1>1, <1>4, <2>1
    <3> QED
      BY <2>2, <3>1, <3>2
  <2>10. Number(BigEndian(q, 4)) = q
    <3>1. q = r * 0 + q /\ q \in 0..(r - 1)
      BY <2>9
    <3>2. q % r = q
      BY <3>1, DividedOnce
    <3> QED
      BY <2>1, <3>2, NumberOfBytes
  <2>11. Number(BigEndian(v, 4)) = s
    BY <2>1, <2>2, NumberOfBytes
  <2>12. Read(b) = Number(SubSeq(b, 1, 4)) * Radix[4] + Number(SubSeq(b, 5, 8))
    BY <2>4 DEF Read
  <2>13. Read(b) = q * r + s
    BY <2>1, <2>7, <2>8, <2>10, <2>11, <2>12
  <2> QED
    BY <1>4, <2>2, <2>3, <2>13
<1> QED
  BY <1>3, <1>4

(* One more byte of a number.                                              *)
LEMMA NextByte ==
  ASSUME NEW v \in Nat, NEW w \in Nat, NEW k \in 1..w
  PROVE  v \div Radix[w - k] = ByteModulus * (v \div Radix[w - (k - 1)]) + BigEndian(v, w)[k]
<1>1. PICK p \in Nat \ {0} : p = Radix[w - k]
  BY Radices
<1>2. Radix[w - (k - 1)] = ByteModulus * p
  <2>1. w - k \in Nat /\ w - (k - 1) = (w - k) + 1
    OBVIOUS
  <2> QED
    BY <1>1, <2>1, Radices
<1>3. PICK x \in Nat : x = v \div p
  BY Divided
<1>4. v \div (ByteModulus * p) = x \div ByteModulus
  BY <1>3, DividedTwice, DynAssumption
<1>5. BigEndian(v, w)[k] = x % ByteModulus
  BY <1>1, <1>3, IsBytes
<1>6. x = ByteModulus * (x \div ByteModulus) + (x % ByteModulus)
  BY Divided, DynAssumption
<1> QED
  BY <1>1, <1>2, <1>3, <1>4, <1>5, <1>6

LEMMA SmallerPrecedes ==
  ASSUME NEW w \in Nat, NEW v \in Nat, NEW u \in Nat, v < Radix[w], u < Radix[w], v < u
  PROVE  Precedes(BigEndian(v, w), BigEndian(u, w))
<1>1. PICK s, t : s = BigEndian(v, w) /\ t = BigEndian(u, w)
  OBVIOUS
<1>2. /\ s \in Seq(Byte) /\ Len(s) = w /\ t \in Seq(Byte) /\ Len(t) = w
      /\ \A k \in 1..w : s[k] \in Byte /\ t[k] \in Byte
  BY <1>1, IsBytes
<1>3. PICK x, y : /\ x = [k \in 0..w |-> v \div Radix[w - k]]
                  /\ y = [k \in 0..w |-> u \div Radix[w - k]]
  OBVIOUS
<1>4. ASSUME NEW k \in 0..w PROVE x[k] \in Nat /\ y[k] \in Nat /\ x[k] <= y[k]
  <2>1. PICK p \in Nat \ {0} : p = Radix[w - k]
    BY Radices
  <2>2. v \div p \in Nat /\ u \div p \in Nat
    BY Divided
  <2>3. v <= u
    OBVIOUS
  <2>4. v \div p <= u \div p
    BY <2>3, QuotientsGrow
  <2> QED
    BY <1>3, <2>1, <2>2, <2>4
<1>5. ASSUME NEW k \in 1..w
      PROVE  x[k] = ByteModulus * x[k - 1] + s[k] /\ y[k] = ByteModulus * y[k - 1] + t[k]
  <2>1. k \in 0..w /\ k - 1 \in 0..w
    OBVIOUS
  <2> QED
    BY <1>1, <1>3, <2>1, NextByte
<1>6. x[0] = 0 /\ y[0] = 0
  <2>1. PICK m \in Nat \ {0} : m = Radix[w] /\ w - 0 = w
    BY Radices
  <2>2. v = m * 0 + v /\ v \in 0..(m - 1) /\ u = m * 0 + u /\ u \in 0..(m - 1)
    BY <2>1
  <2> QED
    BY <1>3, <2>1, <2>2, DividedOnce
<1>7. x[w] = v /\ y[w] = u
  <2>1. Radix[w - w] = 1
    BY Radices
  <2>2. v \div 1 = v /\ u \div 1 = u
    BY DividedOnce
  <2> QED
    BY <1>3, <2>1, <2>2
<1>8. PICK T : T = {k \in 0..w : x[k] < y[k]}
  OBVIOUS
<1>9. T \subseteq Nat /\ T # {}
  BY <1>7, <1>8
<1>10. PICK k \in T : \A i \in T : k <= i
  BY <1>9, LeastExists
<1>11. k \in 1..w /\ x[k] < y[k]
  BY <1>6, <1>8, <1>10
<1>12. ASSUME NEW i \in 0..(k - 1) PROVE x[i] = y[i]
  <2>1. i \in 0..w /\ i \notin T
    BY <1>10, <1>11
  <2> QED
    BY <1>4, <1>8, <2>1
<1>13. s[k] < t[k]
  <2>1. k - 1 \in 0..(k - 1) /\ k - 1 \in 0..w
    BY <1>11
  <2>2. PICK c \in Nat : c = ByteModulus * x[k - 1]
    BY <1>4, <2>1, DynAssumption
  <2>3. x[k] = c + s[k] /\ y[k] = c + t[k]
    BY <1>5, <1>11, <1>12, <2>1, <2>2
  <2>4. s[k] \in Int /\ t[k] \in Int
    BY <1>2, <1>11, DynAssumption DEF Byte
  <2> QED
    BY <1>11, <2>2, <2>3, <2>4
<1>14. ASSUME NEW j \in 1..(k - 1) PROVE s[j] = t[j]
  <2>1. j \in 1..w /\ j \in 0..(k - 1) /\ j - 1 \in 0..(k - 1) /\ j - 1 \in 0..w
    BY <1>11
  <2>2. PICK c \in Nat : c = ByteModulus * x[j - 1]
    BY <1>4, <2>1, DynAssumption
  <2>3. x[j] = c + s[j] /\ x[j] = c + t[j]
    BY <1>5, <1>12, <2>1, <2>2
  <2>4. s[j] \in Int /\ t[j] \in Int
    BY <1>2, <2>1, DynAssumption DEF Byte
  <2> QED
    BY <2>2, <2>3, <2>4
<1>15. DOMAIN s = 1..w
  BY <1>2
<1> QED
  BY <1>1, <1>11, <1>13, <1>14, <1>15 DEF Precedes

(* Fields of one width come in the order of their numbers.                 *)
LEMMA BytesAreOrdered ==
  ASSUME NEW w \in Nat, NEW v \in Nat, NEW u \in Nat, v < Radix[w], u < Radix[w]
  PROVE  v < u <=> Precedes(BigEndian(v, w), BigEndian(u, w))
<1>1. PICK s, t : s = BigEndian(v, w) /\ t = BigEndian(u, w)
  OBVIOUS
<1>2. /\ DOMAIN s = 1..w /\ DOMAIN t = 1..w
      /\ \A k \in 1..w : s[k] \in Nat /\ t[k] \in Nat
  <2>1. /\ s \in Seq(Byte) /\ Len(s) = w /\ t \in Seq(Byte) /\ Len(t) = w
        /\ \A k \in 1..w : s[k] \in Byte /\ t[k] \in Byte
    BY <1>1, IsBytes
  <2> QED
    BY <2>1, DynAssumption DEF Byte
<1>3. ASSUME Precedes(s, t), v = u PROVE FALSE
  <2>1. s = t
    BY <1>1, <1>3
  <2> QED
    BY <1>2, <1>3, <2>1 DEF Precedes
<1>4. ASSUME Precedes(s, t), u < v PROVE FALSE
  <2>1. Precedes(t, s)
    BY <1>1, <1>4, SmallerPrecedes
  <2>2. PICK k \in 1..w : s[k] < t[k] /\ \A j \in 1..(k - 1) : s[j] = t[j]
    BY <1>2, <1>4 DEF Precedes
  <2>3. PICK i \in 1..w : t[i] < s[i] /\ \A j \in 1..(i - 1) : t[j] = s[j]
    BY <1>2, <2>1 DEF Precedes
  <2>4. CASE i < k
    BY <1>2, <2>2, <2>3, <2>4
  <2>5. CASE k < i
    BY <1>2, <2>2, <2>3, <2>5
  <2>6. CASE i = k
    BY <1>2, <2>2, <2>3, <2>6
  <2> QED
    BY <2>4, <2>5, <2>6
<1>5. v < u => Precedes(s, t)
  BY <1>1, SmallerPrecedes
<1>6. Precedes(s, t) => v < u
  BY <1>3, <1>4
<1> QED
  BY <1>1, <1>5, <1>6

-----------------------------------------------------------------------------
(***************************************************************************)
(* Fields that lie one behind the other in a block.                        *)
(***************************************************************************)
AnyField == Fields \cup {[width |-> 1, value |-> v] : v \in Byte}

Block == [0..(DataSize - 1) -> Byte \cup {Unset}]

BytesOf(f) == BigEndian(f.value, f.width)

(* The bytes of field i of s are in the block, from where field i - 1 ends. *)
LiesAt(block, s, i) ==
  \A k \in 1..s[i].width : block[Ends(s)[i - 1] + k - 1] = BytesOf(s[i])[k]

InPlace(block, s, end) ==
  Total(s) = end /\ \A i \in 1..Len(s) : LiesAt(block, s, i)

LEMMA FieldsFit ==
  ASSUME NEW f \in AnyField
  PROVE  f.width \in {1, 2, 4, 8} /\ f.value \in Nat /\ f.value < Radix[f.width]
<1>1. CASE f \in Fields
  <2>1. f.width \in {1, 2, 4, 8} /\ f.value \in 0..(Radix[f.width] - 1)
    BY <1>1, DynAssumption
  <2>2. Radix[f.width] \in Nat
    BY <2>1, Radices
  <2> QED
    BY <2>1, <2>2
<1>2. CASE f \in {[width |-> 1, value |-> v] : v \in Byte}
  <2>1. f.width = 1 /\ f.value \in Byte
    BY <1>2
  <2>2. Radix[1] = ByteModulus
    <3>1. Radix[0 + 1] = ByteModulus * Radix[0] /\ Radix[0] = 1
      BY Radices
    <3> QED
      BY <3>1, DynAssumption
  <2> QED
    BY <2>1, <2>2, DynAssumption DEF Byte
<1> QED
  BY <1>1, <1>2 DEF AnyField

LEMMA WrittenBytes ==
  ASSUME NEW f \in AnyField
  PROVE  Write(f) = BytesOf(f) /\ Read(BytesOf(f)) = f.value
<1>1. f.width \in {1, 2, 4, 8} /\ f.value \in Nat /\ f.value < Radix[f.width]
  BY FieldsFit
<1>2. f.width = 8 => Write(f) = BytesOf(f)
  BY <1>1, HalvesMakeWhole DEF Write, BytesOf
<1>3. f.width # 8 => Write(f) = BytesOf(f)
  BY DEF Write, BytesOf
<1>4. Read(BytesOf(f)) = f.value
  BY <1>1, ReadsBack DEF BytesOf
<1> QED
  BY <1>2, <1>3, <1>4

LEMMA BytesOfField ==
  ASSUME NEW f \in AnyField
  PROVE  /\ BytesOf(f) \in Seq(Byte) /\ Len(BytesOf(f)) = f.width
         /\ f.width \in Nat \ {0}
<1>1. f.width \in Nat \ {0} /\ f.value \in Nat
  BY FieldsFit
<1> QED
  BY <1>1, IsBytes DEF BytesOf

LEMMA EndsAre ==
  ASSUME NEW s \in Seq(AnyField)
  PROVE  /\ Ends(s) \in [0..Len(s) -> Nat] /\ Ends(s)[0] = 0
         /\ \A k \in 1..Len(s) : Ends(s)[k] = Ends(s)[k - 1] + s[k].width
<1>1. PICK n \in Nat : n = Len(s)
  OBVIOUS
<1>2. PICK g : g = [z \in (1..n) \X Nat |-> z[2] + s[z[1]].width]
  OBVIOUS
<1>3. g \in [(1..n) \X Nat -> Nat]
  <2>1. \A k \in 1..n : s[k] \in AnyField
    BY <1>1
  <2>2. \A k \in 1..n : s[k].width \in Nat
    BY <2>1, BytesOfField
  <2>3. ASSUME NEW z \in (1..n) \X Nat PROVE z[2] + s[z[1]].width \in Nat
    <3>1. z[1] \in 1..n /\ z[2] \in Nat
      OBVIOUS
    <3> QED
      BY <2>2, <3>1
  <2> QED
    BY <1>2, <2>3
<1>4. PICK a \in Nat : a = 0
  OBVIOUS
<1>5. PICK f : Computes(f, n, Nat, a, g)
  BY <1>3, Recursion
<1>6. f \in [0..n -> Nat] /\ f = [k \in 0..n |-> IF k = 0 THEN a ELSE g[<<k, f[k - 1]>>]]
  BY <1>5 DEF Computes
<1> DEFINE AddsUp(e) == e = [i \in 0..Len(s) |-> IF i = 0 THEN 0 ELSE e[i - 1] + s[i].width]
<1>7. ASSUME NEW k \in 0..n PROVE f[k] = IF k = 0 THEN 0 ELSE f[k - 1] + s[k].width
  <2>1. CASE k = 0
    BY <1>4, <1>6, <2>1
  <2>2. CASE k # 0
    <3>1. k \in 1..n /\ k - 1 \in 0..n
      BY <2>2
    <3>2. f[k - 1] \in Nat
      BY <1>6, <3>1
    <3>3. f[k] = g[<<k, f[k - 1]>>]
      BY <1>6, <2>2
    <3>4. <<k, f[k - 1]>> \in (1..n) \X Nat
      BY <3>1, <3>2
    <3> QED
      BY <1>2, <2>2, <3>3, <3>4
  <2> QED
    BY <2>1, <2>2
<1>8. f = [k \in 0..n |-> f[k]]
  BY <1>6
<1>9. AddsUp(f)
  BY <1>1, <1>7, <1>8
<1>10. Ends(s) = CHOOSE e : AddsUp(e)
  BY DEF Ends
<1>11. AddsUp(Ends(s))
  BY <1>9, <1>10
<1>12. PICK p : p = Ends(s)
  OBVIOUS
<1>13. p = [k \in 0..n |-> IF k = 0 THEN 0 ELSE p[k - 1] + s[k].width]
  BY <1>1, <1>11, <1>12
<1>14. p[0] = 0 /\ \A k \in 1..n : p[k] = p[k - 1] + s[k].width
  <2>1. ASSUME NEW k \in 0..n PROVE p[k] = IF k = 0 THEN 0 ELSE p[k - 1] + s[k].width
    BY <1>13
  <2>2. 0 \in 0..n /\ \A k \in 1..n : k \in 0..n /\ k # 0
    OBVIOUS
  <2> QED
    BY <2>1, <2>2
<1> DEFINE U == {k \in Nat : k <= n => p[k] \in Nat}
<1>15. 0 \in U
  BY <1>14
<1>16. ASSUME NEW k \in Nat, k \in U PROVE k + 1 \in U
  <2> SUFFICES ASSUME k + 1 <= n PROVE p[k + 1] \in Nat
    OBVIOUS
  <2>1. p[k] \in Nat /\ k + 1 \in 1..n /\ (k + 1) - 1 = k
    BY <1>16
  <2>2. s[k + 1].width \in Nat
    BY <1>1, <2>1, BytesOfField
  <2>3. p[k + 1] = p[k] + s[k + 1].width
    BY <1>14, <2>1
  <2> QED
    BY <2>1, <2>2, <2>3
<1>17. \A k \in Nat : k \in U
  <2>1. \A k \in Nat : k \in U => k + 1 \in U
    BY <1>16
  <2> HIDE DEF U
  <2> QED
    BY <1>15, <2>1, AllNaturals
<1>18. p \in [0..n -> Nat]
  <2>1. \A k \in 0..n : p[k] \in Nat
    BY <1>17
  <2>2. DOMAIN p = 0..n /\ p = [k \in DOMAIN p |-> p[k]]
    BY <1>13
  <2> QED
    BY <2>1, <2>2
<1> QED
  BY <1>1, <1>12, <1>14, <1>18

(* Fields end behind the ones before them.                                 *)
LEMMA EndsGrow ==
  ASSUME NEW s \in Seq(AnyField), NEW i \in 0..Len(s)
  PROVE  \A j \in i..Len(s) : Ends(s)[i] <= Ends(s)[j]
<1>1. PICK p, n : p = Ends(s) /\ n = Len(s)
  OBVIOUS
<1>2. n \in Nat /\ p \in [0..n -> Nat] /\ \A k \in 1..n : p[k] = p[k - 1] + s[k].width
  <2>1. /\ Ends(s) \in [0..Len(s) -> Nat]
        /\ \A k \in 1..Len(s) : Ends(s)[k] = Ends(s)[k - 1] + s[k].width
    BY EndsAre
  <2>2. Len(s) \in Nat
    OBVIOUS
  <2> QED
    BY <1>1, <2>1, <2>2
<1> DEFINE U == {d \in Nat : i + d <= n => p[i] <= p[i + d]}
<1>3. 0 \in U
  BY <1>1, <1>2
<1>4. ASSUME NEW d \in Nat, d \in U PROVE d + 1 \in U
  <2> SUFFICES ASSUME i + (d + 1) <= n PROVE p[i] <= p[i + (d + 1)]
    OBVIOUS
  <2>1. i + (d + 1) \in 1..n /\ (i + (d + 1)) - 1 = i + d /\ i + d \in 0..n /\ i \in 0..n
    BY <1>1, <1>2
  <2>2. s[i + (d + 1)].width \in Nat
    BY <1>1, <2>1, BytesOfField
  <2>3. p[i + (d + 1)] = p[i + d] + s[i + (d + 1)].width
    BY <1>2, <2>1
  <2>4. p[i] <= p[i + d] /\ p[i] \in Nat /\ p[i + d] \in Nat
    BY <1>2, <1>4, <2>1
  <2> QED
    BY <2>2, <2>3, <2>4
<1>5. \A d \in Nat : d \in U
  <2>1. \A d \in Nat : d \in U => d + 1 \in U
    BY <1>4
  <2> HIDE DEF U
  <2> QED
    BY <1>3, <2>1, AllNaturals
<1>6. ASSUME NEW j \in i..Len(s) PROVE Ends(s)[i] <= Ends(s)[j]
  <2>1. PICK d \in Nat : d = j - i
    OBVIOUS
  <2>2. i + d = j /\ d \in U
    BY <1>5, <2>1
  <2> QED
    BY <1>1, <2>2
<1> QED
  BY <1>6

(* Where fields end depends only on the fields up to there.                *)
Extends(t, s) == Len(s) <= Len(t) /\ \A i \in 1..Len(s) : t[i] = s[i]

LEMMA EndsOfPrefix ==
  ASSUME NEW s \in Seq(AnyField), NEW t \in Seq(AnyField), Extends(t, s)
  PROVE  \A i \in 0..Len(s) : Ends(s)[i] = Ends(t)[i]
<1>0. PICK n \in Nat : n = Len(s) /\ n <= Len(t) /\ \A i \in 1..n : s[i] = t[i]
  BY DEF Extends
<1>1. PICK p, q : p = Ends(s) /\ q = Ends(t)
  OBVIOUS
<1>2. /\ p[0] = 0 /\ \A k \in 1..Len(s) : p[k] = p[k - 1] + s[k].width
      /\ q[0] = 0 /\ \A k \in 1..Len(t) : q[k] = q[k - 1] + t[k].width
  BY <1>1, EndsAre
<1> DEFINE U == {i \in Nat : i <= n => p[i] = q[i]}
<1>3. 0 \in U
  BY <1>2
<1>4. ASSUME NEW i \in Nat, i \in U PROVE i + 1 \in U
  <2> SUFFICES ASSUME i + 1 <= n PROVE p[i + 1] = q[i + 1]
    OBVIOUS
  <2>1. i + 1 \in 1..Len(s) /\ i + 1 \in 1..Len(t) /\ i + 1 \in 1..n /\ (i + 1) - 1 = i
    BY <1>0
  <2>2. p[i] = q[i]
    BY <1>4
  <2>3. p[i + 1] = p[i] + s[i + 1].width /\ q[i + 1] = q[i] + t[i + 1].width
    BY <1>2, <2>1
  <2> QED
    BY <1>0, <2>1, <2>2, <2>3
<1>5. \A i \in Nat : i \in U
  <2>1. \A i \in Nat : i \in U => i + 1 \in U
    BY <1>4
  <2> HIDE DEF U
  <2> QED
    BY <1>3, <2>1, AllNaturals
<1> QED
  BY <1>0, <1>1, <1>5

(* What memcpy leaves behind it and in its place.                          *)
LEMMA StoredBytes ==
  ASSUME NEW block \in Block, NEW at \in Nat, NEW b \in Seq(Byte), at + Len(b) <= DataSize
  PROVE  /\ Stored(block, at, b) \in Block
         /\ \A x \in 0..(DataSize - 1) : x < at => Stored(block, at, b)[x] = block[x]
         /\ \A k \in 1..Len(b) : Stored(block, at, b)[at + k - 1] = b[k]
<1>1. PICK c : c = Stored(block, at, b)
  OBVIOUS
<1>2. DOMAIN block = 0..(DataSize - 1) /\ \A x \in 0..(DataSize - 1) : block[x] \in Byte \cup {Unset}
  BY DEF Block
<1>3. c = [k \in 0..(DataSize - 1) |->
             IF k \in at..(at + Len(b) - 1) THEN b[k - at + 1] ELSE block[k]]
  BY <1>1, <1>2 DEF Stored
<1>4. ASSUME NEW k \in 0..(DataSize - 1) PROVE c[k] \in Byte \cup {Unset}
  <2>1. CASE k \in at..(at + Len(b) - 1)
    <3>1. k - at + 1 \in 1..Len(b)
      BY <2>1
    <3> QED
      BY <1>3, <2>1, <3>1
  <2>2. CASE ~ k \in at..(at + Len(b) - 1)
    BY <1>2, <1>3, <2>2
  <2> QED
    BY <2>1, <2>2
<1>5. c \in Block
  BY <1>3, <1>4 DEF Block
<1>6. ASSUME NEW x \in 0..(DataSize - 1), x < at PROVE c[x] = block[x]
  BY <1>3, <1>6
<1>7. ASSUME NEW k \in 1..Len(b) PROVE c[at + k - 1] = b[k]
  <2>1. /\ at + k - 1 \in 0..(DataSize - 1) /\ at + k - 1 \in at..(at + Len(b) - 1)
        /\ (at + k - 1) - at + 1 = k
    BY DynAssumption
  <2> QED
    BY <1>3, <2>1
<1> QED
  BY <1>1, <1>5, <1>6, <1>7

(* The fields of s stay in place when t goes on behind them and nothing is *)
(* written before their end.                                               *)
KeepsBelow(c, block, end) == \A x \in 0..(DataSize - 1) : x < end => c[x] = block[x]

LEMMA StillInPlace ==
  ASSUME NEW s \in Seq(AnyField), NEW t \in Seq(AnyField), Extends(t, s),
         NEW block, NEW c, NEW end \in 0..DataSize, InPlace(block, s, end),
         KeepsBelow(c, block, end)
  PROVE  Ends(t)[Len(s)] = end /\ \A i \in 1..Len(s) : LiesAt(c, t, i)
<1>1. PICK p, q, n : p = Ends(s) /\ q = Ends(t) /\ n = Len(s)
  OBVIOUS
<1>2. /\ n \in Nat /\ p \in [0..n -> Nat] /\ \A k \in 1..n : p[k] = p[k - 1] + s[k].width
      /\ n <= Len(t) /\ \A i \in 1..n : t[i] = s[i]
  BY <1>1, EndsAre DEF Extends
<1>3. \A i \in 0..n : p[i] = q[i]
  BY <1>1, EndsOfPrefix
<1>4. p[n] = end
  BY <1>1 DEF InPlace, Total
<1>5. ASSUME NEW i \in 1..n, NEW k \in 1..t[i].width
      PROVE  c[q[i - 1] + k - 1] = BytesOf(t[i])[k]
  <2>1. i \in 0..n /\ i - 1 \in 0..n /\ n \in i..Len(s)
    BY <1>1, <1>2
  <2>2. p[i] <= p[n]
    BY <1>1, <2>1, EndsGrow
  <2>3. s[i].width \in Nat /\ t[i] = s[i] /\ p[i] \in Nat /\ p[i - 1] \in Nat
    <3>1. s[i] \in AnyField
      BY <1>1
    <3>2. s[i].width \in Nat
      BY <3>1, BytesOfField
    <3> QED
      BY <1>2, <2>1, <3>2
  <2>4. p[i] = p[i - 1] + s[i].width
    BY <1>2
  <2>5. PICK x \in Nat : x = p[i - 1] + k - 1 /\ x < end /\ x \in 0..(DataSize - 1)
    <3>1. p[i - 1] + k - 1 \in Nat /\ p[i - 1] + k - 1 < p[i]
      <4>1. PICK o, e, w : o = p[i - 1] /\ e = p[i] /\ w = s[i].width /\ e = o + w
        BY <2>4
      <4>2. k \in 1..w /\ o \in Nat /\ w \in Nat
        BY <2>3, <4>1
      <4>3. o + k - 1 \in Nat /\ o + k - 1 < o + w
        BY <4>2
      <4> QED
        BY <4>1, <4>3
    <3>2. PICK x \in Nat : x = p[i - 1] + k - 1 /\ x < p[i]
      BY <3>1
    <3>3. end \in 0..DataSize /\ DataSize \in Nat /\ p[i] <= end
      BY <1>4, <2>2, DynAssumption
    <3>4. x < end /\ x \in 0..(DataSize - 1)
      BY <2>3, <3>2, <3>3
    <3> QED
      BY <3>2, <3>4
  <2>6. c[x] = block[x]
    BY <2>5 DEF KeepsBelow
  <2>7. LiesAt(block, s, i)
    BY <1>1 DEF InPlace
  <2>8. block[x] = BytesOf(s[i])[k]
    BY <1>1, <2>3, <2>5, <2>7 DEF LiesAt
  <2>9. q[i - 1] = p[i - 1]
    BY <1>3, <2>1
  <2> QED
    BY <2>3, <2>5, <2>6, <2>8, <2>9
<1>6. \A i \in 1..n : LiesAt(c, t, i)
  BY <1>1, <1>5 DEF LiesAt
<1>7. q[n] = end
  BY <1>2, <1>3, <1>4
<1> QED
  BY <1>1, <1>6, <1>7

LEMMA FieldAppended ==
  ASSUME NEW block \in Block, NEW s \in Seq(AnyField), NEW end \in 0..DataSize,
         InPlace(block, s, end), NEW f \in AnyField, end + f.width <= DataSize
  PROVE  /\ Stored(block, end, Write(f)) \in Block
         /\ Append(s, f) \in Seq(AnyField)
         /\ InPlace(Stored(block, end, Write(f)), Append(s, f), end + f.width)
<1>1. PICK b : b = Write(f) /\ b = BytesOf(f) /\ b \in Seq(Byte) /\ Len(b) = f.width
  BY WrittenBytes, BytesOfField
<1>2. PICK c : c = Stored(block, end, b)
  OBVIOUS
<1>3. end \in Nat /\ f.width \in Nat
  BY DynAssumption, BytesOfField
<1>4. /\ c \in Block /\ KeepsBelow(c, block, end)
      /\ \A k \in 1..Len(b) : c[end + k - 1] = b[k]
  BY <1>1, <1>2, <1>3, StoredBytes DEF KeepsBelow
<1>5. PICK t, n : t = Append(s, f) /\ n = Len(s)
  OBVIOUS
<1>6. /\ t \in Seq(AnyField) /\ n \in Nat /\ Len(t) = n + 1 /\ t[n + 1] = f
      /\ \A i \in 1..n : t[i] = s[i]
  BY <1>5
<1>7. Extends(t, s)
  BY <1>5, <1>6 DEF Extends
<1>8. Ends(t)[n] = end /\ \A i \in 1..n : LiesAt(c, t, i)
  BY <1>4, <1>5, <1>6, <1>7, StillInPlace
<1>9. Ends(t)[n + 1] = end + f.width
  <2>1. n + 1 \in 1..Len(t) /\ (n + 1) - 1 = n
    BY <1>6
  <2>2. Ends(t)[n + 1] = Ends(t)[(n + 1) - 1] + t[n + 1].width
    BY <1>6, <2>1, EndsAre
  <2> QED
    BY <1>6, <1>8, <2>1, <2>2
<1>10. LiesAt(c, t, n + 1)
  <2>1. (n + 1) - 1 = n
    BY <1>6
  <2> QED
    BY <1>1, <1>4, <1>6, <1>8, <2>1 DEF LiesAt
<1>11. \A i \in 1..(n + 1) : LiesAt(c, t, i)
  <2>1. \A i \in 1..(n + 1) : i \in 1..n \/ i = n + 1
    BY <1>6
  <2> QED
    BY <1>8, <1>10, <2>1
<1>12. InPlace(c, t, end + f.width)
  BY <1>6, <1>9, <1>11 DEF InPlace, Total
<1> QED
  BY <1>1, <1>2, <1>4, <1>5, <1>6, <1>12

LEMMA FieldsOfBytes ==
  ASSUME NEW b \in Seq(Byte)
  PROVE  /\ AsFields(b) \in Seq(AnyField) /\ Len(AsFields(b)) = Len(b)
         /\ \A k \in 1..Len(b) : AsFields(b)[k] = [width |-> 1, value |-> b[k]]
<1>1. PICK u, m : u = AsFields(b) /\ m = Len(b)
  OBVIOUS
<1>2. DOMAIN b = 1..m /\ m \in Nat /\ \A k \in 1..m : b[k] \in Byte
  BY <1>1
<1>3. u = [k \in 1..m |-> [width |-> 1, value |-> b[k]]]
  BY <1>1, <1>2 DEF AsFields
<1>4. \A k \in 1..m : [width |-> 1, value |-> b[k]] \in AnyField
  BY <1>2 DEF AnyField
<1>5. u \in [1..m -> AnyField]
  BY <1>3, <1>4
<1>6. u \in Seq(AnyField) /\ Len(u) = m
  BY <1>2, <1>5
<1> QED
  BY <1>1, <1>2, <1>3, <1>6

LEMMA PieceAppended ==
  ASSUME NEW block \in Block, NEW s \in Seq(AnyField), NEW end \in 0..DataSize,
         InPlace(block, s, end), NEW b \in Seq(Byte), end + Len(b) <= DataSize
  PROVE  /\ Stored(block, end, b) \in Block
         /\ s \o AsFields(b) \in Seq(AnyField)
         /\ InPlace(Stored(block, end, b), s \o AsFields(b), end + Len(b))
<1>1. PICK u, m : u = AsFields(b) /\ m = Len(b)
  OBVIOUS
<1>2. /\ m \in Nat /\ u \in Seq(AnyField) /\ Len(u) = m
      /\ \A k \in 1..m : b[k] \in Byte /\ u[k] = [width |-> 1, value |-> b[k]]
  BY <1>1, FieldsOfBytes
<1>3. PICK c : c = Stored(block, end, b)
  OBVIOUS
<1>4. end \in Nat
  BY DynAssumption
<1>5. /\ c \in Block /\ KeepsBelow(c, block, end)
      /\ \A k \in 1..m : c[end + k - 1] = b[k]
  BY <1>1, <1>3, <1>4, StoredBytes DEF KeepsBelow
<1>6. PICK t, n : t = s \o u /\ n = Len(s)
  OBVIOUS
<1>7. /\ t \in Seq(AnyField) /\ n \in Nat /\ Len(t) = n + m
      /\ \A i \in 1..(n + m) : t[i] = IF i <= n THEN s[i] ELSE u[i - n]
  <2>1. /\ t \in Seq(AnyField) /\ Len(t) = Len(s) + Len(u)
        /\ \A i \in 1..(Len(s) + Len(u)) : t[i] = IF i <= Len(s) THEN s[i] ELSE u[i - Len(s)]
    BY <1>2, <1>6, ConcatProperties
  <2>2. Len(s) + Len(u) = n + m /\ n \in Nat
    BY <1>2, <1>6
  <2> QED
    BY <1>6, <2>1, <2>2
<1>8. \A k \in 1..m : n + k \in 1..(n + m) /\ t[n + k] = u[k]
  <2>1. ASSUME NEW k \in 1..m PROVE n + k \in 1..(n + m) /\ t[n + k] = u[k]
    <3>1. n + k \in 1..(n + m) /\ ~ n + k <= n /\ (n + k) - n = k
      BY <1>2, <1>7
    <3> QED
      BY <1>7, <3>1
  <2> QED
    BY <2>1
<1>9. Extends(t, s)
  BY <1>2, <1>6, <1>7 DEF Extends
<1>10. Ends(t)[n] = end /\ \A i \in 1..n : LiesAt(c, t, i)
  BY <1>5, <1>6, <1>7, <1>9, StillInPlace
<1>11. PICK q : q = Ends(t)
  OBVIOUS
<1> DEFINE U == {k \in Nat : k <= m => q[n + k] = end + k}
<1>12. 0 \in U
  BY <1>4, <1>7, <1>10, <1>11
<1>13. ASSUME NEW k \in Nat, k \in U PROVE k + 1 \in U
  <2> SUFFICES ASSUME k + 1 <= m PROVE q[n + (k + 1)] = end + (k + 1)
    OBVIOUS
  <2>1. k + 1 \in 1..m /\ n + (k + 1) \in 1..Len(t) /\ (n + (k + 1)) - 1 = n + k
    BY <1>2, <1>7
  <2>2. q[n + (k + 1)] = q[n + k] + t[n + (k + 1)].width
    BY <1>7, <1>11, <2>1, EndsAre
  <2>3. t[n + (k + 1)].width = 1
    BY <1>2, <1>8, <2>1
  <2>4. q[n + k] = end + k
    BY <1>2, <1>13
  <2> QED
    BY <1>4, <2>2, <2>3, <2>4
<1>14. \A k \in Nat : k \in U
  <2>1. \A k \in Nat : k \in U => k + 1 \in U
    BY <1>13
  <2> HIDE DEF U
  <2> QED
    BY <1>12, <2>1, AllNaturals
<1>15. ASSUME NEW k \in 1..m PROVE LiesAt(c, t, n + k)
  <2>1. k - 1 \in Nat /\ k - 1 <= m /\ n + (k - 1) = (n + k) - 1
    BY <1>2, <1>7
  <2>2. q[(n + k) - 1] = end + (k - 1)
    BY <1>14, <2>1
  <2>3. t[n + k] = [width |-> 1, value |-> b[k]] /\ t[n + k] \in AnyField
    BY <1>2, <1>8, <1>7
  <2>4. BytesOf(t[n + k])[1] = b[k]
    <3>1. PICK v \in Nat : v = b[k] /\ v \in 0..(ByteModulus - 1)
      BY <1>2, DynAssumption DEF Byte
    <3>2. BytesOf(t[n + k]) = BigEndian(v, 1)
      BY <2>3, <3>1 DEF BytesOf
    <3>3. PICK w \in Nat : w = 1
      OBVIOUS
    <3>4. 1 \in 1..w /\ w - 1 = 0 /\ Radix[0] = 1
      BY <3>3, Radices
    <3>5. BigEndian(v, w)[1] = (v \div Radix[w - 1]) % ByteModulus
      BY <3>4, IsBytes
    <3>6. v \div 1 = v
      BY DividedOnce
    <3>7. v % ByteModulus = v
      <4>1. PICK o \in Nat \ {0} : o = ByteModulus
        BY DynAssumption
      <4>2. v = o * 0 + v /\ v \in 0..(o - 1)
        BY <3>1, <4>1
      <4> QED
        BY <4>1, <4>2, DividedOnce
    <3> QED
      BY <3>1, <3>2, <3>3, <3>4, <3>5, <3>6, <3>7
  <2>5. end + (k - 1) + 1 - 1 = end + k - 1
    BY <1>4
  <2>6. c[end + k - 1] = b[k]
    BY <1>5
  <2>7. \A o \in 1..t[n + k].width : o = 1
    BY <2>3
  <2> QED
    BY <1>11, <2>2, <2>4, <2>5, <2>6, <2>7 DEF LiesAt
<1>16. \A i \in 1..Len(t) : LiesAt(c, t, i)
  <2>1. ASSUME NEW i \in 1..Len(t), ~ i \in 1..n PROVE LiesAt(c, t, i)
    <3>1. i - n \in 1..m /\ n + (i - n) = i
      BY <1>2, <1>7, <2>1
    <3> QED
      BY <1>15, <3>1
  <2> QED
    BY <1>10, <2>1
<1>17. q[n + m] = end + m
  BY <1>2, <1>14
<1>18. InPlace(c, t, end + m)
  BY <1>7, <1>11, <1>16, <1>17 DEF InPlace, Total
<1> QED
  BY <1>1, <1>3, <1>5, <1>6, <1>7, <1>18

-----------------------------------------------------------------------------
(***************************************************************************)
(* The arrays.  The invariant: types; an array the client has open exists  *)
(* and no string is under way to it, one that does not exist has no        *)
(* fields; and until a push goes astray the fields of every array are in   *)
(* place, up to where the next byte goes.                                  *)
(***************************************************************************)
Types ==
  /\ used \in [Arrays -> -1..DataSize]
  /\ data \in [Arrays -> Block]
  /\ open \in [Arrays -> [at : 0..DataSize, end : 0..DataSize]]
  /\ str \in [Arrays -> Seq(Byte)]
  /\ kept \in [Arrays -> Seq(AnyField)]
  /\ astray \in BOOLEAN

Protocol(a) ==
  /\ open[a] # Closed => used[a] >= 0 /\ str[a] = <<>>
  /\ used[a] = -1 => kept[a] = <<>>

Stays(a) == used[a] >= 0 => InPlace(data[a], kept[a], Reach(a))

DynInv ==
  /\ Types
  /\ \A a \in Arrays : Protocol(a)
  /\ ~astray => \A a \in Arrays : Stays(a)

(* A step that leaves every array but a as it is.                          *)
Leaves(b) ==
  /\ used'[b] = used[b] /\ data'[b] = data[b] /\ open'[b] = open[b]
  /\ str'[b] = str[b] /\ kept'[b] = kept[b]

LEMMA OneArray ==
  ASSUME DynInv, NEW a \in Arrays, ~astray, ~astray', Types', Protocol(a)', Stays(a)',
         \A b \in Arrays \ {a} : Leaves(b)
  PROVE  DynInv'
<1>1. ASSUME NEW b \in Arrays, b # a PROVE Protocol(b)' /\ Stays(b)'
  <2>1. Leaves(b) /\ Protocol(b) /\ Stays(b)
    BY <1>1 DEF DynInv
  <2>2. Protocol(b)'
    BY <2>1 DEF Leaves, Protocol, Closed
  <2>3. Stays(b)'
    <3>1. Reach(b)' = Reach(b)
      BY <2>1 DEF Leaves, Reach, Closed
    <3>2. used'[b] >= 0 => InPlace(data'[b], kept'[b], Reach(b)')
      BY <2>1, <3>1 DEF Leaves, Stays
    <3> QED
      BY <3>2 DEF Stays, InPlace, LiesAt, Total
  <2> QED
    BY <2>2, <2>3
<1> QED
  BY <1>1 DEF DynInv

(* A step that changes nothing but what stopped the program.               *)
LEMMA Nothing ==
  ASSUME DynInv, UNCHANGED <<used, data, open, str, kept, astray>>
  PROVE  DynInv'
BY DEF DynInv, Types, Protocol, Stays, Reach, Closed, InPlace, LiesAt, Total

(* Nothing lies in an array without fields.                                *)
LEMMA NoFields ==
  ASSUME NEW block
  PROVE  InPlace(block, <<>>, 0)
<1>1. <<>> \in Seq(AnyField) /\ Len(<<>>) = 0
  OBVIOUS
<1>2. Ends(<<>>)[0] = 0
  BY <1>1, EndsAre
<1>3. \A i \in 1..0 : LiesAt(block, <<>>, i)
  OBVIOUS
<1> QED
  BY <1>1, <1>2, <1>3 DEF InPlace, Total

LEMMA InitHolds == ASSUME DynInit PROVE DynInv
<1>1. Blank \in Block
  BY DEF Blank, Block
<1>2. Closed \in [at : 0..DataSize, end : 0..DataSize] /\ -1 \in -1..DataSize
  BY DynAssumption DEF Closed
<1>3. <<>> \in Seq(Byte) /\ <<>> \in Seq(AnyField)
  OBVIOUS
<1>4. Types
  BY <1>1, <1>2, <1>3 DEF DynInit, Types, NoString
<1>5. \A a \in Arrays : Protocol(a) /\ Stays(a)
  BY DEF DynInit, Protocol, Stays, NoString
<1> QED
  BY <1>4, <1>5 DEF DynInv

LEMMA DynCreateKeeps == ASSUME DynInv, NEW a \in Arrays, DynArrayCreate(a) PROVE DynInv'
<1>1. /\ used' = [used EXCEPT ![a] = 0] /\ used[a] = -1 /\ ~astray /\ ~astray'
      /\ data' = data /\ open' = open /\ str' = str /\ kept' = kept /\ astray' = astray
  BY DEF DynArrayCreate, Sound
<1>2. 0 \in -1..DataSize
  BY DynAssumption
<1>3. Types'
  BY <1>1, <1>2 DEF DynInv, Types
<1>4. open[a] = Closed /\ kept[a] = <<>> /\ used'[a] = 0
  BY <1>1 DEF DynInv, Protocol, Types
<1>5. Protocol(a)'
  BY <1>1, <1>4 DEF Protocol, Closed
<1>6. Reach(a)' = 0
  BY <1>1, <1>4 DEF Reach, Closed
<1>7. Stays(a)'
  <2>1. InPlace(data'[a], kept'[a], Reach(a)')
    BY <1>1, <1>4, <1>6, NoFields
  <2> QED
    BY <2>1 DEF Stays, InPlace, LiesAt, Total
<1>8. \A b \in Arrays \ {a} : Leaves(b)
  BY <1>1 DEF Leaves, DynInv, Types
<1> QED
  BY <1>1, <1>3, <1>5, <1>7, <1>8, OneArray

LEMMA FreeKeeps == ASSUME DynInv, NEW a \in Arrays, DynArrayFree(a) PROVE DynInv'
<1>1. /\ used' = [used EXCEPT ![a] = -1] /\ data' = [data EXCEPT ![a] = Blank]
      /\ kept' = [kept EXCEPT ![a] = <<>>] /\ ~astray /\ ~astray' /\ open[a] = Closed
      /\ open' = open /\ str' = str /\ astray' = astray
  BY DEF DynArrayFree, Sound
<1>2. Blank \in Block /\ <<>> \in Seq(AnyField) /\ -1 \in -1..DataSize
  BY DynAssumption DEF Blank, Block
<1>3. Types'
  BY <1>1, <1>2 DEF DynInv, Types
<1>4. used'[a] = -1 /\ kept'[a] = <<>> /\ open'[a] = Closed
  BY <1>1 DEF DynInv, Types
<1>5. Protocol(a)'
  BY <1>4 DEF Protocol, Closed
<1>6. Stays(a)'
  BY <1>4 DEF Stays
<1>7. \A b \in Arrays \ {a} : Leaves(b)
  BY <1>1 DEF Leaves, DynInv, Types
<1> QED
  BY <1>1, <1>3, <1>5, <1>6, <1>7, OneArray

LEMMA OpenKeeps == ASSUME DynInv, NEW a \in Alive, DynArrayOpen(a) PROVE DynInv'
<1>1. PICK size \in OpenSizes :
        IF NoRoom(a, size) THEN Stops("null pointer")
        ELSE /\ open' = [open EXCEPT ![a] = [at |-> used[a], end |-> used[a] + size]]
             /\ UNCHANGED <<used, data, str, kept, astray, stopped>>
  BY DEF DynArrayOpen
<1>2. Ready /\ ~astray /\ open[a] = Closed /\ a \in Arrays /\ used[a] >= 0
  BY DEF DynArrayOpen, Sound, Alive
<1>3. CASE NoRoom(a, size)
  BY <1>1, <1>3, Nothing DEF Stops
<1>4. CASE ~NoRoom(a, size)
  <2>1. /\ open' = [open EXCEPT ![a] = [at |-> used[a], end |-> used[a] + size]]
        /\ used' = used /\ data' = data /\ str' = str /\ kept' = kept /\ astray' = astray
    BY <1>1, <1>4
  <2>2. used[a] \in 0..DataSize /\ used[a] + size \in 0..DataSize /\ used[a] + size # 0
    BY <1>2, <1>4, DynAssumption DEF NoRoom, DynInv, Types
  <2>3. Types'
    BY <2>1, <2>2 DEF DynInv, Types
  <2>4. open'[a].at = used[a] /\ open'[a].end = used[a] + size
    BY <1>2, <2>1 DEF DynInv, Types
  <2>5. open'[a] # Closed
    <3>1. open'[a].end # 0
      BY <2>2, <2>4
    <3>2. Closed.end = 0
      BY DEF Closed
    <3> QED
      BY <3>1, <3>2
  <2>6. str[a] = <<>>
    BY <1>2 DEF Ready, NoString
  <2>7. Protocol(a)'
    BY <1>2, <2>1, <2>2, <2>6 DEF Protocol
  <2>8. Reach(a)' = Reach(a)
    BY <1>2, <2>1, <2>4, <2>5 DEF Reach, Closed
  <2>9. Stays(a)'
    <3>1. InPlace(data'[a], kept'[a], Reach(a)')
      BY <1>2, <2>1, <2>8 DEF DynInv, Stays
    <3> QED
      BY <3>1 DEF Stays, InPlace, LiesAt, Total
  <2>10. \A b \in Arrays \ {a} : Leaves(b)
    BY <2>1 DEF Leaves, DynInv, Types
  <2> QED
    BY <1>2, <2>1, <2>3, <2>7, <2>9, <2>10, OneArray
<1> QED
  BY <1>3, <1>4

LEMMA WriteKeeps == ASSUME DynInv, NEW a \in Alive, WriteField(a) PROVE DynInv'
<1>1. PICK f \in Fields :
        /\ open[a].at + f.width <= open[a].end
        /\ data' = [data EXCEPT ![a] = Stored(@, open[a].at, Write(f))]
        /\ open' = [open EXCEPT ![a].at = @ + f.width]
        /\ kept' = [kept EXCEPT ![a] = Append(@, f)]
  BY DEF WriteField
<1>2. /\ Ready /\ ~astray /\ open[a] # Closed /\ a \in Arrays /\ used[a] >= 0
      /\ used' = used /\ str' = str /\ astray' = astray
  BY DEF WriteField, Sound, Alive
<1>3. PICK end \in 0..DataSize : end = open[a].at
  BY <1>2 DEF DynInv, Types
<1>4. f \in AnyField /\ f.width \in Nat \ {0} /\ end + f.width <= DataSize
  <2>1. f \in AnyField
    BY DEF AnyField
  <2>2. open[a].end \in 0..DataSize
    BY <1>2 DEF DynInv, Types
  <2>3. f.width \in Nat \ {0}
    BY <2>1, BytesOfField
  <2> QED
    BY <1>1, <1>3, <2>1, <2>2, <2>3, DynAssumption
<1>5. data[a] \in Block /\ kept[a] \in Seq(AnyField) /\ InPlace(data[a], kept[a], end)
  BY <1>2, <1>3 DEF DynInv, Types, Stays, Reach
<1>6. PICK c, t : c = Stored(data[a], end, Write(f)) /\ t = Append(kept[a], f)
  OBVIOUS
<1>7. c \in Block /\ t \in Seq(AnyField) /\ InPlace(c, t, end + f.width)
  BY <1>4, <1>5, <1>6, FieldAppended
<1>8. /\ data' = [data EXCEPT ![a] = c] /\ kept' = [kept EXCEPT ![a] = t]
      /\ open' = [open EXCEPT ![a] = [at |-> end + f.width, end |-> open[a].end]]
  <2>1. data' = [data EXCEPT ![a] = c] /\ kept' = [kept EXCEPT ![a] = t]
    BY <1>1, <1>3, <1>6
  <2>2. open[a] \in [at : 0..DataSize, end : 0..DataSize]
    BY <1>2 DEF DynInv, Types
  <2>3. [open[a] EXCEPT !.at = @ + f.width] = [at |-> end + f.width, end |-> open[a].end]
    BY <1>3, <2>2
  <2> QED
    BY <1>1, <2>1, <2>3
<1>9. end + f.width \in 0..DataSize /\ end + f.width # 0
  BY <1>4, DynAssumption
<1>10. Types'
  BY <1>2, <1>7, <1>8, <1>9 DEF DynInv, Types
<1>11. open'[a].at = end + f.width /\ data'[a] = c /\ kept'[a] = t
  BY <1>2, <1>8 DEF DynInv, Types
<1>12. open'[a] # Closed
  <2>1. Closed.at = 0
    BY DEF Closed
  <2> QED
    BY <1>9, <1>11, <2>1
<1>13. Protocol(a)'
  BY <1>2, DynAssumption DEF DynInv, Protocol
<1>14. Stays(a)'
  <2>1. Reach(a)' = end + f.width
    BY <1>11, <1>12 DEF Reach, Closed
  <2>2. InPlace(data'[a], kept'[a], Reach(a)')
    BY <1>7, <1>11, <2>1
  <2> QED
    BY <2>2 DEF Stays, InPlace, LiesAt, Total
<1>15. \A b \in Arrays \ {a} : Leaves(b)
  BY <1>2, <1>8 DEF Leaves, DynInv, Types
<1> QED
  BY <1>2, <1>10, <1>13, <1>14, <1>15, OneArray

LEMMA CloseKeeps == ASSUME DynInv, NEW a \in Alive, DynArrayClose(a) PROVE DynInv'
<1>1. /\ Ready /\ ~astray /\ open[a] # Closed /\ a \in Arrays /\ used[a] >= 0
      /\ used' = [used EXCEPT ![a] = open[a].at] /\ open' = [open EXCEPT ![a] = Closed]
      /\ data' = data /\ str' = str /\ kept' = kept /\ astray' = astray
  BY DEF DynArrayClose, Sound, Alive
<1>2. open[a].at \in 0..DataSize /\ open[a].at \in -1..DataSize
  BY <1>1, DynAssumption DEF DynInv, Types
<1>3. Closed \in [at : 0..DataSize, end : 0..DataSize]
  BY DynAssumption DEF Closed
<1>4. Types'
  BY <1>1, <1>2, <1>3 DEF DynInv, Types
<1>5. used'[a] = open[a].at /\ open'[a] = Closed
  BY <1>1 DEF DynInv, Types
<1>6. Protocol(a)'
  BY <1>2, <1>5, DynAssumption DEF Protocol, Closed
<1>7. Stays(a)'
  <2>1. Reach(a)' = open[a].at /\ Reach(a) = open[a].at
    BY <1>1, <1>5 DEF Reach, Closed
  <2>2. InPlace(data'[a], kept'[a], Reach(a)')
    BY <1>1, <2>1 DEF DynInv, Stays
  <2> QED
    BY <2>2 DEF Stays, InPlace, LiesAt, Total
<1>8. \A b \in Arrays \ {a} : Leaves(b)
  BY <1>1 DEF Leaves, DynInv, Types
<1> QED
  BY <1>1, <1>4, <1>6, <1>7, <1>8, OneArray

(* A push either stops the program or puts the bytes into some block.      *)
Puts(block, a, bytes) ==
  /\ used[block] + Len(bytes) <= DataSize
  /\ data' = [data EXCEPT ![block] = Stored(@, used[block], bytes)]
  /\ used' = [used EXCEPT ![block] = @ + Len(bytes)]
  /\ astray' = (astray \/ block # a)
  /\ open' = open /\ stopped' = stopped

LEMMA Pushed ==
  ASSUME DynInv, NEW a \in Alive, NEW bytes \in Seq(Byte), Push(a, bytes), stopped = "running"
  PROVE  \/ stopped' # "running" /\ UNCHANGED <<used, data, open, str, kept, astray>>
         \/ stopped' = "running" /\ \E block \in Alive : Puts(block, a, bytes)
<1>1. CASE Stops("wild pointer")
  BY <1>1 DEF Stops
<1>2. CASE \E unset \in Alive :
             LET block == IF NoRoom(unset, Len(bytes)) THEN a ELSE unset
             IN  IF NoRoom(block, Len(bytes)) THEN Stops("null pointer")
                 ELSE /\ data' = [data EXCEPT ![block] = Stored(@, used[block], bytes)]
                      /\ used' = [used EXCEPT ![block] = @ + Len(bytes)]
                      /\ astray' = (astray \/ block # a)
                      /\ UNCHANGED <<open, stopped>>
  <2>1. PICK block \in Alive :
          IF NoRoom(block, Len(bytes)) THEN Stops("null pointer")
          ELSE /\ data' = [data EXCEPT ![block] = Stored(@, used[block], bytes)]
               /\ used' = [used EXCEPT ![block] = @ + Len(bytes)]
               /\ astray' = (astray \/ block # a)
               /\ UNCHANGED <<open, stopped>>
    BY <1>2
  <2>2. CASE NoRoom(block, Len(bytes))
    BY <2>1, <2>2 DEF Stops
  <2>3. CASE ~NoRoom(block, Len(bytes))
    <3>1. used[block] + Len(bytes) <= DataSize
      <4>1. used[block] \in Int /\ Len(bytes) \in Nat
        BY DynAssumption DEF Alive, DynInv, Types
      <4> QED
        BY <2>3, <4>1, DynAssumption DEF NoRoom
    <3>2. Puts(block, a, bytes)
      BY <2>1, <2>3, <3>1 DEF Puts
    <3> QED
      BY <2>1, <2>3, <3>2
  <2> QED
    BY <2>2, <2>3
<1> QED
  BY <1>1, <1>2 DEF Push

(* A push to another array leaves types and protocol as they are.          *)
LEMMA GoneAstray ==
  ASSUME DynInv, NEW a \in Alive, NEW block \in Alive, NEW bytes \in Seq(Byte),
         Puts(block, a, bytes), block # a, str' \in [Arrays -> Seq(Byte)],
         kept' \in [Arrays -> Seq(AnyField)],
         \A b \in Arrays \ {a} : str'[b] = str[b] /\ kept'[b] = kept[b],
         open[a] = Closed
  PROVE  DynInv'
<1>1. /\ block \in Arrays /\ a \in Arrays /\ used[block] >= 0 /\ used[a] >= 0
      /\ used[block] \in Nat /\ used[a] \in Nat /\ data[block] \in Block
  BY DynAssumption DEF Alive, DynInv, Types
<1>2. /\ used[block] + Len(bytes) <= DataSize /\ open' = open /\ astray' = TRUE
      /\ data' = [data EXCEPT ![block] = Stored(data[block], used[block], bytes)]
      /\ used' = [used EXCEPT ![block] = used[block] + Len(bytes)]
  BY DEF Puts
<1>3. Stored(data[block], used[block], bytes) \in Block
  BY <1>1, <1>2, StoredBytes
<1>4. used[block] + Len(bytes) \in Nat /\ used[block] + Len(bytes) \in -1..DataSize
  BY <1>1, <1>2, DynAssumption
<1>5. used' \in [Arrays -> -1..DataSize] /\ data' \in [Arrays -> Block]
  BY <1>2, <1>3, <1>4 DEF DynInv, Types
<1>6. Types'
  BY <1>2, <1>5 DEF DynInv, Types
<1>7. ASSUME NEW b \in Arrays PROVE Protocol(b)'
  <2>1. used'[block] = used[block] + Len(bytes) /\ \A o \in Arrays \ {block} : used'[o] = used[o]
    BY <1>1, <1>2 DEF DynInv, Types
  <2>2. Protocol(b)
    BY DEF DynInv
  <2>3. CASE b = a
    <3>1. open'[b] = Closed /\ used'[b] = used[a]
      BY <1>1, <1>2, <2>1, <2>3
    <3> QED
      BY <1>1, <3>1, DynAssumption DEF Protocol, Closed
  <2>4. CASE b = block
    <3>1. open'[b] = open[b] /\ str'[b] = str[b] /\ used'[b] >= 0 /\ used'[b] # -1
      BY <1>1, <1>2, <1>4, <2>1, <2>4
    <3> QED
      BY <2>2, <3>1 DEF Protocol, Closed
  <2>5. CASE b # a /\ b # block
    <3>1. open'[b] = open[b] /\ str'[b] = str[b] /\ used'[b] = used[b] /\ kept'[b] = kept[b]
      BY <1>2, <2>1, <2>5
    <3> QED
      BY <2>2, <3>1 DEF Protocol, Closed
  <2> QED
    BY <2>3, <2>4, <2>5
<1> QED
  BY <1>2, <1>6, <1>7 DEF DynInv

LEMMA PushKeeps == ASSUME DynInv, NEW a \in Alive, DynArrayPush(a) PROVE DynInv'
<1>1. PICK f \in Fields :
        /\ Push(a, Write(f))
        /\ stopped' = "running" => kept' = [kept EXCEPT ![a] = Append(@, f)] /\ UNCHANGED str
  BY DEF DynArrayPush
<1>2. /\ stopped = "running" /\ ~astray /\ open[a] = Closed /\ a \in Arrays /\ used[a] >= 0
      /\ str[a] = <<>>
  BY DEF DynArrayPush, Sound, Ready, Alive, NoString
<1>3. f \in AnyField
  BY DEF AnyField
<1>4. PICK bytes \in Seq(Byte) : bytes = Write(f) /\ Len(bytes) = f.width
  BY <1>3, WrittenBytes, BytesOfField
<1>5. CASE stopped' # "running" /\ UNCHANGED <<used, data, open, str, kept, astray>>
  BY <1>5, Nothing
<1>6. CASE stopped' = "running" /\ \E block \in Alive : Puts(block, a, bytes)
  <2>1. PICK block \in Alive : Puts(block, a, bytes)
    BY <1>6
  <2>2. kept' = [kept EXCEPT ![a] = Append(kept[a], f)] /\ str' = str
    BY <1>1, <1>6
  <2>3. kept[a] \in Seq(AnyField) /\ Append(kept[a], f) \in Seq(AnyField)
    BY <1>2, <1>3 DEF DynInv, Types
  <2>4. kept' \in [Arrays -> Seq(AnyField)] /\ str' \in [Arrays -> Seq(Byte)]
    BY <2>2, <2>3 DEF DynInv, Types
  <2>5. CASE block # a
    <3>1. \A b \in Arrays \ {a} : str'[b] = str[b] /\ kept'[b] = kept[b]
      BY <2>2 DEF DynInv, Types
    <3> QED
      BY <1>2, <2>1, <2>4, <2>5, <3>1, GoneAstray
  <2>6. CASE block = a
    <3>1. PICK end \in 0..DataSize : end = used[a]
      BY <1>2, DynAssumption DEF DynInv, Types
    <3>2. data[a] \in Block /\ InPlace(data[a], kept[a], end) /\ end + f.width <= DataSize
      <4>1. Reach(a) = end
        BY <1>2, <3>1 DEF Reach
      <4> QED
        BY <1>2, <1>4, <2>1, <2>6, <3>1, <4>1 DEF DynInv, Types, Stays, Puts
    <3>3. PICK c, t : c = Stored(data[a], end, Write(f)) /\ t = Append(kept[a], f)
      OBVIOUS
    <3>4. c \in Block /\ t \in Seq(AnyField) /\ InPlace(c, t, end + f.width)
      BY <1>3, <2>3, <3>2, <3>3, FieldAppended
    <3>5. /\ data' = [data EXCEPT ![a] = c] /\ used' = [used EXCEPT ![a] = end + f.width]
          /\ kept' = [kept EXCEPT ![a] = t] /\ open' = open /\ ~astray'
      BY <1>2, <1>4, <2>1, <2>2, <2>6, <3>1, <3>3 DEF Puts
    <3>6. end + f.width \in Nat /\ end + f.width \in -1..DataSize
      BY <1>3, <3>2, BytesOfField, DynAssumption
    <3>7. Types'
      <4>1. used' \in [Arrays -> -1..DataSize] /\ data' \in [Arrays -> Block]
        BY <3>4, <3>5, <3>6 DEF DynInv, Types
      <4>2. open' \in [Arrays -> [at : 0..DataSize, end : 0..DataSize]]
        BY <3>5 DEF DynInv, Types
      <4>3. astray' \in BOOLEAN
        <5>1. astray' = FALSE
          BY <1>2, <2>1, <2>6 DEF Puts
        <5> QED
          BY <5>1
      <4> QED
        BY <2>4, <4>1, <4>2, <4>3 DEF Types
    <3>8. /\ open'[a] = Closed /\ used'[a] = end + f.width /\ data'[a] = c
          /\ kept'[a] = t
      BY <1>2, <3>5 DEF DynInv, Types
    <3>9. Protocol(a)'
      BY <3>6, <3>8 DEF Protocol, Closed
    <3>10. Stays(a)'
      <4>1. Reach(a)' = end + f.width
        BY <3>8 DEF Reach, Closed
      <4>2. InPlace(data'[a], kept'[a], Reach(a)')
        BY <3>4, <3>8, <4>1
      <4> QED
        BY <4>2 DEF Stays, InPlace, LiesAt, Total
    <3>11. \A b \in Arrays \ {a} : Leaves(b)
      BY <2>2, <3>5 DEF Leaves, DynInv, Types
    <3> QED
      BY <1>2, <3>5, <3>7, <3>9, <3>10, <3>11, OneArray
  <2> QED
    BY <2>5, <2>6
<1> QED
  BY <1>1, <1>2, <1>4, <1>5, <1>6, Pushed

LEMMA StringKeeps == ASSUME DynInv, NEW a \in Alive, DynPushString(a) PROVE DynInv'
<1>1. PICK s \in Strings : str' = [str EXCEPT ![a] = s]
  BY DEF DynPushString
<1>2. /\ ~astray /\ open[a] = Closed /\ a \in Arrays /\ used[a] >= 0 /\ used[a] # -1
      /\ used' = used /\ data' = data /\ open' = open /\ kept' = kept /\ astray' = astray
  BY DEF DynPushString, Sound, Alive
<1>3. s \in Seq(Byte)
  BY DynAssumption
<1>4. Types'
  BY <1>1, <1>2, <1>3 DEF DynInv, Types
<1>5. Protocol(a)'
  BY <1>2 DEF Protocol, Closed
<1>6. Stays(a)'
  <2>1. Reach(a)' = Reach(a)
    BY <1>2 DEF Reach, Closed
  <2>2. InPlace(data'[a], kept'[a], Reach(a)')
    BY <1>2, <2>1 DEF DynInv, Stays
  <2> QED
    BY <2>2 DEF Stays, InPlace, LiesAt, Total
<1>7. \A b \in Arrays \ {a} : Leaves(b)
  BY <1>1, <1>2 DEF Leaves, DynInv, Types
<1> QED
  BY <1>2, <1>4, <1>5, <1>6, <1>7, OneArray

(* The next piece of a string and what is left of it.                      *)
LEMMA Pieces ==
  ASSUME NEW s \in Seq(Byte), NEW n \in Nat, n <= Len(s)
  PROVE  /\ SubSeq(s, 1, n) \in Seq(Byte) /\ Len(SubSeq(s, 1, n)) = n
         /\ SubSeq(s, n + 1, Len(s)) \in Seq(Byte)
OBVIOUS

LEMMA PieceKeeps == ASSUME DynInv, NEW a \in Alive, PushPiece(a) PROVE DynInv'
<1>1. PICK n : n = IF Len(str[a]) > DataSize THEN DataSize ELSE Len(str[a])
  OBVIOUS
<1>2. PICK bytes : bytes = SubSeq(str[a], 1, n)
  OBVIOUS
<1>3. /\ stopped = "running" /\ ~astray /\ str[a] # <<>>
      /\ Push(a, bytes)
      /\ stopped' = "running" =>
           /\ str' = [str EXCEPT ![a] = SubSeq(str[a], n + 1, Len(str[a]))]
           /\ kept' = [kept EXCEPT ![a] = kept[a] \o AsFields(bytes)]
  BY <1>1, <1>2 DEF PushPiece
<1>4. a \in Arrays /\ used[a] >= 0 /\ open[a] = Closed /\ str[a] \in Seq(Byte)
  BY <1>3 DEF Alive, DynInv, Protocol, Types
<1>5. n \in Nat /\ n <= Len(str[a])
  BY <1>1, <1>4, DynAssumption
<1>6. /\ bytes \in Seq(Byte) /\ Len(bytes) = n
      /\ SubSeq(str[a], n + 1, Len(str[a])) \in Seq(Byte)
  BY <1>2, <1>4, <1>5, Pieces
<1>7. CASE stopped' # "running" /\ UNCHANGED <<used, data, open, str, kept, astray>>
  BY <1>7, Nothing
<1>8. CASE stopped' = "running" /\ \E block \in Alive : Puts(block, a, bytes)
  <2>1. PICK block \in Alive : Puts(block, a, bytes)
    BY <1>8
  <2>2. PICK rest \in Seq(Byte) : rest = SubSeq(str[a], n + 1, Len(str[a]))
    BY <1>6
  <2>3. PICK t : t = kept[a] \o AsFields(bytes)
    OBVIOUS
  <2>4. str' = [str EXCEPT ![a] = rest] /\ kept' = [kept EXCEPT ![a] = t]
    BY <1>3, <1>8, <2>2, <2>3
  <2>5. kept[a] \in Seq(AnyField) /\ t \in Seq(AnyField)
    <3>1. kept[a] \in Seq(AnyField)
      BY <1>4 DEF DynInv, Types
    <3>2. AsFields(bytes) \in Seq(AnyField)
      BY <1>6, FieldsOfBytes
    <3> QED
      BY <2>3, <3>1, <3>2
  <2>6. kept' \in [Arrays -> Seq(AnyField)] /\ str' \in [Arrays -> Seq(Byte)]
    BY <2>2, <2>4, <2>5 DEF DynInv, Types
  <2>7. CASE block # a
    <3>1. \A b \in Arrays \ {a} : str'[b] = str[b] /\ kept'[b] = kept[b]
      BY <2>4 DEF DynInv, Types
    <3> QED
      BY <1>4, <1>6, <2>1, <2>6, <2>7, <3>1, GoneAstray
  <2>8. CASE block = a
    <3>1. PICK end \in 0..DataSize : end = used[a]
      BY <1>4, DynAssumption DEF DynInv, Types
    <3>2. data[a] \in Block /\ InPlace(data[a], kept[a], end) /\ end + Len(bytes) <= DataSize
      <4>1. Reach(a) = end
        BY <1>4, <3>1 DEF Reach
      <4> QED
        BY <1>3, <1>4, <2>1, <2>8, <3>1, <4>1 DEF DynInv, Types, Stays, Puts
    <3>3. PICK c : c = Stored(data[a], end, bytes)
      OBVIOUS
    <3>4. c \in Block /\ InPlace(c, t, end + Len(bytes))
      BY <1>6, <2>3, <2>5, <3>2, <3>3, PieceAppended
    <3>5. /\ data' = [data EXCEPT ![a] = c] /\ used' = [used EXCEPT ![a] = end + Len(bytes)]
          /\ open' = open /\ ~astray'
      BY <1>3, <2>1, <2>8, <3>1, <3>3 DEF Puts
    <3>6. end + Len(bytes) \in Nat /\ end + Len(bytes) \in -1..DataSize
      BY <1>5, <1>6, <3>2, DynAssumption
    <3>7. Types'
      <4>1. used' \in [Arrays -> -1..DataSize] /\ data' \in [Arrays -> Block]
        BY <3>4, <3>5, <3>6 DEF DynInv, Types
      <4>2. open' \in [Arrays -> [at : 0..DataSize, end : 0..DataSize]]
        BY <3>5 DEF DynInv, Types
      <4>3. astray' \in BOOLEAN
        <5>1. astray' = FALSE
          BY <1>3, <2>1, <2>8 DEF Puts
        <5> QED
          BY <5>1
      <4> QED
        BY <2>6, <4>1, <4>2, <4>3 DEF Types
    <3>8. /\ open'[a] = Closed /\ used'[a] = end + Len(bytes) /\ data'[a] = c
          /\ kept'[a] = t
      BY <1>4, <2>4, <3>5 DEF DynInv, Types
    <3>9. Protocol(a)'
      BY <3>6, <3>8 DEF Protocol, Closed
    <3>10. Stays(a)'
      <4>1. Reach(a)' = end + Len(bytes)
        BY <3>8 DEF Reach, Closed
      <4>2. InPlace(data'[a], kept'[a], Reach(a)')
        BY <3>4, <3>8, <4>1
      <4> QED
        BY <4>2 DEF Stays, InPlace, LiesAt, Total
    <3>11. \A b \in Arrays \ {a} : Leaves(b)
      BY <2>4, <3>5 DEF Leaves, DynInv, Types
    <3> QED
      BY <1>3, <1>4, <3>5, <3>7, <3>9, <3>10, <3>11, OneArray
  <2> QED
    BY <2>7, <2>8
<1> QED
  BY <1>3, <1>6, <1>7, <1>8, Pushed

LEMMA GetKeeps == ASSUME DynInv, NEW a \in Alive, DynArrayGetElement(a) PROVE DynInv'
<1>1. UNCHANGED <<used, data, open, str, kept, astray>>
  BY DEF DynArrayGetElement, Stops, dynVars
<1> QED
  BY <1>1, Nothing

LEMMA DynInvKept == ASSUME DynInv, [DynNext]_dynVars PROVE DynInv'
<1>1. CASE \E a \in Arrays : DynArrayCreate(a)
  BY <1>1, DynCreateKeeps
<1>2. ASSUME NEW a \in Alive,
             \/ DynArrayFree(a)
             \/ DynArrayOpen(a) \/ WriteField(a) \/ DynArrayClose(a)
             \/ DynArrayPush(a) \/ DynPushString(a) \/ PushPiece(a)
             \/ DynArrayGetElement(a)
      PROVE  DynInv'
  <2>1. a \in Arrays
    BY DEF Alive
  <2> QED
    BY <1>2, <2>1, FreeKeeps, OpenKeeps, WriteKeeps, CloseKeeps, PushKeeps, StringKeeps,
       PieceKeeps, GetKeeps
<1>3. CASE UNCHANGED dynVars
  BY <1>3, Nothing DEF dynVars
<1> QED
  BY <1>1, <1>2, <1>3 DEF DynNext

THEOREM DynInvAlways == DynSpec => []DynInv
<1>1. DynInit => DynInv
  BY InitHolds
<1>2. DynInv /\ [DynNext]_dynVars => DynInv'
  BY DynInvKept
<1> QED
  BY <1>1, <1>2, PTL DEF DynSpec

(* The bytes of a field, loaded from where it lies.                        *)
LEMMA LoadedField ==
  ASSUME DynInv, ~astray, NEW a \in Alive, NEW i \in DOMAIN kept[a]
  PROVE  /\ kept[a][i] \in AnyField
         /\ Loaded(data[a], Offset(a, i), kept[a][i].width) = BytesOf(kept[a][i])
<1>1. a \in Arrays /\ used[a] >= 0
  BY DEF Alive
<1>2. PICK s, block : s = kept[a] /\ block = data[a] /\ s \in Seq(AnyField)
  BY <1>1 DEF DynInv, Types
<1>3. i \in 1..Len(s) /\ s[i] \in AnyField
  BY <1>2
<1>4. LiesAt(block, s, i)
  BY <1>1, <1>2, <1>3 DEF DynInv, Stays, InPlace
<1>5. PICK f, b : f = s[i] /\ b = BytesOf(f) /\ f \in AnyField
  BY <1>3
<1>6. b \in Seq(Byte) /\ Len(b) = f.width
  BY <1>5, BytesOfField
<1>7. PICK at : at = Ends(s)[i - 1]
  OBVIOUS
<1>8. Loaded(block, at, f.width) = [k \in 1..f.width |-> b[k]]
  BY <1>4, <1>5, <1>7 DEF Loaded, LiesAt
<1>9. b = [k \in 1..f.width |-> b[k]]
  BY <1>6
<1>10. Offset(a, i) = at
  BY <1>2, <1>7 DEF Offset
<1> QED
  BY <1>2, <1>5, <1>8, <1>9, <1>10

(* FieldsReadBack: in arrays of any size, with bytes of any width and      *)
(* fields of any value that fits, what is opened, written, closed and      *)
(* pushed lies where it was put and reads back as what was written.        *)
THEOREM FieldsStayInPlace == DynSpec => []FieldsReadBack
<1>1. DynInv => FieldsReadBack
  <2> SUFFICES ASSUME DynInv, ~astray, NEW a \in Alive
               PROVE  /\ Reach(a) = Total(kept[a]) /\ Reach(a) <= DataSize
                      /\ \A i \in DOMAIN kept[a] :
                           Read(Loaded(data[a], Offset(a, i), kept[a][i].width)) = kept[a][i].value
    BY DEF FieldsReadBack
  <2>1. a \in Arrays /\ used[a] >= 0
    BY DEF Alive
  <2>2. Reach(a) = Total(kept[a])
    BY <2>1 DEF DynInv, Stays, InPlace
  <2>3. Reach(a) <= DataSize
    BY <2>1, DynAssumption DEF DynInv, Types, Reach
  <2>4. ASSUME NEW i \in DOMAIN kept[a]
        PROVE  Read(Loaded(data[a], Offset(a, i), kept[a][i].width)) = kept[a][i].value
    BY LoadedField, WrittenBytes
  <2> QED
    BY <2>2, <2>3, <2>4
<1> QED
  BY <1>1, DynInvAlways, PTL

(* FieldsOrdered: bytes of any width keep the order of the numbers.        *)
THEOREM FieldsStayOrdered == DynSpec => []FieldsOrdered
<1>1. DynInv => FieldsOrdered
  <2> SUFFICES ASSUME DynInv, ~astray, NEW a \in Alive, NEW b \in Alive,
                      NEW i \in DOMAIN kept[a], NEW j \in DOMAIN kept[b],
                      kept[a][i].width = kept[b][j].width
               PROVE  kept[a][i].value < kept[b][j].value <=>
                        Precedes(Loaded(data[a], Offset(a, i), kept[a][i].width),
                                 Loaded(data[b], Offset(b, j), kept[b][j].width))
    BY DEF FieldsOrdered
  <2>1. PICK f, g : f = kept[a][i] /\ g = kept[b][j] /\ f.width = g.width
    OBVIOUS
  <2>2. /\ f \in AnyField /\ Loaded(data[a], Offset(a, i), f.width) = BytesOf(f)
        /\ g \in AnyField /\ Loaded(data[b], Offset(b, j), g.width) = BytesOf(g)
    BY <2>1, LoadedField
  <2>3. PICK w \in Nat, v \in Nat, u \in Nat :
          /\ w = f.width /\ w = g.width /\ v = f.value /\ u = g.value
          /\ v < Radix[w] /\ u < Radix[w]
    BY <2>1, <2>2, FieldsFit, BytesOfField
  <2>4. v < u <=> Precedes(BigEndian(v, w), BigEndian(u, w))
    BY <2>3, BytesAreOrdered
  <2>5. BytesOf(f) = BigEndian(v, w) /\ BytesOf(g) = BigEndian(u, w)
    BY <2>3 DEF BytesOf
  <2> QED
    BY <2>1, <2>2, <2>3, <2>4, <2>5
<1> QED
  BY <1>1, DynInvAlways, PTL
=============================================================================

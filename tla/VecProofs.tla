----------------------------- MODULE VecProofs -----------------------------
(***************************************************************************)
(* The arrays of vec.c, for every number of vectors and elements and every *)
(* sequence of calls: proofs about Vec.                                    *)
(***************************************************************************)
EXTENDS Vec, Lemmas, SequenceTheorems

(* What a cell holds, and the cells of a block with room for n elements.   *)
Held == Values \cup {Junk}

CellsOf(n) == [0..(n - 1) -> Held]

-----------------------------------------------------------------------------
(***************************************************************************)
(* The loops copy, copy_backward and fill_n, in closed form.               *)
(***************************************************************************)
(* The n cells from first on are also at to.                               *)
Moved(c, m, first, n, to) ==
  c = [j \in DOMAIN m |-> IF j \in to..(to + n - 1) THEN m[j - to + first] ELSE m[j]]

Filled(c, m, first, last, x) ==
  c = [j \in DOMAIN m |-> IF j \in first..(last - 1) THEN x ELSE m[j]]

(* One turn of the loop of copy: the cells first + n to to + n.            *)
LEMMA MovedOneMore ==
  ASSUME NEW cap \in Nat, NEW c \in CellsOf(cap), NEW first \in Nat, NEW to \in Nat,
         NEW n \in Nat, first + n < cap, to <= first \/ first + n < to,
         NEW d, Moved(d, c, first, n, to),
         NEW x, x = to + n, NEW y, y = first + n
  PROVE  Moved([d EXCEPT ![x] = d[y]], c, first, n + 1, to)
<1>1. DOMAIN c = 0..(cap - 1) /\ DOMAIN d = DOMAIN c
  BY DEF CellsOf, Moved
<1>2. y \in DOMAIN c /\ y \notin to..(to + n - 1)
  BY <1>1
<1>3. d[y] = c[y]
  BY <1>2 DEF Moved
<1>4. ASSUME NEW j \in DOMAIN c
      PROVE  [d EXCEPT ![x] = d[y]][j] = IF j \in to..(to + (n + 1) - 1) THEN c[j - to + first] ELSE c[j]
  <2>1. j \in 0..(cap - 1) /\ d[j] = IF j \in to..(to + n - 1) THEN c[j - to + first] ELSE c[j]
    BY <1>1, <1>4 DEF Moved
  <2>2. CASE j = x
    <3>1. j \in to..(to + (n + 1) - 1) /\ j - to + first = y
      BY <2>2
    <3> QED
      BY <1>1, <1>3, <2>2, <3>1
  <2>3. CASE j # x
    <3>1. j \in to..(to + (n + 1) - 1) <=> j \in to..(to + n - 1)
      BY <2>1, <2>3
    <3> QED
      BY <1>1, <2>1, <2>3, <3>1
  <2> QED
    BY <2>2, <2>3
<1> QED
  BY <1>1, <1>4 DEF Moved

LEMMA MovedNone ==
  ASSUME NEW cap \in Nat, NEW c \in CellsOf(cap), NEW first \in Nat, NEW to \in Nat
  PROVE  Moved(c, c, first, 0, to)
<1>1. \A j \in DOMAIN c : j \notin to..(to + 0 - 1)
  OBVIOUS
<1>2. c = [j \in DOMAIN c |-> c[j]]
  BY DEF CellsOf
<1> QED
  BY <1>1, <1>2 DEF Moved

(* copy never reads what it has written when it moves down, or past the    *)
(* end of what it reads.                                                   *)
LEMMA CopyMoves ==
  ASSUME NEW cap \in Nat, NEW c \in CellsOf(cap),
         NEW first \in Nat, NEW last \in Nat, NEW to \in Nat,
         first <= last, last <= cap, to <= first \/ last <= to
  PROVE  Moved(Copy(c, first, last, to), c, first, last - first, to)
<1>1. PICK n \in Nat : n = last - first
  OBVIOUS
<1> DEFINE Turn(d, k) == [d EXCEPT ![to + k - 1] = d[first + k - 1]]
    Loops(f) == f = [k \in 0..n |-> IF k = 0 THEN c ELSE Turn(f[k - 1], k)]
<1>2. ASSUME NEW k \in 0..n, k # 0, NEW d, Moved(d, c, first, k - 1, to)
      PROVE  Moved(Turn(d, k), c, first, k, to)
  <2>1. PICK i \in Nat : i = k - 1 /\ k = i + 1
    BY <1>2
  <2>2. first + i < cap /\ (to <= first \/ first + i < to)
    BY <1>1, <2>1
  <2>3. to + k - 1 = to + i /\ first + k - 1 = first + i
    BY <2>1
  <2>4. Moved(d, c, first, i, to)
    BY <1>2, <2>1
  <2>5. Moved([d EXCEPT ![to + k - 1] = d[first + k - 1]], c, first, i + 1, to)
    BY <2>2, <2>3, <2>4, MovedOneMore
  <2> QED
    BY <2>1, <2>5
<1> HIDE DEF Turn
<1>3. \E g : Loops(g)
  <2>1. PICK g : g = [k \in 0..n |-> [j \in DOMAIN c |->
                       IF j \in to..(to + k - 1) THEN c[j - to + first] ELSE c[j]]]
    OBVIOUS
  <2>2. \A k \in 0..n : Moved(g[k], c, first, k, to)
    BY <2>1 DEF Moved
  <2>3. ASSUME NEW k \in 0..n PROVE g[k] = IF k = 0 THEN c ELSE Turn(g[k - 1], k)
    <3>1. CASE k = 0
      <4>1. Moved(c, c, first, 0, to) /\ Moved(g[0], c, first, 0, to)
        BY <2>2, <3>1, MovedNone
      <4> QED
        BY <3>1, <4>1 DEF Moved
    <3>2. CASE k # 0
      <4>1. k - 1 \in 0..n
        BY <3>2
      <4>2. Moved(Turn(g[k - 1], k), c, first, k, to) /\ Moved(g[k], c, first, k, to)
        BY <1>2, <2>2, <3>2, <4>1
      <4> QED
        BY <3>2, <4>2 DEF Moved
    <3> QED
      BY <3>1, <3>2
  <2>4. g = [k \in 0..n |-> g[k]]
    BY <2>1
  <2>5. [k \in 0..n |-> g[k]] = [k \in 0..n |-> IF k = 0 THEN c ELSE Turn(g[k - 1], k)]
    BY <2>3
  <2> QED
    BY <2>4, <2>5
<1>4. PICK f : f = CHOOSE h : Loops(h)
  OBVIOUS
<1>5. Loops(f)
  BY <1>3, <1>4
<1>6. Copy(c, first, last, to) = f[n]
  BY <1>1, <1>4 DEF Copy, Turn
<1> DEFINE U == {k \in Nat : k \in 0..n => Moved(f[k], c, first, k, to)}
<1>7. 0 \in U
  BY <1>5, MovedNone
<1>8. \A k \in Nat : k \in U => k + 1 \in U
  <2> SUFFICES ASSUME NEW k \in Nat, k \in 0..n => Moved(f[k], c, first, k, to), k + 1 \in 0..n
               PROVE  Moved(f[k + 1], c, first, k + 1, to)
    OBVIOUS
  <2>1. f[k + 1] = Turn(f[k], k + 1)
    BY <1>5
  <2>2. k + 1 # 0 /\ (k + 1) - 1 = k /\ k \in 0..n
    OBVIOUS
  <2>3. Moved(f[k], c, first, (k + 1) - 1, to)
    BY <2>2
  <2> QED
    BY <1>2, <2>1, <2>2, <2>3
<1>9. \A k \in Nat : k \in U
  <2> HIDE DEF U
  <2> QED
    BY <1>7, <1>8, AllNaturals
<1>10. Moved(f[n], c, first, n, to)
  BY <1>9
<1> QED
  BY <1>1, <1>6, <1>10

(* One turn of the loop of copy_backward: the cell f to t, the n cells     *)
(* behind it are there already.                                            *)
LEMMA MovedOneMoreBackward ==
  ASSUME NEW cap \in Nat, NEW c \in CellsOf(cap), NEW first \in Nat, NEW to \in Nat,
         NEW n \in Nat, first < cap, first <= to,
         NEW d, Moved(d, c, first + 1, n, to + 1)
  PROVE  Moved([d EXCEPT ![to] = d[first]], c, first, n + 1, to)
<1>1. DOMAIN c = 0..(cap - 1) /\ DOMAIN d = DOMAIN c
  BY DEF CellsOf, Moved
<1>2. first \in DOMAIN c /\ first \notin (to + 1)..(to + 1 + n - 1)
  BY <1>1
<1>3. d[first] = c[first]
  BY <1>2 DEF Moved
<1>4. ASSUME NEW j \in DOMAIN c
      PROVE  [d EXCEPT ![to] = d[first]][j] =
               IF j \in to..(to + (n + 1) - 1) THEN c[j - to + first] ELSE c[j]
  <2>1. j \in 0..(cap - 1)
    BY <1>1
  <2>2. d[j] = IF j \in (to + 1)..(to + 1 + n - 1) THEN c[j - (to + 1) + (first + 1)] ELSE c[j]
    BY DEF Moved
  <2>3. CASE j = to
    <3>1. j \in to..(to + (n + 1) - 1) /\ j - to + first = first
      BY <2>3
    <3> QED
      BY <1>1, <1>3, <2>3, <3>1
  <2>4. CASE j # to
    <3>1. j \in to..(to + (n + 1) - 1) <=> j \in (to + 1)..(to + 1 + n - 1)
      BY <2>1, <2>4
    <3>2. j - (to + 1) + (first + 1) = j - to + first
      BY <2>1
    <3> QED
      BY <1>1, <2>2, <2>4, <3>1, <3>2
  <2> QED
    BY <2>3, <2>4
<1> QED
  BY <1>1, <1>4 DEF Moved

(* copy_backward never reads what it has written when it moves up; to is   *)
(* the end of where the cells go.                                          *)
LEMMA CopyBackwardMoves ==
  ASSUME NEW cap \in Nat, NEW c \in CellsOf(cap),
         NEW first \in Nat, NEW last \in Nat, NEW to \in Nat,
         first <= last, last <= cap, last <= to
  PROVE  Moved(CopyBackward(c, first, last, to), c, first, last - first, to - (last - first))
<1>1. PICK n \in Nat : n = last - first
  OBVIOUS
<1> DEFINE Turn(d, k) == [d EXCEPT ![to - k] = d[last - k]]
    Loops(f) == f = [k \in 0..n |-> IF k = 0 THEN c ELSE Turn(f[k - 1], k)]
    Done(d, k) == Moved(d, c, last - k, k, to - k)
<1>2. ASSUME NEW k \in 0..n, k # 0, NEW d, Done(d, k - 1)
      PROVE  Done(Turn(d, k), k)
  <2>1. PICK i \in Nat : i = k - 1 /\ k = i + 1
    BY <1>2
  <2>2. PICK f \in Nat : f = last - k /\ f + 1 = last - i
    BY <1>1, <2>1
  <2>3. PICK t \in Nat : t = to - k /\ t + 1 = to - i
    BY <1>1, <2>1
  <2>4. f < cap /\ f <= t
    BY <1>1, <2>1, <2>2, <2>3
  <2>5. Moved(d, c, f + 1, i, t + 1)
    BY <1>2, <2>1, <2>2, <2>3
  <2>6. Moved([d EXCEPT ![t] = d[f]], c, f, i + 1, t)
    BY <2>4, <2>5, MovedOneMoreBackward
  <2> QED
    BY <2>1, <2>2, <2>3, <2>6
<1>3. Done(c, 0)
  <2>1. last - 0 \in Nat /\ to - 0 \in Nat
    OBVIOUS
  <2> QED
    BY <2>1, MovedNone
<1>4. \A k \in 0..n : \A d, e : Done(d, k) /\ Done(e, k) => d = e
  BY DEF Moved
<1> HIDE DEF Turn
<1>5. \E g : Loops(g)
  <2>1. PICK g : g = [k \in 0..n |-> [j \in DOMAIN c |->
                       IF j \in (to - k)..(to - k + k - 1) THEN c[j - (to - k) + (last - k)]
                       ELSE c[j]]]
    OBVIOUS
  <2>2. \A k \in 0..n : Done(g[k], k)
    BY <2>1 DEF Moved
  <2> HIDE DEF Done
  <2>3. ASSUME NEW k \in 0..n PROVE g[k] = IF k = 0 THEN c ELSE Turn(g[k - 1], k)
    <3>1. CASE k = 0
      BY <1>3, <1>4, <2>2, <3>1
    <3>2. CASE k # 0
      <4>1. k - 1 \in 0..n
        BY <3>2
      <4>2. Done(Turn(g[k - 1], k), k) /\ Done(g[k], k)
        BY <1>2, <2>2, <3>2, <4>1
      <4> QED
        BY <1>4, <3>2, <4>2
    <3> QED
      BY <3>1, <3>2
  <2>4. g = [k \in 0..n |-> g[k]]
    BY <2>1
  <2>5. [k \in 0..n |-> g[k]] = [k \in 0..n |-> IF k = 0 THEN c ELSE Turn(g[k - 1], k)]
    BY <2>3
  <2> QED
    BY <2>4, <2>5
<1>6. PICK f : f = CHOOSE h : Loops(h)
  OBVIOUS
<1>7. Loops(f)
  BY <1>5, <1>6
<1>8. CopyBackward(c, first, last, to) = f[n]
  BY <1>1, <1>6 DEF CopyBackward, Turn
<1> DEFINE U == {k \in Nat : k \in 0..n => Done(f[k], k)}
<1> HIDE DEF Done
<1>9. 0 \in U
  BY <1>3, <1>7
<1>10. \A k \in Nat : k \in U => k + 1 \in U
  <2> SUFFICES ASSUME NEW k \in Nat, k \in 0..n => Done(f[k], k), k + 1 \in 0..n
               PROVE  Done(f[k + 1], k + 1)
    OBVIOUS
  <2>1. f[k + 1] = Turn(f[k], k + 1)
    BY <1>7
  <2>2. k + 1 # 0 /\ (k + 1) - 1 = k /\ k \in 0..n
    OBVIOUS
  <2> QED
    BY <1>2, <2>1, <2>2
<1>11. \A k \in Nat : k \in U
  <2> HIDE DEF U
  <2> QED
    BY <1>9, <1>10, AllNaturals
<1>12. Done(f[n], n)
  BY <1>11
<1>13. last - n = first /\ to - n = to - (last - first)
  BY <1>1
<1> QED
  BY <1>1, <1>8, <1>12, <1>13 DEF Done

(* fill_n, where value may point to one of the cells that are filled.      *)
LEMMA FillFills ==
  ASSUME NEW cap \in Nat, NEW c \in CellsOf(cap),
         NEW first \in Nat, NEW last \in Nat, first <= last,
         NEW w, w[1] = "element" => w[2] \in 0..(cap - 1)
  PROVE  Filled(Fill(c, first, last, w), c, first, last, Read(c, w))
<1>1. PICK n \in Nat : n = last - first
  OBVIOUS
<1> DEFINE Turn(d, k) == [d EXCEPT ![first + k - 1] = Read(d, w)]
    Loops(f) == f = [k \in 0..n |-> IF k = 0 THEN c ELSE Turn(f[k - 1], k)]
    Done(d, k) == Filled(d, c, first, first + k, Read(c, w))
<1>2. DOMAIN c = 0..(cap - 1) /\ c = [j \in DOMAIN c |-> c[j]]
  BY DEF CellsOf
<1>3. ASSUME NEW k \in 0..n, k # 0, NEW d, Done(d, k - 1)
      PROVE  Done(Turn(d, k), k)
  <2>1. \A j \in DOMAIN c : d[j] = IF j \in first..(first + (k - 1) - 1) THEN Read(c, w) ELSE c[j]
    BY <1>3 DEF Filled
  <2>2. Read(d, w) = Read(c, w)
    BY <1>2, <2>1 DEF Read
  <2>3. DOMAIN d = DOMAIN c
    BY <1>3 DEF Filled
  <2>4. ASSUME NEW j \in DOMAIN c
        PROVE  Turn(d, k)[j] = IF j \in first..(first + k - 1) THEN Read(c, w) ELSE c[j]
    <3>1. j \in 0..(cap - 1)
      BY <1>2
    <3>2. CASE j = first + k - 1
      BY <1>3, <2>2, <2>3, <3>2
    <3>3. CASE j # first + k - 1
      <4>1. j \in first..(first + k - 1) <=> j \in first..(first + (k - 1) - 1)
        BY <1>3, <3>1, <3>3
      <4> QED
        BY <2>1, <2>3, <3>3, <4>1
    <3> QED
      BY <3>2, <3>3
  <2>5. PICK e : e = Turn(d, k)
    OBVIOUS
  <2>6. DOMAIN e = DOMAIN c /\ e = [j \in DOMAIN e |-> e[j]]
    BY <2>3, <2>5
  <2>7. \A j \in DOMAIN c : e[j] = IF j \in first..(first + k - 1) THEN Read(c, w) ELSE c[j]
    BY <2>4, <2>5
  <2> HIDE DEF Turn
  <2>8. Filled(e, c, first, first + k, Read(c, w))
    BY <2>6, <2>7 DEF Filled
  <2> QED
    BY <2>5, <2>8
<1>4. Done(c, 0)
  <2>1. \A j \in DOMAIN c : j \notin first..(first + 0 - 1)
    BY <1>2
  <2> QED
    BY <1>2, <2>1 DEF Filled
<1>5. \A k \in 0..n : \A d, e : Done(d, k) /\ Done(e, k) => d = e
  BY DEF Filled
<1> HIDE DEF Turn
<1>6. \E g : Loops(g)
  <2>1. PICK g : g = [k \in 0..n |-> [j \in DOMAIN c |->
                       IF j \in first..(first + k - 1) THEN Read(c, w) ELSE c[j]]]
    OBVIOUS
  <2>2. \A k \in 0..n : Done(g[k], k)
    BY <2>1 DEF Filled
  <2> HIDE DEF Done
  <2>3. ASSUME NEW k \in 0..n PROVE g[k] = IF k = 0 THEN c ELSE Turn(g[k - 1], k)
    <3>1. CASE k = 0
      BY <1>4, <1>5, <2>2, <3>1
    <3>2. CASE k # 0
      <4>1. k - 1 \in 0..n
        BY <3>2
      <4>2. Done(Turn(g[k - 1], k), k) /\ Done(g[k], k)
        BY <1>3, <2>2, <3>2, <4>1
      <4> QED
        BY <1>5, <3>2, <4>2
    <3> QED
      BY <3>1, <3>2
  <2>4. g = [k \in 0..n |-> g[k]]
    BY <2>1
  <2>5. [k \in 0..n |-> g[k]] = [k \in 0..n |-> IF k = 0 THEN c ELSE Turn(g[k - 1], k)]
    BY <2>3
  <2> QED
    BY <2>4, <2>5
<1>7. PICK f : f = CHOOSE h : Loops(h)
  OBVIOUS
<1>8. Loops(f)
  BY <1>6, <1>7
<1>9. Fill(c, first, last, w) = f[n]
  BY <1>1, <1>7 DEF Fill, Turn
<1> DEFINE U == {k \in Nat : k \in 0..n => Done(f[k], k)}
<1> HIDE DEF Done
<1>10. 0 \in U
  BY <1>4, <1>8
<1>11. \A k \in Nat : k \in U => k + 1 \in U
  <2> SUFFICES ASSUME NEW k \in Nat, k \in 0..n => Done(f[k], k), k + 1 \in 0..n
               PROVE  Done(f[k + 1], k + 1)
    OBVIOUS
  <2>1. f[k + 1] = Turn(f[k], k + 1)
    BY <1>8
  <2>2. k + 1 # 0 /\ (k + 1) - 1 = k /\ k \in 0..n
    OBVIOUS
  <2> QED
    BY <1>3, <2>1, <2>2
<1>12. \A k \in Nat : k \in U
  <2> HIDE DEF U
  <2> QED
    BY <1>10, <1>11, AllNaturals
<1>13. Done(f[n], n)
  BY <1>12
<1>14. first + n = last
  BY <1>1
<1> QED
  BY <1>1, <1>9, <1>13, <1>14 DEF Done

-----------------------------------------------------------------------------
(***************************************************************************)
(* What the loops make of cells and arguments.                             *)
(***************************************************************************)
(* A value of the client's or one of n elements.                           *)
Argument(w, n) ==
  \/ \E x \in Values : w = Outside(x)
  \/ \E j \in 0..(n - 1) : w = Element(j)

LEMMA ArgumentIsRead ==
  ASSUME NEW cap \in Nat, NEW c \in CellsOf(cap), NEW n \in 0..cap, NEW w, Argument(w, n)
  PROVE  /\ Read(c, w) \in Held
         /\ w # NullArg
         /\ w[1] = "element" => w[2] \in 0..(n - 1) /\ w[2] \in 0..(cap - 1)
<1>1. CASE \E x \in Values : w = Outside(x)
  BY <1>1, VecAssumption DEF Outside, NullArg, Read, Held
<1>2. CASE \E j \in 0..(n - 1) : w = Element(j)
  <2>1. PICK j \in 0..(n - 1) : w = Element(j)
    BY <1>2
  <2>2. w[1] = "element" /\ w[2] = j /\ j \in 0..(cap - 1)
    BY <2>1 DEF Element
  <2>3. c[j] \in Held
    BY <2>2 DEF CellsOf
  <2>4. w # NullArg
    BY <2>2 DEF NullArg, Outside
  <2> QED
    BY <2>2, <2>3, <2>4 DEF Read
<1> QED
  BY <1>1, <1>2 DEF Argument

LEMMA MovedIsCells ==
  ASSUME NEW cap \in Nat, NEW c \in CellsOf(cap), NEW first \in Nat, NEW n \in Nat,
         NEW to \in Nat, first + n <= cap, NEW d, Moved(d, c, first, n, to)
  PROVE  d \in CellsOf(cap)
<1>1. DOMAIN c = 0..(cap - 1) /\ \A j \in 0..(cap - 1) : c[j] \in Held
  BY DEF CellsOf
<1>2. ASSUME NEW j \in 0..(cap - 1), j \in to..(to + n - 1) PROVE j - to + first \in 0..(cap - 1)
  BY <1>2
<1> QED
  BY <1>1, <1>2 DEF Moved, CellsOf

LEMMA FilledIsCells ==
  ASSUME NEW cap \in Nat, NEW c \in CellsOf(cap), NEW first, NEW last, NEW x \in Held,
         NEW d, Filled(d, c, first, last, x)
  PROVE  d \in CellsOf(cap)
BY DEF Filled, CellsOf

LEMMA CellIsSet ==
  ASSUME NEW cap \in Nat, NEW c \in CellsOf(cap), NEW i, NEW x \in Held
  PROVE  [c EXCEPT ![i] = x] \in CellsOf(cap)
BY DEF CellsOf

LEMMA MallocedIsCells == ASSUME NEW n \in Nat PROVE Malloced(n) \in CellsOf(n)
BY DEF Malloced, CellsOf, Held

LEMMA CopyOverIsCells ==
  ASSUME NEW m \in Nat, NEW c \in CellsOf(m), NEW n \in Nat, NEW d \in CellsOf(n),
         NEW first \in Nat, NEW last \in Nat, NEW to \in Nat, first <= last, last <= m
  PROVE  CopyOver(c, first, last, d, to) \in CellsOf(n)
<1>1. DOMAIN d = 0..(n - 1) /\ \A j \in 0..(n - 1) : d[j] \in Held
  BY DEF CellsOf
<1>2. ASSUME NEW k \in 0..(n - 1), k \in to..(to + last - first - 1)
      PROVE  c[k - to + first] \in Held
  <2>1. k - to + first \in 0..(m - 1)
    BY <1>2
  <2> QED
    BY <2>1 DEF CellsOf
<1> QED
  BY <1>1, <1>2 DEF CopyOver, CellsOf

LEMMA ConstructIsCells ==
  ASSUME NEW m \in Nat, NEW c \in CellsOf(m), NEW size \in 0..m, NEW n \in Nat,
         NEW d \in CellsOf(n), NEW pos, NEW w, Argument(w, size) \/ w = NullArg
  PROVE  Construct(d, pos, c, w) \in CellsOf(n)
<1>1. CASE w = NullArg
  BY <1>1 DEF Construct
<1>2. CASE Argument(w, size)
  <2>1. Read(c, w) \in Held
    BY <1>2, ArgumentIsRead
  <2>2. [d EXCEPT ![pos] = Read(c, w)] \in CellsOf(n)
    BY <2>1, CellIsSet
  <2> QED
    BY <2>2 DEF Construct
<1> QED
  BY <1>1, <1>2

-----------------------------------------------------------------------------
(***************************************************************************)
(* n copies of x at position i among size cells; the cells from i to j - 1 *)
(* gone.                                                                   *)
(***************************************************************************)
Inserts(d, c, i, n, size, x) ==
  \A k \in 0..(size + n - 1) :
    d[k] = IF k < i THEN c[k] ELSE IF k < i + n THEN x ELSE c[k - n]

Erased(d, c, i, j, size) ==
  \A k \in 0..(size - (j - i) - 1) : d[k] = IF k < i THEN c[k] ELSE c[k - i + j]

(* What the argument w is found to be once the cells from i on have moved  *)
(* n places up.                                                            *)
FoundAt(c, w, i, n) ==
  IF w[1] = "element" /\ w[2] >= i + n THEN c[w[2] - n] ELSE Read(c, w)

LEMMA Erasing ==
  ASSUME NEW cap \in Nat, NEW c \in CellsOf(cap), NEW size \in 0..cap,
         NEW i \in 0..size, NEW j \in i..size, NEW d, d = Copy(c, j, size, i)
  PROVE  d \in CellsOf(cap) /\ Erased(d, c, i, j, size)
<1>1. PICK n \in Nat : n = size - j
  OBVIOUS
<1>2. Moved(d, c, j, n, i)
  BY <1>1, CopyMoves
<1>3. d \in CellsOf(cap)
  <2>1. j \in Nat /\ i \in Nat /\ j + n <= cap
    BY <1>1
  <2> QED
    BY <1>2, <2>1, MovedIsCells
<1>4. ASSUME NEW k \in 0..(size - (j - i) - 1)
      PROVE  d[k] = IF k < i THEN c[k] ELSE c[k - i + j]
  <2>1. k \in DOMAIN c
    BY DEF CellsOf
  <2>2. k \in i..(i + n - 1) <=> ~ k < i
    BY <1>1
  <2> QED
    BY <1>2, <2>1, <2>2 DEF Moved
<1> QED
  BY <1>3, <1>4 DEF Erased

LEMMA Shifting ==
  ASSUME NEW cap \in Nat, NEW c \in CellsOf(cap), NEW size \in 0..(cap - 1),
         NEW i \in 0..(size - 1), NEW w, Argument(w, size), NEW d, d = Shifted(c, i, size, w)
  PROVE  d \in CellsOf(cap) /\ Inserts(d, c, i, 1, size, FoundAt(c, w, i, 1))
<1>1. DOMAIN c = 0..(cap - 1)
  BY DEF CellsOf
<1>2. PICK e : e = [c EXCEPT ![size] = c[size - 1]]
  OBVIOUS
<1>3. e \in CellsOf(cap) /\ DOMAIN e = 0..(cap - 1)
  <2>1. c[size - 1] \in Held
    BY DEF CellsOf
  <2>2. e \in CellsOf(cap)
    BY <1>2, <2>1, CellIsSet
  <2> QED
    BY <2>2 DEF CellsOf
<1>4. \A k \in 0..(cap - 1) : e[k] = IF k = size THEN c[size - 1] ELSE c[k]
  BY <1>1, <1>2
<1>5. PICK m : m = CopyBackward(e, i, size - 1, size)
  OBVIOUS
<1>6. Moved(m, e, i, size - 1 - i, i + 1)
  <2>1. i \in Nat /\ size - 1 \in Nat /\ size \in Nat /\ i <= size - 1
        /\ size - 1 <= cap /\ size - 1 <= size
    OBVIOUS
  <2>2. Moved(m, e, i, (size - 1) - i, size - ((size - 1) - i))
    BY <1>3, <1>5, <2>1, CopyBackwardMoves
  <2>3. size - ((size - 1) - i) = i + 1
    OBVIOUS
  <2> QED
    BY <2>2, <2>3
<1>7. m \in CellsOf(cap) /\ DOMAIN m = 0..(cap - 1)
  <2>1. i \in Nat /\ i + 1 \in Nat /\ size - 1 - i \in Nat /\ i + (size - 1 - i) <= cap
    OBVIOUS
  <2>2. m \in CellsOf(cap)
    BY <1>3, <1>6, <2>1, MovedIsCells
  <2> QED
    BY <2>2 DEF CellsOf
<1>8. \A k \in 0..size : m[k] = IF k <= i THEN c[k] ELSE c[k - 1]
  <2> SUFFICES ASSUME NEW k \in 0..size PROVE m[k] = IF k <= i THEN c[k] ELSE c[k - 1]
    OBVIOUS
  <2>1. k \in 0..(cap - 1) /\ (k > i => k - 1 \in 0..(cap - 1))
    OBVIOUS
  <2>2. m[k] = IF k \in (i + 1)..(i + 1 + (size - 1 - i) - 1) THEN e[k - (i + 1) + i] ELSE e[k]
    BY <1>3, <1>6, <2>1 DEF Moved
  <2>3. CASE k <= i
    BY <1>4, <2>1, <2>2, <2>3
  <2>4. CASE k > i /\ k < size
    <3>1. k \in (i + 1)..(i + 1 + (size - 1 - i) - 1) /\ k - (i + 1) + i = k - 1 /\ k - 1 # size
      BY <2>4
    <3> QED
      BY <1>4, <2>1, <2>2, <2>4, <3>1
  <2>5. CASE k = size
    BY <1>4, <2>1, <2>2, <2>5
  <2> QED
    BY <2>3, <2>4, <2>5
<1>9. w[1] = "element" => w[2] \in 0..(size - 1)
  BY ArgumentIsRead
<1>10. Read(m, w) = FoundAt(c, w, i, 1)
  <2>1. CASE w[1] = "element"
    <3>1. w[2] <= i <=> ~ w[2] >= i + 1
      BY <1>9, <2>1
    <3> QED
      BY <1>8, <1>9, <2>1, <3>1 DEF Read, FoundAt
  <2>2. CASE w[1] # "element"
    BY <2>2 DEF Read, FoundAt
  <2> QED
    BY <2>1, <2>2
<1>11. d = [m EXCEPT ![i] = Read(m, w)]
  BY <1>2, <1>5 DEF Shifted
<1>12. d \in CellsOf(cap)
  <2>1. size \in 0..cap
    OBVIOUS
  <2>2. PICK x : x = Read(m, w)
    OBVIOUS
  <2>3. x \in Held
    BY <1>7, <2>1, <2>2, ArgumentIsRead
  <2>4. [m EXCEPT ![i] = x] \in CellsOf(cap)
    BY <1>7, <2>3, CellIsSet
  <2> QED
    BY <1>11, <2>2, <2>4
<1>13. ASSUME NEW k \in 0..(size + 1 - 1)
       PROVE  d[k] = IF k < i THEN c[k] ELSE IF k < i + 1 THEN FoundAt(c, w, i, 1) ELSE c[k - 1]
  <2>1. k \in 0..size /\ k \in 0..(cap - 1)
    OBVIOUS
  <2>2. CASE k = i
    BY <1>7, <1>10, <1>11, <2>1, <2>2
  <2>3. CASE k # i
    BY <1>7, <1>8, <1>11, <2>1, <2>3
  <2> QED
    BY <2>2, <2>3
<1> QED
  BY <1>12, <1>13 DEF Inserts

LEMMA OpeningFar ==
  ASSUME NEW cap \in Nat, NEW c \in CellsOf(cap), NEW size \in 0..cap, NEW i \in 0..size,
         NEW n \in Nat \ {0}, size + n <= cap, size - i > n,
         NEW w, Argument(w, size), NEW d, d = Opened(c, i, size, n, w)
  PROVE  d \in CellsOf(cap) /\ Inserts(d, c, i, n, size, FoundAt(c, w, i, n))
<1>1. DOMAIN c = 0..(cap - 1)
  BY DEF CellsOf
<1>2. PICK e : e = Copy(c, size - n, size, size)
  OBVIOUS
<1>3. Moved(e, c, size - n, n, size)
  <2>1. size - n \in Nat /\ size \in Nat /\ size - n <= size /\ size <= cap /\ size <= size
    OBVIOUS
  <2>2. Moved(e, c, size - n, size - (size - n), size)
    BY <1>2, <2>1, CopyMoves
  <2>3. size - (size - n) = n
    OBVIOUS
  <2> QED
    BY <2>2, <2>3
<1>4. e \in CellsOf(cap) /\ DOMAIN e = 0..(cap - 1)
  <2>1. size - n \in Nat /\ n \in Nat /\ size \in Nat /\ size - n + n <= cap
    OBVIOUS
  <2>2. e \in CellsOf(cap)
    BY <1>3, <2>1, MovedIsCells
  <2> QED
    BY <2>2 DEF CellsOf
<1>5. \A k \in 0..(size + n - 1) : e[k] = IF k < size THEN c[k] ELSE c[k - n]
  <2> SUFFICES ASSUME NEW k \in 0..(size + n - 1)
               PROVE  e[k] = IF k < size THEN c[k] ELSE c[k - n]
    OBVIOUS
  <2>1. k \in 0..(cap - 1) /\ (k \in size..(size + n - 1) <=> ~ k < size)
        /\ k - size + (size - n) = k - n
    OBVIOUS
  <2> QED
    BY <1>1, <1>3, <2>1 DEF Moved
<1>6. PICK m : m = CopyBackward(e, i, size - n, size)
  OBVIOUS
<1>7. Moved(m, e, i, size - n - i, i + n)
  <2>1. i \in Nat /\ size - n \in Nat /\ size \in Nat /\ i <= size - n
        /\ size - n <= cap /\ size - n <= size
    OBVIOUS
  <2>2. Moved(m, e, i, (size - n) - i, size - ((size - n) - i))
    BY <1>4, <1>6, <2>1, CopyBackwardMoves
  <2>3. size - ((size - n) - i) = i + n
    OBVIOUS
  <2> QED
    BY <2>2, <2>3
<1>8. m \in CellsOf(cap) /\ DOMAIN m = 0..(cap - 1)
  <2>1. i \in Nat /\ i + n \in Nat /\ size - n - i \in Nat /\ i + (size - n - i) <= cap
    OBVIOUS
  <2>2. m \in CellsOf(cap)
    BY <1>4, <1>7, <2>1, MovedIsCells
  <2> QED
    BY <2>2 DEF CellsOf
<1>9. \A k \in 0..(size + n - 1) : m[k] = IF k < i + n THEN c[k] ELSE c[k - n]
  <2> SUFFICES ASSUME NEW k \in 0..(size + n - 1)
               PROVE  m[k] = IF k < i + n THEN c[k] ELSE c[k - n]
    OBVIOUS
  <2>1. k \in 0..(cap - 1) /\ k - (i + n) + i = k - n
    OBVIOUS
  <2>2. m[k] = IF k \in (i + n)..(i + n + (size - n - i) - 1) THEN e[k - n] ELSE e[k]
    BY <1>4, <1>7, <2>1 DEF Moved
  <2>3. k \in (i + n)..(i + n + (size - n - i) - 1) <=> k >= i + n /\ k < size
    OBVIOUS
  <2>4. CASE k >= i + n /\ k < size
    <3>1. k - n \in 0..(size + n - 1) /\ k - n < size
      BY <2>4
    <3> QED
      BY <1>5, <2>2, <2>3, <2>4, <3>1
  <2>5. CASE k < i + n
    BY <1>5, <2>2, <2>3, <2>5
  <2>6. CASE k >= size
    BY <1>5, <2>2, <2>3, <2>6
  <2> QED
    BY <2>4, <2>5, <2>6
<1>10. w[1] = "element" => w[2] \in 0..(size - 1) /\ w[2] \in 0..(cap - 1)
  BY ArgumentIsRead
<1>11. Read(m, w) = FoundAt(c, w, i, n)
  <2>1. CASE w[1] = "element"
    <3>1. w[2] \in 0..(size + n - 1) /\ (w[2] < i + n <=> ~ w[2] >= i + n)
      BY <1>10, <2>1
    <3> QED
      BY <1>9, <2>1, <3>1 DEF Read, FoundAt
  <2>2. CASE w[1] # "element"
    BY <2>2 DEF Read, FoundAt
  <2> QED
    BY <2>1, <2>2
<1>12. d = Fill(m, i, i + n, w)
  BY <1>2, <1>6 DEF Opened
<1>13. PICK x : x = Read(m, w)
  OBVIOUS
<1>14. Filled(d, m, i, i + n, x)
  <2>1. i \in Nat /\ i + n \in Nat /\ i <= i + n
    OBVIOUS
  <2> QED
    BY <1>8, <1>10, <1>12, <1>13, <2>1, FillFills
<1>15. d \in CellsOf(cap)
  <2>1. x \in Held
    BY <1>8, <1>13, ArgumentIsRead
  <2> QED
    BY <1>8, <1>14, <2>1, FilledIsCells
<1>16. ASSUME NEW k \in 0..(size + n - 1)
       PROVE  d[k] = IF k < i THEN c[k] ELSE IF k < i + n THEN x ELSE c[k - n]
  <2>1. k \in 0..(cap - 1)
    OBVIOUS
  <2>2. d[k] = IF k \in i..(i + n - 1) THEN x ELSE m[k]
    BY <1>8, <1>14, <2>1 DEF Filled
  <2> QED
    BY <1>9, <2>2
<1> QED
  BY <1>11, <1>13, <1>15, <1>16 DEF Inserts

LEMMA OpeningNear ==
  ASSUME NEW cap \in Nat, NEW c \in CellsOf(cap), NEW size \in 0..cap, NEW i \in 0..size,
         NEW n \in Nat \ {0}, size + n <= cap, size - i <= n,
         NEW w, Argument(w, size), NEW d, d = Opened(c, i, size, n, w)
  PROVE  d \in CellsOf(cap) /\ Inserts(d, c, i, n, size, FoundAt(c, w, i, n))
<1>1. DOMAIN c = 0..(cap - 1)
  BY DEF CellsOf
<1>2. w[1] = "element" => w[2] \in 0..(size - 1) /\ w[2] \in 0..(cap - 1)
  BY ArgumentIsRead
<1>3. PICK x : x = Read(c, w)
  OBVIOUS
<1>4. x \in Held
  BY <1>3, ArgumentIsRead
<1>5. x = FoundAt(c, w, i, n)
  BY <1>2, <1>3 DEF FoundAt
<1>6. PICK e : e = Fill(c, size, i + n, w)
  OBVIOUS
<1>7. Filled(e, c, size, i + n, x)
  <2>1. size \in Nat /\ i + n \in Nat /\ size <= i + n
    OBVIOUS
  <2> QED
    BY <1>2, <1>3, <1>6, <2>1, FillFills
<1>8. e \in CellsOf(cap) /\ DOMAIN e = 0..(cap - 1)
  <2>1. e \in CellsOf(cap)
    BY <1>4, <1>7, FilledIsCells
  <2> QED
    BY <2>1 DEF CellsOf
<1>9. PICK m : m = Copy(e, i, size, i + n)
  OBVIOUS
<1>10. Moved(m, e, i, size - i, i + n)
  <2>1. i \in Nat /\ size \in Nat /\ i + n \in Nat /\ i <= size /\ size <= cap /\ size <= i + n
    OBVIOUS
  <2> QED
    BY <1>8, <1>9, <2>1, CopyMoves
<1>11. m \in CellsOf(cap) /\ DOMAIN m = 0..(cap - 1)
  <2>1. i \in Nat /\ i + n \in Nat /\ size - i \in Nat /\ i + (size - i) <= cap
    OBVIOUS
  <2>2. m \in CellsOf(cap)
    BY <1>8, <1>10, <2>1, MovedIsCells
  <2> QED
    BY <2>2 DEF CellsOf
<1>12. \A k \in 0..(size + n - 1) :
         m[k] = IF k < size THEN c[k] ELSE IF k < i + n THEN x ELSE c[k - n]
  <2> SUFFICES ASSUME NEW k \in 0..(size + n - 1)
               PROVE  m[k] = IF k < size THEN c[k] ELSE IF k < i + n THEN x ELSE c[k - n]
    OBVIOUS
  <2>1. k \in 0..(cap - 1) /\ k - (i + n) + i = k - n
    OBVIOUS
  <2>2. m[k] = IF k \in (i + n)..(i + n + (size - i) - 1) THEN e[k - n] ELSE e[k]
    BY <1>8, <1>10, <2>1 DEF Moved
  <2>3. k \in (i + n)..(i + n + (size - i) - 1) <=> ~ k < i + n
    OBVIOUS
  <2>4. CASE k >= i + n
    <3>1. k - n \in 0..(cap - 1) /\ k - n \notin size..(i + n - 1)
      BY <2>4
    <3>2. e[k - n] = c[k - n]
      BY <1>1, <1>7, <3>1 DEF Filled
    <3> QED
      BY <2>2, <2>3, <2>4, <3>2
  <2>5. CASE k < i + n
    <3>1. e[k] = IF k \in size..(i + n - 1) THEN x ELSE c[k]
      BY <1>1, <1>7, <2>1 DEF Filled
    <3> QED
      BY <2>2, <2>3, <2>5, <3>1
  <2> QED
    BY <2>4, <2>5
<1>13. Read(m, w) = x
  <2>1. CASE w[1] = "element"
    <3>1. w[2] \in 0..(size + n - 1) /\ w[2] < size
      BY <1>2, <2>1
    <3> QED
      BY <1>3, <1>12, <2>1, <3>1 DEF Read
  <2>2. CASE w[1] # "element"
    BY <1>3, <2>2 DEF Read
  <2> QED
    BY <2>1, <2>2
<1>14. d = Fill(m, i, size, w)
  BY <1>6, <1>9 DEF Opened
<1>15. Filled(d, m, i, size, x)
  <2>1. i \in Nat /\ size \in Nat /\ i <= size
    OBVIOUS
  <2> QED
    BY <1>2, <1>11, <1>13, <1>14, <2>1, FillFills
<1>16. d \in CellsOf(cap)
  BY <1>4, <1>11, <1>15, FilledIsCells
<1>17. ASSUME NEW k \in 0..(size + n - 1)
       PROVE  d[k] = IF k < i THEN c[k] ELSE IF k < i + n THEN x ELSE c[k - n]
  <2>1. k \in 0..(cap - 1)
    OBVIOUS
  <2>2. d[k] = IF k \in i..(size - 1) THEN x ELSE m[k]
    BY <1>11, <1>15, <2>1 DEF Filled
  <2> QED
    BY <1>12, <2>2
<1> QED
  BY <1>5, <1>16, <1>17 DEF Inserts

LEMMA Opening ==
  ASSUME NEW cap \in Nat, NEW c \in CellsOf(cap), NEW size \in 0..cap, NEW i \in 0..size,
         NEW n \in Nat \ {0}, size + n <= cap,
         NEW w, Argument(w, size), NEW d, d = Opened(c, i, size, n, w)
  PROVE  d \in CellsOf(cap) /\ Inserts(d, c, i, n, size, FoundAt(c, w, i, n))
<1>1. CASE size - i > n
  BY <1>1, OpeningFar
<1>2. CASE size - i <= n
  BY <1>2, OpeningNear
<1> QED
  BY <1>1, <1>2

(* In a new block, twice as large, a value of NULL leaves a hole.          *)
LEMMA Regrowing ==
  ASSUME NEW cap \in Nat, NEW c \in CellsOf(cap), NEW size \in 0..cap, NEW i \in 0..size,
         NEW w, Argument(w, size) \/ w = NullArg,
         NEW n \in Nat, n = IF size = 0 THEN 1 ELSE 2 * size,
         NEW d, d = Regrown(c, i, size, w)
  PROVE  /\ size < n
         /\ d \in CellsOf(n)
         /\ Inserts(d, c, i, 1, size, IF w = NullArg THEN Junk ELSE Read(c, w))
<1>1. size < n
  OBVIOUS
<1>2. PICK e : e = CopyOver(c, 0, i, Malloced(n), 0)
  OBVIOUS
<1>3. e \in CellsOf(n) /\ DOMAIN e = 0..(n - 1)
  <2>1. 0 \in Nat /\ i \in Nat /\ 0 <= i /\ i <= cap /\ Malloced(n) \in CellsOf(n)
    BY MallocedIsCells
  <2>2. e \in CellsOf(n)
    BY <1>2, <2>1, CopyOverIsCells
  <2> QED
    BY <2>2 DEF CellsOf
<1>4. \A k \in 0..(n - 1) : e[k] = IF k < i THEN c[k] ELSE Junk
  <2>1. \A k \in 0..(n - 1) : (k \in 0..(0 + i - 0 - 1) <=> k < i) /\ k - 0 + 0 = k
    OBVIOUS
  <2> QED
    BY <1>2, <2>1 DEF CopyOver, Malloced
<1>5. PICK m : m = Construct(e, i, c, w)
  OBVIOUS
<1>6. m \in CellsOf(n) /\ DOMAIN m = 0..(n - 1)
  <2>1. m \in CellsOf(n)
    BY <1>3, <1>5, ConstructIsCells
  <2> QED
    BY <2>1 DEF CellsOf
<1>7. PICK x : x = IF w = NullArg THEN Junk ELSE Read(c, w)
  OBVIOUS
<1>8. \A k \in 0..(n - 1) : m[k] = IF k < i THEN c[k] ELSE IF k = i THEN x ELSE Junk
  <2>1. CASE w = NullArg
    BY <1>4, <1>5, <1>7, <2>1 DEF Construct
  <2>2. CASE w # NullArg
    <3>1. m = [e EXCEPT ![i] = x]
      BY <1>5, <1>7, <2>2 DEF Construct
    <3>2. \A k \in 0..(n - 1) : m[k] = IF k = i THEN x ELSE e[k]
      BY <1>3, <3>1
    <3> QED
      BY <1>4, <3>2
  <2> QED
    BY <2>1, <2>2
<1>9. d = CopyOver(c, i, size, m, i + 1)
  BY <1>2, <1>5 DEF Regrown
<1>10. d \in CellsOf(n)
  <2>1. i \in Nat /\ size \in Nat /\ i + 1 \in Nat /\ i <= size /\ size <= cap
    OBVIOUS
  <2> QED
    BY <1>6, <1>9, <2>1, CopyOverIsCells
<1>11. ASSUME NEW k \in 0..(size + 1 - 1)
       PROVE  d[k] = IF k < i THEN c[k] ELSE IF k < i + 1 THEN x ELSE c[k - 1]
  <2>1. k \in 0..(n - 1) /\ k - (i + 1) + i = k - 1
    BY <1>1
  <2>2. d[k] = IF k \in (i + 1)..((i + 1) + size - i - 1) THEN c[k - (i + 1) + i] ELSE m[k]
    BY <1>6, <1>9, <2>1 DEF CopyOver
  <2>3. k \in (i + 1)..((i + 1) + size - i - 1) <=> ~ k < i + 1
    OBVIOUS
  <2>4. CASE k < i + 1
    <3>1. k < i \/ k = i
      BY <2>4
    <3> QED
      BY <1>8, <2>1, <2>2, <2>3, <2>4, <3>1
  <2>5. CASE ~ k < i + 1
    BY <2>1, <2>2, <2>3, <2>5
  <2> QED
    BY <2>4, <2>5
<1> QED
  BY <1>1, <1>7, <1>10, <1>11 DEF Inserts

(* Behind the last cell; NULL leaves what is there.                        *)
LEMMA Appending ==
  ASSUME NEW cap \in Nat, NEW c \in CellsOf(cap), NEW size \in 0..(cap - 1),
         NEW w, Argument(w, size) \/ w = NullArg, NEW d, d = Construct(c, size, c, w)
  PROVE  /\ d \in CellsOf(cap)
         /\ Inserts(d, c, size, 1, size, IF w = NullArg THEN c[size] ELSE Read(c, w))
<1>1. d \in CellsOf(cap)
  <2>1. size \in 0..cap
    OBVIOUS
  <2> QED
    BY <2>1, ConstructIsCells
<1>2. DOMAIN c = 0..(cap - 1)
  BY DEF CellsOf
<1>3. \A k \in 0..size : d[k] = IF k = size /\ w # NullArg THEN Read(c, w) ELSE c[k]
  BY <1>2 DEF Construct
<1>4. ASSUME NEW k \in 0..(size + 1 - 1)
      PROVE  d[k] = IF k < size THEN c[k]
                    ELSE IF k < size + 1 THEN IF w = NullArg THEN c[size] ELSE Read(c, w)
                    ELSE c[k - 1]
  BY <1>3
<1> QED
  BY <1>1, <1>4 DEF Inserts

LEMMA Copying ==
  ASSUME NEW cap \in Nat, NEW c \in CellsOf(cap), NEW size \in 0..cap, NEW n \in Nat,
         NEW d, d = CopyOver(c, 0, size, Malloced(n), 0)
  PROVE  d \in CellsOf(n) /\ \A k \in 0..(n - 1) : k < size => d[k] = c[k]
<1>1. d \in CellsOf(n)
  <2>1. 0 \in Nat /\ size \in Nat /\ 0 <= size /\ size <= cap /\ Malloced(n) \in CellsOf(n)
    BY MallocedIsCells
  <2> QED
    BY <2>1, CopyOverIsCells
<1>2. \A k \in 0..(n - 1) : k < size => k \in 0..(0 + size - 0 - 1) /\ k - 0 + 0 = k
  OBVIOUS
<1> QED
  BY <1>1, <1>2 DEF CopyOver, Malloced

-----------------------------------------------------------------------------
(***************************************************************************)
(* Blocks and headers.  A vector that is alive has a block with as many    *)
(* cells as its header says, or none when it has no room; the live blocks  *)
(* are these.                                                              *)
(***************************************************************************)
Owned(m, h, l) ==
  /\ h \in [Vectors -> Header \cup {Gone}]
  /\ DOMAIN m = Blocks \cup {Null}
  /\ m[Null] \in CellsOf(0)
  /\ \A v \in Vectors : h[v] # Gone =>
       /\ h[v].size <= h[v].cap
       /\ m[h[v].start] \in CellsOf(h[v].cap)
  /\ \A v, o \in Vectors :
       h[v] # Gone /\ h[o] # Gone /\ v # o /\ h[v].start = h[o].start => h[v].start = Null
  /\ l = {h[v].start : v \in {o \in Vectors : h[o] # Gone}} \ {Null}

StorageInv == Owned(mem, vec, live)

(* There are more blocks than vectors, so one of them is free.             *)
FreeBlock(b, l) == b \in Blocks /\ b \notin l

LEMMA MallocFinds ==
  ASSUME NEW m, NEW h, NEW l, Owned(m, h, l)
  PROVE  \E b : FreeBlock(b, l)
<1>1. SUFFICES ASSUME \A b \in Blocks : b \in l PROVE FALSE
  BY DEF FreeBlock
<1>2. \A b \in Blocks : \E v \in Vectors : h[v] # Gone /\ h[v].start = b /\ b # Null
  BY <1>1 DEF Owned
<1>3. PICK f : f = [b \in Blocks |-> CHOOSE v \in Vectors : h[v] # Gone /\ h[v].start = b]
  OBVIOUS
<1>4. \A b \in Blocks : f[b] \in Vectors /\ h[f[b]].start = b
  BY <1>2, <1>3
<1>5. f \in [Blocks -> Vectors]
  BY <1>3, <1>4
<1>6. \E x, y \in Blocks : x # y /\ f[x] = f[y]
  <2>1. Cardinality(Vectors) < Cardinality(Blocks)
    BY VecAssumption, FS_CardinalityType
  <2> QED
    BY <1>5, <2>1, VecAssumption, FS_PigeonHole
<1> QED
  BY <1>4, <1>6

LEMMA FreshIsFree ==
  ASSUME StorageInv
  PROVE  FreeBlock(Fresh, live)
BY MallocFinds DEF StorageInv, FreeBlock, Fresh

(* The header of v in h is known.                                          *)
LEMMA HeaderKnown ==
  ASSUME NEW m, NEW h, NEW l, Owned(m, h, l), NEW v \in Vectors, h[v] # Gone
  PROVE  /\ h[v] \in Header
         /\ h[v].start \in Blocks \cup {Null} /\ h[v].size \in Nat /\ h[v].cap \in Nat
         /\ h[v].size \in 0..h[v].cap
         /\ m[h[v].start] \in CellsOf(h[v].cap)
         /\ h[v].start = Null => h[v].cap = 0
         /\ h[v].start # Null => h[v].start \in l
<1>1. h[v] \in Header
  BY DEF Owned
<1>2. h[v].start \in Blocks \cup {Null} /\ h[v].size \in Nat /\ h[v].cap \in Nat
  BY <1>1 DEF Header
<1>3. h[v].size <= h[v].cap /\ m[h[v].start] \in CellsOf(h[v].cap)
  BY DEF Owned
<1>4. h[v].size \in 0..h[v].cap
  BY <1>2, <1>3
<1>5. h[v].start = Null => h[v].cap = 0
  <2>1. ASSUME h[v].start = Null PROVE h[v].cap = 0
    <3>1. m[Null] \in CellsOf(0) /\ m[Null] \in CellsOf(h[v].cap)
      BY <1>3, <2>1 DEF Owned
    <3>2. PICK n \in Nat : n = h[v].cap
      BY <1>2
    <3>3. DOMAIN m[Null] = {} /\ 0..(n - 1) = {}
      BY <3>1, <3>2 DEF CellsOf
    <3>4. 0 \notin 0..(n - 1)
      BY <3>3
    <3> QED
      BY <3>2, <3>4
  <2> QED
    BY <2>1
<1>6. h[v].start # Null => h[v].start \in l
  BY DEF Owned
<1> QED
  BY <1>1, <1>2, <1>3, <1>4, <1>5, <1>6

(* The header of one vector changes, or the cells of one block.            *)
Sets(e, h, v, x) == e = [h EXCEPT ![v] = x]

Headed(x, b, s, n) == x = [start |-> b, size |-> s, cap |-> n]

Replaces(g, m, y, b, c) == g = [m EXCEPT ![y] = NoElements, ![b] = c]

Begun(g, e, v, x, b, c) == e[v] = x /\ x # Gone /\ g[b] = c

(* The other vectors keep their headers and what is in their cells.        *)
Untouched(g, e, m, h, v) ==
  \A o \in Vectors : o # v =>
    /\ e[o] = h[o]
    /\ h[o] # Gone /\ h[o].size > 0 => g[h[o].start] = m[h[o].start]

(* What Stays does to headers and cells.                                   *)
LEMMA OwnedStays ==
  ASSUME NEW m, NEW h, NEW l, Owned(m, h, l), NEW v \in Vectors, h[v] # Gone,
         NEW s, s \in 0..h[v].cap, NEW c, c \in CellsOf(h[v].cap),
         NEW g, Sets(g, m, h[v].start, c),
         NEW x, x = [h[v] EXCEPT !.size = s], NEW e, Sets(e, h, v, x)
  PROVE  /\ Owned(g, e, l)
         /\ e[v] # Gone /\ e[v].size = s /\ e[v].cap = h[v].cap /\ g[e[v].start] = c
         /\ Untouched(g, e, m, h, v)
<1>1. /\ h[v] \in Header
      /\ h[v].start \in Blocks \cup {Null} /\ h[v].size \in Nat /\ h[v].cap \in Nat
      /\ h[v].start = Null => h[v].cap = 0
  BY HeaderKnown
<1>2. PICK b, n : b = h[v].start /\ n = h[v].cap
  OBVIOUS
<1>3. b \in Blocks \cup {Null} /\ n \in Nat /\ (b = Null => n = 0) /\ s \in 0..n /\ c \in CellsOf(n)
  BY <1>1, <1>2
<1>4. x = [start |-> b, size |-> s, cap |-> n]
  BY <1>1, <1>2 DEF Header
<1>5. x \in Header /\ x # Gone /\ x.start = b /\ x.size = s /\ x.cap = n
  BY <1>3, <1>4, VecAssumption DEF Header
<1>6. h \in [Vectors -> Header \cup {Gone}] /\ DOMAIN m = Blocks \cup {Null} /\ m[Null] \in CellsOf(0)
  BY DEF Owned
<1>7. e[v] = x /\ (\A o \in Vectors : o # v => e[o] = h[o]) /\ DOMAIN e = Vectors
  BY <1>6 DEF Sets
<1>8. g[b] = c /\ (\A y \in Blocks \cup {Null} : y # b => g[y] = m[y]) /\ DOMAIN g = Blocks \cup {Null}
  <2>1. b \in DOMAIN m
    BY <1>3, <1>6
  <2>2. Sets(g, m, b, c)
    BY <1>2
  <2>3. DOMAIN g = DOMAIN m /\ g[b] = c /\ \A y \in DOMAIN m : y # b => g[y] = m[y]
    BY <2>1, <2>2 DEF Sets
  <2> QED
    BY <1>6, <2>3
<1>9. e \in [Vectors -> Header \cup {Gone}]
  BY <1>5, <1>6 DEF Sets
<1>10. g[Null] \in CellsOf(0)
  <2>1. CASE b = Null
    BY <1>3, <1>8, <2>1
  <2>2. CASE b # Null
    BY <1>6, <1>8, <2>2
  <2> QED
    BY <2>1, <2>2
<1>11. ASSUME NEW o \in Vectors, o # v, h[o] # Gone
       PROVE  /\ h[o].size <= h[o].cap
              /\ g[h[o].start] \in CellsOf(h[o].cap)
              /\ h[o].size > 0 => g[h[o].start] = m[h[o].start]
  <2>1. /\ h[o].start \in Blocks \cup {Null} /\ h[o].cap \in Nat /\ h[o].size \in 0..h[o].cap
        /\ m[h[o].start] \in CellsOf(h[o].cap)
        /\ h[o].start = Null => h[o].cap = 0
    BY <1>11, HeaderKnown
  <2>2. CASE h[o].start # b
    BY <1>8, <2>1, <2>2
  <2>3. CASE h[o].start = b
    <3>1. b = Null
      BY <1>2, <1>11, <2>3 DEF Owned
    <3>2. n = 0 /\ h[o].cap = 0
      BY <1>3, <2>1, <2>3, <3>1
    <3> QED
      BY <1>3, <1>8, <2>1, <2>3, <3>2
  <2> QED
    BY <2>2, <2>3
<1>12. ASSUME NEW o \in Vectors, e[o] # Gone
       PROVE  e[o].size <= e[o].cap /\ g[e[o].start] \in CellsOf(e[o].cap)
  <2>1. CASE o = v
    <3>1. e[o].size = s /\ e[o].cap = n /\ e[o].start = b
      BY <1>5, <1>7, <2>1
    <3>2. s <= n /\ g[b] \in CellsOf(n)
      BY <1>3, <1>8
    <3> QED
      BY <3>1, <3>2
  <2>2. CASE o # v
    BY <1>7, <1>11, <1>12, <2>2
  <2> QED
    BY <2>1, <2>2
<1>13. \A o \in Vectors : (e[o] # Gone <=> h[o] # Gone) /\ (h[o] # Gone => e[o].start = h[o].start)
  BY <1>2, <1>5, <1>7
<1>14. \A u, o \in Vectors :
         e[u] # Gone /\ e[o] # Gone /\ u # o /\ e[u].start = e[o].start => e[u].start = Null
  BY <1>13 DEF Owned
<1>15. l = {e[o].start : o \in {u \in Vectors : e[u] # Gone}} \ {Null}
  <2>1. l = {h[o].start : o \in {u \in Vectors : h[u] # Gone}} \ {Null}
    BY DEF Owned
  <2>2. {u \in Vectors : e[u] # Gone} = {u \in Vectors : h[u] # Gone}
    BY <1>13
  <2>3. {e[o].start : o \in {u \in Vectors : e[u] # Gone}} =
          {h[o].start : o \in {u \in Vectors : h[u] # Gone}}
    BY <1>13, <2>2
  <2> QED
    BY <2>1, <2>3
<1>16. Owned(g, e, l)
  BY <1>8, <1>9, <1>10, <1>12, <1>14, <1>15 DEF Owned
<1>17. Untouched(g, e, m, h, v)
  BY <1>7, <1>11 DEF Untouched
<1> QED
  BY <1>2, <1>5, <1>7, <1>8, <1>16, <1>17

(* A vector that is destroyed gives its block back.                        *)
LEMMA OwnedEnds ==
  ASSUME NEW m, NEW h, NEW l, Owned(m, h, l), NEW v \in Vectors, h[v] # Gone,
         NEW g, Sets(g, m, h[v].start, NoElements), NEW e, Sets(e, h, v, Gone),
         NEW r, r = l \ {h[v].start}
  PROVE  /\ Owned(g, e, r)
         /\ e[v] = Gone
         /\ Untouched(g, e, m, h, v)
<1>1. h[v].start \in Blocks \cup {Null} /\ (h[v].start = Null => h[v].cap = 0)
  BY HeaderKnown
<1>2. PICK b : b = h[v].start
  OBVIOUS
<1>3. h \in [Vectors -> Header \cup {Gone}] /\ DOMAIN m = Blocks \cup {Null} /\ m[Null] \in CellsOf(0)
  BY DEF Owned
<1>4. e[v] = Gone /\ (\A o \in Vectors : o # v => e[o] = h[o]) /\ DOMAIN e = Vectors
  BY <1>3 DEF Sets
<1>5. /\ g[b] = NoElements
      /\ \A y \in Blocks \cup {Null} : y # b => g[y] = m[y]
      /\ DOMAIN g = Blocks \cup {Null}
  <2>1. b \in DOMAIN m
    BY <1>1, <1>2, <1>3
  <2>2. Sets(g, m, b, NoElements)
    BY <1>2
  <2>3. DOMAIN g = DOMAIN m /\ g[b] = NoElements /\ \A y \in DOMAIN m : y # b => g[y] = m[y]
    BY <2>1, <2>2 DEF Sets
  <2> QED
    BY <1>3, <2>3
<1>6. e \in [Vectors -> Header \cup {Gone}]
  BY <1>3 DEF Sets
<1>7. g[Null] \in CellsOf(0)
  <2>1. NoElements \in CellsOf(0)
    BY DEF NoElements, CellsOf
  <2> QED
    BY <1>3, <1>5, <2>1
<1>8. ASSUME NEW o \in Vectors, o # v, h[o] # Gone
      PROVE  /\ h[o].size <= h[o].cap
             /\ g[h[o].start] \in CellsOf(h[o].cap)
             /\ h[o].size > 0 => g[h[o].start] = m[h[o].start]
  <2>1. /\ h[o].start \in Blocks \cup {Null} /\ h[o].cap \in Nat /\ h[o].size \in 0..h[o].cap
        /\ m[h[o].start] \in CellsOf(h[o].cap)
        /\ h[o].start = Null => h[o].cap = 0
    BY <1>8, HeaderKnown
  <2>2. CASE h[o].start # b
    BY <1>5, <2>1, <2>2
  <2>3. CASE h[o].start = b
    <3>1. b = Null
      BY <1>2, <1>8, <2>3 DEF Owned
    <3>2. PICK n \in Nat : n = h[o].cap
      BY <2>1
    <3>3. n = 0
      BY <2>1, <2>3, <3>1, <3>2
    <3>4. NoElements \in CellsOf(n)
      BY <3>3 DEF NoElements, CellsOf
    <3>5. ~ h[o].size > 0 /\ h[o].size <= h[o].cap
      BY <2>1, <3>2, <3>3
    <3> QED
      BY <1>5, <2>3, <3>2, <3>4, <3>5
  <2> QED
    BY <2>2, <2>3
<1>9. ASSUME NEW o \in Vectors, e[o] # Gone
      PROVE  e[o].size <= e[o].cap /\ g[e[o].start] \in CellsOf(e[o].cap)
  BY <1>4, <1>8, <1>9
<1>10. \A o \in Vectors : (e[o] # Gone <=> h[o] # Gone /\ o # v) /\ (o # v => e[o] = h[o])
  BY <1>4
<1>11. \A u, o \in Vectors :
         e[u] # Gone /\ e[o] # Gone /\ u # o /\ e[u].start = e[o].start => e[u].start = Null
  BY <1>10 DEF Owned
<1>12. r = {e[o].start : o \in {u \in Vectors : e[u] # Gone}} \ {Null}
  <2>1. l = {h[o].start : o \in {u \in Vectors : h[u] # Gone}} \ {Null}
    BY DEF Owned
  <2>2. ASSUME NEW y PROVE y \in r <=> y # Null /\ \E o \in Vectors : e[o] # Gone /\ e[o].start = y
    <3>1. y \in r <=> y # b /\ y # Null /\ \E o \in Vectors : h[o] # Gone /\ h[o].start = y
      BY <1>2, <2>1
    <3>2. y # Null => \A o \in Vectors : h[o] # Gone /\ h[o].start = y => (o = v <=> y = b)
      BY <1>2 DEF Owned
    <3> QED
      BY <1>2, <1>10, <3>1, <3>2
  <2> QED
    BY <2>2
<1>13. Owned(g, e, r)
  BY <1>5, <1>6, <1>7, <1>9, <1>11, <1>12 DEF Owned
<1>14. Untouched(g, e, m, h, v)
  BY <1>4, <1>8 DEF Untouched
<1> QED
  BY <1>4, <1>13, <1>14

(* A vector that begins, or begins again, has a block nobody else has.     *)
LEMMA OwnedBegins ==
  ASSUME NEW m, NEW h, NEW l, Owned(m, h, l), NEW v \in Vectors, h[v] = Gone,
         NEW b, FreeBlock(b, l), NEW n \in Nat, NEW s \in 0..n, NEW c \in CellsOf(n),
         NEW g, Sets(g, m, b, c),
         NEW x, Headed(x, b, s, n), NEW e, Sets(e, h, v, x),
         NEW r, Joins(r, l, b)
  PROVE  /\ Owned(g, e, r)
         /\ Begun(g, e, v, x, b, c)
         /\ Untouched(g, e, m, h, v)
<1>1. b \in Blocks /\ b # Null /\ b \notin l
  BY VecAssumption DEF FreeBlock
<1>2. x \in Header /\ x # Gone /\ x.start = b /\ x.size = s /\ x.cap = n
  BY <1>1, VecAssumption DEF Header, Headed
<1>3. h \in [Vectors -> Header \cup {Gone}] /\ DOMAIN m = Blocks \cup {Null} /\ m[Null] \in CellsOf(0)
  BY DEF Owned
<1>4. e[v] = x /\ (\A o \in Vectors : o # v => e[o] = h[o]) /\ DOMAIN e = Vectors
  BY <1>3 DEF Sets
<1>5. g[b] = c /\ (\A y \in Blocks \cup {Null} : y # b => g[y] = m[y]) /\ DOMAIN g = Blocks \cup {Null}
  <2>1. b \in DOMAIN m
    BY <1>1, <1>3
  <2>2. DOMAIN g = DOMAIN m /\ g[b] = c /\ \A y \in DOMAIN m : y # b => g[y] = m[y]
    BY <2>1 DEF Sets
  <2> QED
    BY <1>3, <2>2
<1>6. e \in [Vectors -> Header \cup {Gone}]
  BY <1>2, <1>3 DEF Sets
<1>7. g[Null] \in CellsOf(0)
  BY <1>1, <1>3, <1>5
<1>8. ASSUME NEW o \in Vectors, o # v, h[o] # Gone
      PROVE  /\ h[o].size <= h[o].cap
             /\ g[h[o].start] \in CellsOf(h[o].cap)
             /\ g[h[o].start] = m[h[o].start]
             /\ h[o].start # b
  <2>1. /\ h[o].start \in Blocks \cup {Null} /\ h[o].size \in 0..h[o].cap /\ h[o].cap \in Nat
        /\ m[h[o].start] \in CellsOf(h[o].cap)
        /\ h[o].start # Null => h[o].start \in l
    BY <1>8, HeaderKnown
  <2>2. h[o].start # b
    BY <1>1, <2>1
  <2> QED
    BY <1>5, <2>1, <2>2
<1>9. ASSUME NEW o \in Vectors, e[o] # Gone
      PROVE  e[o].size <= e[o].cap /\ g[e[o].start] \in CellsOf(e[o].cap)
  <2>1. CASE o = v
    <3>1. e[o].size = s /\ e[o].cap = n /\ e[o].start = b /\ s <= n
      BY <1>2, <1>4, <2>1
    <3> QED
      BY <1>5, <3>1
  <2>2. CASE o # v
    BY <1>4, <1>8, <1>9, <2>2
  <2> QED
    BY <2>1, <2>2
<1>10. \A o \in Vectors : (e[o] # Gone <=> h[o] # Gone \/ o = v) /\ (o # v => e[o] = h[o])
  BY <1>2, <1>4
<1>11. ASSUME NEW u \in Vectors, NEW o \in Vectors,
              e[u] # Gone, e[o] # Gone, u # o, e[u].start = e[o].start
       PROVE  e[u].start = Null
  <2>1. CASE u # v /\ o # v
    BY <1>10, <1>11, <2>1 DEF Owned
  <2>2. CASE u = v
    BY <1>2, <1>4, <1>8, <1>10, <1>11, <2>2
  <2>3. CASE o = v
    BY <1>2, <1>4, <1>8, <1>10, <1>11, <2>3
  <2> QED
    BY <2>1, <2>2, <2>3
<1>12. r = {e[o].start : o \in {u \in Vectors : e[u] # Gone}} \ {Null}
  <2>1. l = {h[o].start : o \in {u \in Vectors : h[u] # Gone}} \ {Null}
    BY DEF Owned
  <2>2. ASSUME NEW y PROVE y \in r <=> y # Null /\ \E o \in Vectors : e[o] # Gone /\ e[o].start = y
    <3>1. y \in r <=> y = b \/ (y # Null /\ \E o \in Vectors : h[o] # Gone /\ h[o].start = y)
      BY <2>1 DEF Joins
    <3>2. y = b => y # Null /\ e[v] # Gone /\ e[v].start = y
      BY <1>1, <1>2, <1>4
    <3>3. (\E o \in Vectors : h[o] # Gone /\ h[o].start = y)
            <=> (\E o \in Vectors : o # v /\ e[o] # Gone /\ e[o].start = y)
      BY <1>10
    <3> QED
      BY <1>2, <1>4, <3>1, <3>2, <3>3
  <2> QED
    BY <2>2
<1>13. Owned(g, e, r)
  BY <1>5, <1>6, <1>7, <1>9, <1>11, <1>12 DEF Owned
<1>14. Untouched(g, e, m, h, v)
  BY <1>4, <1>8 DEF Untouched
<1>15. Begun(g, e, v, x, b, c)
  BY <1>2, <1>4, <1>5 DEF Begun
<1> QED
  BY <1>13, <1>14, <1>15

(* vector_init: a vector without room needs no block.                      *)
LEMMA OwnedBeginsEmpty ==
  ASSUME NEW m, NEW h, NEW l, Owned(m, h, l), NEW v \in Vectors, h[v] = Gone,
         NEW x, x = [start |-> Null, size |-> 0, cap |-> 0], NEW e, Sets(e, h, v, x)
  PROVE  /\ Owned(m, e, l)
         /\ e[v] = x /\ x # Gone
         /\ \A o \in Vectors : o # v => e[o] = h[o]
<1>1. x \in Header /\ x # Gone /\ x.start = Null /\ x.size = 0 /\ x.cap = 0
  BY VecAssumption DEF Header
<1>2. h \in [Vectors -> Header \cup {Gone}] /\ DOMAIN m = Blocks \cup {Null} /\ m[Null] \in CellsOf(0)
  BY DEF Owned
<1>3. e[v] = x /\ (\A o \in Vectors : o # v => e[o] = h[o]) /\ DOMAIN e = Vectors
  BY <1>2 DEF Sets
<1>4. e \in [Vectors -> Header \cup {Gone}]
  BY <1>1, <1>2 DEF Sets
<1>5. ASSUME NEW o \in Vectors, e[o] # Gone
      PROVE  e[o].size <= e[o].cap /\ m[e[o].start] \in CellsOf(e[o].cap)
  <2>1. CASE o = v
    <3>1. e[o].size = 0 /\ e[o].cap = 0 /\ e[o].start = Null
      BY <1>1, <1>3, <2>1
    <3> QED
      BY <1>2, <3>1
  <2>2. CASE o # v
    BY <1>3, <1>5, <2>2 DEF Owned
  <2> QED
    BY <2>1, <2>2
<1>6. \A o \in Vectors : (e[o] # Gone <=> h[o] # Gone \/ o = v) /\ (o # v => e[o] = h[o])
  BY <1>1, <1>3
<1>7. ASSUME NEW u \in Vectors, NEW o \in Vectors,
             e[u] # Gone, e[o] # Gone, u # o, e[u].start = e[o].start
      PROVE  e[u].start = Null
  <2>1. CASE u # v /\ o # v
    BY <1>6, <1>7, <2>1 DEF Owned
  <2>2. CASE u = v \/ o = v
    BY <1>1, <1>3, <1>7, <2>2
  <2> QED
    BY <2>1, <2>2
<1>8. l = {e[o].start : o \in {u \in Vectors : e[u] # Gone}} \ {Null}
  <2>1. l = {h[o].start : o \in {u \in Vectors : h[u] # Gone}} \ {Null}
    BY DEF Owned
  <2>2. ASSUME NEW y PROVE y \in l <=> y # Null /\ \E o \in Vectors : e[o] # Gone /\ e[o].start = y
    <3>1. y \in l <=> y # Null /\ \E o \in Vectors : h[o] # Gone /\ h[o].start = y
      BY <2>1
    <3> QED
      BY <1>1, <1>3, <1>6, <3>1
  <2> QED
    BY <2>2
<1>9. Owned(m, e, l)
  BY <1>2, <1>4, <1>5, <1>7, <1>8 DEF Owned
<1> QED
  BY <1>1, <1>3, <1>9

(* What Moves does to headers, cells and blocks: the vector ends and       *)
(* begins again in another block.                                          *)
LEMMA OwnedMoves ==
  ASSUME NEW m, NEW h, NEW l, Owned(m, h, l), NEW v \in Vectors, h[v] # Gone,
         NEW b, FreeBlock(b, l), NEW n \in Nat, NEW s \in 0..n, NEW c \in CellsOf(n),
         NEW g, Replaces(g, m, h[v].start, b, c),
         NEW x, Headed(x, b, s, n), NEW e, Sets(e, h, v, x),
         NEW r, r = (l \cup {b}) \ {h[v].start}
  PROVE  /\ Owned(g, e, r)
         /\ Begun(g, e, v, x, b, c)
         /\ Untouched(g, e, m, h, v)
<1>1. PICK y : y = h[v].start
  OBVIOUS
<1>2. y \in Blocks \cup {Null} /\ (y # Null => y \in l)
  BY <1>1, HeaderKnown
<1>3. b # y
  BY <1>2, VecAssumption DEF FreeBlock
<1>4. PICK m1 : Sets(m1, m, y, NoElements)
  BY DEF Sets
<1>5. PICK h1 : Sets(h1, h, v, Gone)
  BY DEF Sets
<1>6. PICK l1 : l1 = l \ {y}
  OBVIOUS
<1>7. Owned(m1, h1, l1) /\ h1[v] = Gone /\ Untouched(m1, h1, m, h, v)
  BY <1>1, <1>4, <1>5, <1>6, OwnedEnds
<1>8. FreeBlock(b, l1)
  BY <1>6 DEF FreeBlock
<1>9. Sets(g, m1, b, c)
  BY <1>1, <1>4 DEF Sets, Replaces
<1>10. Sets(e, h1, v, x)
  BY <1>5 DEF Sets
<1>11. Joins(r, l1, b)
  BY <1>1, <1>3, <1>6 DEF Joins
<1>12. h1[v] = Gone /\ Owned(m1, h1, l1)
  BY <1>7
<1>13. Owned(g, e, r) /\ Begun(g, e, v, x, b, c) /\ Untouched(g, e, m1, h1, v)
  BY <1>8, <1>9, <1>10, <1>11, <1>12, OwnedBegins
<1>14. ASSUME NEW o \in Vectors, o # v
       PROVE  /\ e[o] = h[o]
              /\ h[o] # Gone /\ h[o].size > 0 => g[h[o].start] = m[h[o].start]
  <2>1. /\ h1[o] = h[o]
        /\ h[o] # Gone /\ h[o].size > 0 => m1[h[o].start] = m[h[o].start]
    BY <1>7, <1>14 DEF Untouched
  <2>2. /\ e[o] = h1[o]
        /\ h1[o] # Gone /\ h1[o].size > 0 => g[h1[o].start] = m1[h1[o].start]
    BY <1>13, <1>14 DEF Untouched
  <2> QED
    BY <2>1, <2>2
<1>15. Untouched(g, e, m, h, v)
  BY <1>14 DEF Untouched
<1> QED
  BY <1>13, <1>15

Exchanges(e, h, v, o) == e = [h EXCEPT ![v] = h[o], ![o] = h[v]]

LEMMA OwnedSwaps ==
  ASSUME NEW m, NEW h, NEW l, Owned(m, h, l), NEW v \in Vectors, NEW o \in Vectors,
         h[v] # Gone, h[o] # Gone, NEW e, Exchanges(e, h, v, o)
  PROVE  /\ Owned(m, e, l)
         /\ e[v] = h[o] /\ e[o] = h[v]
         /\ \A u \in Vectors : u # v /\ u # o => e[u] = h[u]
<1>1. h \in [Vectors -> Header \cup {Gone}] /\ DOMAIN h = Vectors
  BY DEF Owned
<1>2. PICK f : f = [u \in Vectors |-> IF u = v THEN o ELSE IF u = o THEN v ELSE u]
  OBVIOUS
<1>3. /\ \A u \in Vectors : f[u] \in Vectors /\ f[f[u]] = u
      /\ \A u, w \in Vectors : f[u] = f[w] => u = w
  BY <1>2
<1>4. \A u \in Vectors : e[u] = h[f[u]]
  BY <1>1, <1>2 DEF Exchanges
<1>5. e \in [Vectors -> Header \cup {Gone}]
  BY <1>1 DEF Exchanges
<1>6. \A u \in Vectors : e[u] # Gone =>
        e[u].size <= e[u].cap /\ m[e[u].start] \in CellsOf(e[u].cap)
  BY <1>3, <1>4 DEF Owned
<1>7. \A u, w \in Vectors :
        e[u] # Gone /\ e[w] # Gone /\ u # w /\ e[u].start = e[w].start => e[u].start = Null
  BY <1>3, <1>4 DEF Owned
<1>8. l = {e[u].start : u \in {w \in Vectors : e[w] # Gone}} \ {Null}
  <2>1. l = {h[u].start : u \in {w \in Vectors : h[w] # Gone}} \ {Null}
    BY DEF Owned
  <2>2. ASSUME NEW y PROVE y \in l <=> y # Null /\ \E u \in Vectors : e[u] # Gone /\ e[u].start = y
    <3>1. y \in l <=> y # Null /\ \E u \in Vectors : h[u] # Gone /\ h[u].start = y
      BY <2>1
    <3>2. (\E u \in Vectors : h[u] # Gone /\ h[u].start = y)
            <=> (\E u \in Vectors : e[u] # Gone /\ e[u].start = y)
      <4>1. ASSUME NEW u \in Vectors, h[u] # Gone, h[u].start = y
            PROVE  \E w \in Vectors : e[w] # Gone /\ e[w].start = y
        <5>1. PICK w \in Vectors : w = f[u] /\ f[w] = u
          BY <1>3
        <5>2. e[w] = h[u]
          BY <1>4, <5>1
        <5> QED
          BY <4>1, <5>2
      <4>2. ASSUME NEW u \in Vectors, e[u] # Gone, e[u].start = y
            PROVE  \E w \in Vectors : h[w] # Gone /\ h[w].start = y
        BY <1>3, <1>4, <4>2
      <4> QED
        BY <4>1, <4>2
    <3> QED
      BY <3>1, <3>2
  <2>3. PICK z : z = {e[u].start : u \in {w \in Vectors : e[w] # Gone}} \ {Null}
    OBVIOUS
  <2>4. \A y : y \in z <=> y # Null /\ \E u \in Vectors : e[u] # Gone /\ e[u].start = y
    BY <2>3
  <2>5. \A y : y \in l <=> y \in z
    BY <2>2, <2>4
  <2> QED
    BY <2>3, <2>5
<1>9. Owned(m, e, l)
  BY <1>5, <1>6, <1>7, <1>8 DEF Owned
<1>10. e[v] = h[o] /\ e[o] = h[v] /\ \A u \in Vectors : u # v /\ u # o => e[u] = h[u]
  BY <1>2, <1>4
<1> QED
  BY <1>9, <1>10

-----------------------------------------------------------------------------
(***************************************************************************)
(* Every call leaves a vector with the cells c, s of which it uses, and    *)
(* room for n, and the other vectors alone.                                *)
(***************************************************************************)
Becomes(v, c, n, s) ==
  /\ vec'[v] # Gone /\ vec'[v].size = s /\ vec'[v].cap = n
  /\ mem'[vec'[v].start] = c
  /\ Untouched(mem', vec', mem, vec, v)

LEMMA AliveKnown ==
  ASSUME StorageInv, NEW v \in Alive
  PROVE  /\ v \in Vectors /\ vec[v] # Gone
         /\ Size(v) \in Nat /\ Cap(v) \in Nat /\ Size(v) \in 0..Cap(v)
         /\ Cells(v) \in CellsOf(Cap(v))
         /\ vec[v].start = Null => Cap(v) = 0
<1>1. v \in Vectors /\ vec[v] # Gone
  BY DEF Alive
<1> QED
  BY <1>1, HeaderKnown DEF StorageInv, Size, Cap, Cells

LEMMA StaysKeeps ==
  ASSUME StorageInv, NEW v \in Alive, NEW c \in CellsOf(Cap(v)), NEW s \in 0..Cap(v),
         Stays(v, c, s)
  PROVE  StorageInv' /\ Becomes(v, c, Cap(v), s)
<1>1. v \in Vectors /\ vec[v] # Gone /\ Owned(mem, vec, live)
  BY DEF Alive, StorageInv
<1>2. Sets(mem', mem, vec[v].start, c) /\ live' = live
  BY DEF Stays, Sets
<1>3. PICK x : x = [vec[v] EXCEPT !.size = s]
  OBVIOUS
<1>4. Sets(vec', vec, v, x)
  BY <1>3 DEF Stays, Sets
<1>5. s \in 0..vec[v].cap /\ c \in CellsOf(vec[v].cap)
  BY DEF Cap
<1>6. /\ Owned(mem', vec', live)
      /\ vec'[v] # Gone /\ vec'[v].size = s /\ vec'[v].cap = vec[v].cap /\ mem'[vec'[v].start] = c
      /\ Untouched(mem', vec', mem, vec, v)
  BY <1>1, <1>2, <1>3, <1>4, <1>5, OwnedStays
<1> QED
  BY <1>2, <1>6 DEF StorageInv, Becomes, Cap

LEMMA MovesKeeps ==
  ASSUME StorageInv, NEW v \in Alive, NEW n \in Nat, NEW c \in CellsOf(n), NEW s \in 0..n,
         Moves(v, c, s, n)
  PROVE  StorageInv' /\ Becomes(v, c, n, s)
<1>1. v \in Vectors /\ vec[v] # Gone /\ Owned(mem, vec, live)
  BY DEF Alive, StorageInv
<1>2. PICK b : b = Fresh /\ FreeBlock(b, live)
  BY FreshIsFree
<1>3. PICK x : Headed(x, b, s, n)
  BY DEF Headed
<1>4. Sets(vec', vec, v, x)
  BY <1>2, <1>3 DEF Moves, Sets, Headed
<1>5. Replaces(mem', mem, vec[v].start, b, c)
  BY <1>2 DEF Moves, Replaces
<1>6. PICK r : r = (live \cup {b}) \ {vec[v].start}
  OBVIOUS
<1>7. live' = r
  BY <1>2, <1>6 DEF Moves
<1>8. /\ Owned(mem', vec', r)
      /\ Begun(mem', vec', v, x, b, c)
      /\ Untouched(mem', vec', mem, vec, v)
  BY <1>1, <1>2, <1>3, <1>4, <1>5, <1>6, OwnedMoves
<1>9. vec'[v] # Gone /\ vec'[v].size = s /\ vec'[v].cap = n /\ mem'[vec'[v].start] = c
  BY <1>3, <1>8 DEF Begun, Headed
<1> QED
  BY <1>7, <1>8, <1>9 DEF StorageInv, Becomes

LEMMA ErasesKeeps ==
  ASSUME StorageInv, NEW v \in Alive, NEW i \in 0..Size(v), NEW j \in i..Size(v), Erases(v, i, j)
  PROVE  /\ StorageInv'
         /\ \E c : /\ Becomes(v, c, Cap(v), Size(v) - (j - i))
                   /\ Erased(c, Cells(v), i, j, Size(v))
<1>1. /\ Size(v) \in Nat /\ Cap(v) \in Nat /\ Size(v) \in 0..Cap(v)
      /\ Cells(v) \in CellsOf(Cap(v))
  BY AliveKnown
<1>2. PICK c : c = Copy(Cells(v), j, Size(v), i)
  OBVIOUS
<1>3. c \in CellsOf(Cap(v)) /\ Erased(c, Cells(v), i, j, Size(v))
  BY <1>1, <1>2, Erasing
<1>4. PICK s : s = Size(v) - (j - i)
  OBVIOUS
<1>5. s \in 0..Cap(v)
  BY <1>1, <1>4
<1>6. Stays(v, c, s)
  BY <1>2, <1>4 DEF Erases
<1>7. StorageInv' /\ Becomes(v, c, Cap(v), s)
  BY <1>3, <1>5, <1>6, StaysKeeps
<1> QED
  BY <1>3, <1>4, <1>7

(* The value a new cell gets when NULL is passed is what is there.         *)
Put(x, w, c) == x \in Held /\ (w # NullArg => x = Read(c, w))

LEMMA GrowsKeeps ==
  ASSUME StorageInv, NEW v \in Alive, NEW i \in 0..Size(v),
         NEW w, Argument(w, Size(v)) \/ w = NullArg, Grows(v, i, w)
  PROVE  /\ StorageInv'
         /\ \E c, x : /\ Becomes(v, c, IF Size(v) = 0 THEN 1 ELSE 2 * Size(v), Size(v) + 1)
                      /\ Put(x, w, Cells(v))
                      /\ Inserts(c, Cells(v), i, 1, Size(v), x)
<1>1. /\ Size(v) \in Nat /\ Cap(v) \in Nat /\ Size(v) \in 0..Cap(v)
      /\ Cells(v) \in CellsOf(Cap(v))
  BY AliveKnown
<1>2. PICK c : c = Regrown(Cells(v), i, Size(v), w)
  OBVIOUS
<1>3. PICK n \in Nat : n = IF Size(v) = 0 THEN 1 ELSE 2 * Size(v)
  BY <1>1
<1>4. PICK x : x = IF w = NullArg THEN Junk ELSE Read(Cells(v), w)
  OBVIOUS
<1>5. Size(v) < n /\ c \in CellsOf(n) /\ Inserts(c, Cells(v), i, 1, Size(v), x)
  BY <1>1, <1>2, <1>3, <1>4, Regrowing
<1>6. Put(x, w, Cells(v))
  <2>1. CASE w = NullArg
    BY <1>4, <2>1 DEF Put, Held
  <2>2. CASE w # NullArg
    <3>1. Read(Cells(v), w) \in Held
      BY <1>1, <2>2, ArgumentIsRead
    <3> QED
      BY <1>4, <2>2, <3>1 DEF Put
  <2> QED
    BY <2>1, <2>2
<1>7. PICK s : s = Size(v) + 1
  OBVIOUS
<1>8. s \in 0..n
  BY <1>1, <1>5, <1>7
<1>9. Moves(v, c, s, n)
  BY <1>2, <1>3, <1>7 DEF Grows
<1>10. StorageInv' /\ Becomes(v, c, n, s)
  BY <1>5, <1>8, <1>9, MovesKeeps
<1> QED
  BY <1>3, <1>5, <1>6, <1>7, <1>10

LEMMA AppendsKeeps ==
  ASSUME StorageInv, NEW v \in Alive, ~ Full(v),
         NEW w, Argument(w, Size(v)) \/ w = NullArg, Appends(v, w)
  PROVE  /\ StorageInv'
         /\ \E c, x : /\ Becomes(v, c, Cap(v), Size(v) + 1)
                      /\ Put(x, w, Cells(v))
                      /\ Inserts(c, Cells(v), Size(v), 1, Size(v), x)
<1>1. /\ Size(v) \in Nat /\ Cap(v) \in Nat /\ Size(v) \in 0..Cap(v)
      /\ Cells(v) \in CellsOf(Cap(v))
  BY AliveKnown
<1>2. Size(v) \in 0..(Cap(v) - 1)
  BY <1>1 DEF Full
<1>3. PICK c : c = Construct(Cells(v), Size(v), Cells(v), w)
  OBVIOUS
<1>4. PICK x : x = IF w = NullArg THEN Cells(v)[Size(v)] ELSE Read(Cells(v), w)
  OBVIOUS
<1>5. c \in CellsOf(Cap(v)) /\ Inserts(c, Cells(v), Size(v), 1, Size(v), x)
  BY <1>1, <1>2, <1>3, <1>4, Appending
<1>6. Put(x, w, Cells(v))
  <2>1. CASE w = NullArg
    BY <1>1, <1>2, <1>4, <2>1 DEF Put, CellsOf
  <2>2. CASE w # NullArg
    <3>1. Read(Cells(v), w) \in Held
      BY <1>1, <2>2, ArgumentIsRead
    <3> QED
      BY <1>4, <2>2, <3>1 DEF Put
  <2> QED
    BY <2>1, <2>2
<1>7. PICK s : s = Size(v) + 1
  OBVIOUS
<1>8. s \in 0..Cap(v)
  BY <1>1, <1>2, <1>7
<1>9. Stays(v, c, s)
  BY <1>3, <1>7 DEF Appends
<1>10. StorageInv' /\ Becomes(v, c, Cap(v), s)
  BY <1>5, <1>8, <1>9, StaysKeeps
<1> QED
  BY <1>5, <1>6, <1>7, <1>10

(* The cells stay as they are, all or the first s of them.                 *)
Keeps(c, d, s) == \A k \in 0..(s - 1) : c[k] = d[k]

LEMMA UnchangedKeeps ==
  ASSUME StorageInv, NEW v \in Alive, NEW s \in 0..Size(v), Stays(v, Cells(v), s)
  PROVE  StorageInv' /\ \E c : Becomes(v, c, Cap(v), s) /\ Keeps(c, Cells(v), s)
<1>1. Cells(v) \in CellsOf(Cap(v)) /\ s \in 0..Cap(v)
  BY AliveKnown
<1>2. PICK c : c = Cells(v)
  OBVIOUS
<1>3. StorageInv' /\ Becomes(v, c, Cap(v), s)
  BY <1>1, <1>2, StaysKeeps
<1> QED
  BY <1>2, <1>3 DEF Keeps

LEMMA CopiedKeeps ==
  ASSUME StorageInv, NEW v \in Alive, NEW n \in Nat, Size(v) <= n,
         Moves(v, CopyOver(Cells(v), 0, Size(v), Malloced(n), 0), Size(v), n)
  PROVE  StorageInv' /\ \E c : Becomes(v, c, n, Size(v)) /\ Keeps(c, Cells(v), Size(v))
<1>1. Size(v) \in Nat /\ Cap(v) \in Nat /\ Size(v) \in 0..Cap(v) /\ Cells(v) \in CellsOf(Cap(v))
  BY AliveKnown
<1>2. PICK c : c = CopyOver(Cells(v), 0, Size(v), Malloced(n), 0)
  OBVIOUS
<1>3. c \in CellsOf(n) /\ \A k \in 0..(n - 1) : k < Size(v) => c[k] = Cells(v)[k]
  BY <1>1, <1>2, Copying
<1>4. Size(v) \in 0..n
  BY <1>1
<1>5. StorageInv' /\ Becomes(v, c, n, Size(v))
  BY <1>2, <1>3, <1>4, MovesKeeps
<1>6. Keeps(c, Cells(v), Size(v))
  BY <1>1, <1>3, <1>4 DEF Keeps
<1> QED
  BY <1>5, <1>6

(* The three ways of vector_insert1; only to insert values does it read    *)
(* its argument.                                                           *)
InsertsMany(v, i, n, w) ==
  IF n = 0
  THEN \E c : Becomes(v, c, 2 * Size(v), Size(v)) /\ Keeps(c, Cells(v), Size(v))
  ELSE IF Size(v) + n <= Cap(v)
  THEN \E c : /\ Becomes(v, c, Cap(v), Size(v) + n)
              /\ Inserts(c, Cells(v), i, n, Size(v), FoundAt(Cells(v), w, i, n))
  ELSE \E c : Becomes(v, c, Cap(v), Size(v)) /\ Keeps(c, Cells(v), Size(v))

LEMMA InsertManyKeeps ==
  ASSUME StorageInv, NEW v \in Alive, NEW i \in 0..Size(v), NEW n \in Nat,
         NEW w, Argument(w, Size(v)) \/ n = 0 \/ Size(v) + n > Cap(v),
         InsertMany(v, i, n, w)
  PROVE  StorageInv' /\ InsertsMany(v, i, n, w)
<1>1. Size(v) \in Nat /\ Cap(v) \in Nat /\ Size(v) \in 0..Cap(v) /\ Cells(v) \in CellsOf(Cap(v))
  BY AliveKnown
<1>2. CASE n = 0
  <2>1. PICK z \in Nat : z = 2 * Size(v)
    BY <1>1
  <2>2. Moves(v, CopyOver(Cells(v), 0, Size(v), Malloced(z), 0), Size(v), z)
    BY <1>2, <2>1 DEF InsertMany
  <2>3. Size(v) <= z
    BY <1>1, <2>1
  <2>4. StorageInv' /\ \E c : Becomes(v, c, z, Size(v)) /\ Keeps(c, Cells(v), Size(v))
    BY <2>2, <2>3, CopiedKeeps
  <2> QED
    BY <1>2, <2>1, <2>4 DEF InsertsMany
<1>3. CASE n # 0 /\ Size(v) + n <= Cap(v)
  <2>1. PICK c : c = Opened(Cells(v), i, Size(v), n, w)
    OBVIOUS
  <2>2. Argument(w, Size(v)) /\ n \in Nat \ {0} /\ Cap(v) - Size(v) >= n
    BY <1>1, <1>3
  <2>3. c \in CellsOf(Cap(v)) /\ Inserts(c, Cells(v), i, n, Size(v), FoundAt(Cells(v), w, i, n))
    BY <1>1, <1>3, <2>1, <2>2, Opening
  <2>4. PICK s : s = Size(v) + n
    OBVIOUS
  <2>5. s \in 0..Cap(v)
    BY <1>1, <1>3, <2>4
  <2>6. Stays(v, c, s)
    BY <1>3, <2>1, <2>2, <2>4 DEF InsertMany
  <2>7. StorageInv' /\ Becomes(v, c, Cap(v), s)
    BY <2>3, <2>5, <2>6, StaysKeeps
  <2> QED
    BY <1>3, <2>3, <2>4, <2>7 DEF InsertsMany
<1>4. CASE n # 0 /\ ~ Size(v) + n <= Cap(v)
  <2>1. ~ Cap(v) - Size(v) >= n /\ Size(v) \in 0..Size(v)
    BY <1>1, <1>4
  <2>2. Stays(v, Cells(v), Size(v))
    BY <1>4, <2>1 DEF InsertMany
  <2>3. StorageInv' /\ \E c : Becomes(v, c, Cap(v), Size(v)) /\ Keeps(c, Cells(v), Size(v))
    BY <2>1, <2>2, UnchangedKeeps
  <2> QED
    BY <1>4, <2>3 DEF InsertsMany
<1> QED
  BY <1>2, <1>3, <1>4

-----------------------------------------------------------------------------
(***************************************************************************)
(* The calls keep the invariant.                                           *)
(***************************************************************************)
LEMMA ArgsAreArguments ==
  ASSUME NEW v, NEW w \in Args(v)
  PROVE  Argument(w, Size(v))
BY DEF Args, Argument

LEMMA InitStorage == Init => StorageInv
<1>1. SUFFICES ASSUME Init PROVE Owned(mem, vec, live)
  BY DEF StorageInv
<1>2. \A v \in Vectors : vec[v] = Gone
  BY <1>1 DEF Init
<1>3. vec \in [Vectors -> Header \cup {Gone}]
  BY <1>1 DEF Init
<1>4. DOMAIN mem = Blocks \cup {Null} /\ mem[Null] \in CellsOf(0)
  BY <1>1 DEF Init, NoElements, CellsOf
<1>5. live = {vec[v].start : v \in {o \in Vectors : vec[o] # Gone}} \ {Null}
  BY <1>1, <1>2 DEF Init
<1> QED
  BY <1>2, <1>3, <1>4, <1>5 DEF Owned

LEMMA InitKeeps ==
  ASSUME StorageInv, NEW v \in Vectors, VectorInit(v)
  PROVE  StorageInv' /\ \E c : Becomes(v, c, 0, 0)
<1>1. Owned(mem, vec, live) /\ vec[v] = Gone /\ mem' = mem /\ live' = live
  BY DEF StorageInv, VectorInit, Alive
<1>2. PICK x : x = [start |-> Null, size |-> 0, cap |-> 0]
  OBVIOUS
<1>3. Sets(vec', vec, v, x)
  BY <1>2 DEF VectorInit, Sets
<1>4. Owned(mem, vec', live) /\ vec'[v] = x /\ x # Gone /\ \A o \in Vectors : o # v => vec'[o] = vec[o]
  BY <1>1, <1>2, <1>3, OwnedBeginsEmpty
<1>5. Untouched(mem', vec', mem, vec, v)
  BY <1>1, <1>4 DEF Untouched
<1> QED
  BY <1>1, <1>2, <1>4, <1>5 DEF StorageInv, Becomes

(* vector_init1 leaves the room empty, vector_init2 fills it.              *)
LEMMA InitRoomKeeps ==
  ASSUME StorageInv, NEW v \in Vectors, VectorInitRoom(v)
  PROVE  /\ StorageInv'
         /\ \E n \in Nat, x \in Held : \E c :
              LET size == IF x = Junk THEN 0 ELSE n
              IN  /\ Becomes(v, c, n, size)
                  /\ \A k \in 0..(size - 1) : c[k] = x
                  /\ Called(IF x = Junk THEN "init1" ELSE "init2", v, <<n, x>>, 0, size)
<1>1. Owned(mem, vec, live) /\ vec[v] = Gone
  BY DEF StorageInv, VectorInitRoom, Alive
<1>2. PICK n \in 1..(MaxCapacity - Capacity), x \in Held :
        LET size == IF x = Junk THEN 0 ELSE n
        IN  /\ mem' = [mem EXCEPT ![Fresh] = Fill(Malloced(n), 0, size, Outside(x))]
            /\ live' = live \cup {Fresh}
            /\ vec' = [vec EXCEPT ![v] = [start |-> Fresh, size |-> size, cap |-> n]]
            /\ Called(IF x = Junk THEN "init1" ELSE "init2", v, <<n, x>>, 0, size)
  BY DEF VectorInitRoom, Held
<1>3. n \in Nat /\ n >= 1
  BY <1>2
<1>4. PICK s : s = IF x = Junk THEN 0 ELSE n
  OBVIOUS
<1>5. s \in 0..n
  BY <1>3, <1>4
<1>6. PICK b : b = Fresh /\ FreeBlock(b, live)
  BY FreshIsFree
<1>7. PICK c : c = Fill(Malloced(n), 0, s, Outside(x))
  OBVIOUS
<1>8. Malloced(n) \in CellsOf(n)
  BY <1>3, MallocedIsCells
<1>9. Outside(x)[1] # "element" /\ Read(Malloced(n), Outside(x)) = x
  BY DEF Outside, Read
<1>10. Filled(c, Malloced(n), 0, s, x)
  <2>1. 0 \in Nat /\ s \in Nat /\ 0 <= s
    BY <1>3, <1>5
  <2> QED
    BY <1>3, <1>7, <1>8, <1>9, <2>1, FillFills
<1>11. c \in CellsOf(n)
  BY <1>3, <1>8, <1>10, FilledIsCells
<1>12. \A k \in 0..(s - 1) : c[k] = x
  <2>1. \A k \in 0..(s - 1) : k \in 0..(n - 1)
    BY <1>3, <1>5
  <2> QED
    BY <1>8, <1>10, <2>1 DEF Filled, CellsOf
<1>13. PICK y : Headed(y, b, s, n)
  BY DEF Headed
<1>14. Sets(mem', mem, b, c) /\ Sets(vec', vec, v, y) /\ Joins(live', live, b)
  BY <1>2, <1>4, <1>6, <1>7, <1>13 DEF Sets, Joins, Headed
<1>15. PICK g, e, r : g = mem' /\ e = vec' /\ r = live'
  OBVIOUS
<1>16. Sets(g, mem, b, c) /\ Sets(e, vec, v, y) /\ Joins(r, live, b)
  BY <1>14, <1>15
<1>17. Owned(g, e, r) /\ Begun(g, e, v, y, b, c) /\ Untouched(g, e, mem, vec, v)
  BY <1>1, <1>3, <1>5, <1>6, <1>11, <1>13, <1>16, OwnedBegins
<1>18. Becomes(v, c, n, s)
  BY <1>13, <1>15, <1>17 DEF Becomes, Begun, Headed
<1>19. StorageInv'
  BY <1>15, <1>17 DEF StorageInv
<1> QED
  BY <1>2, <1>3, <1>4, <1>12, <1>18, <1>19

LEMMA DestroyKeeps ==
  ASSUME StorageInv, NEW v \in Alive, VectorDestroy(v)
  PROVE  StorageInv' /\ vec'[v] = Gone /\ Untouched(mem', vec', mem, vec, v)
<1>1. Owned(mem, vec, live) /\ v \in Vectors /\ vec[v] # Gone
  BY DEF StorageInv, Alive
<1>2. PICK r : r = live \ {vec[v].start}
  OBVIOUS
<1>3. Sets(mem', mem, vec[v].start, NoElements) /\ Sets(vec', vec, v, Gone) /\ live' = r
  BY <1>2 DEF VectorDestroy, Sets
<1>4. Owned(mem', vec', r) /\ vec'[v] = Gone /\ Untouched(mem', vec', mem, vec, v)
  BY <1>1, <1>2, <1>3, OwnedEnds
<1> QED
  BY <1>3, <1>4 DEF StorageInv

LEMMA SwapKeeps ==
  ASSUME StorageInv, NEW v \in Alive, NEW o \in Alive, VectorSwap(v, o)
  PROVE  /\ StorageInv'
         /\ mem' = mem /\ vec'[v] = vec[o] /\ vec'[o] = vec[v]
         /\ \A u \in Vectors : u # v /\ u # o => vec'[u] = vec[u]
<1>1. Owned(mem, vec, live) /\ v \in Vectors /\ vec[v] # Gone /\ o \in Vectors /\ vec[o] # Gone
  BY DEF StorageInv, Alive
<1>2. PICK e : Exchanges(e, vec, v, o)
  BY DEF Exchanges
<1>3. vec' = e /\ mem' = mem /\ live' = live
  BY <1>2 DEF VectorSwap, Exchanges
<1>4. /\ Owned(mem, e, live)
      /\ e[v] = vec[o] /\ e[o] = vec[v]
      /\ \A u \in Vectors : u # v /\ u # o => e[u] = vec[u]
  BY <1>1, <1>2, OwnedSwaps
<1> QED
  BY <1>3, <1>4 DEF StorageInv

(* vector_reserve moves the vector when there is too little room.          *)
LEMMA ReserveKeeps ==
  ASSUME StorageInv, NEW v \in Alive, NEW n \in Nat,
         \/ /\ Cap(v) < n
            /\ Moves(v, CopyOver(Cells(v), 0, Size(v), Malloced(n), 0), Size(v), n)
         \/ /\ Cap(v) >= n
            /\ Stays(v, Cells(v), Size(v))
  PROVE  /\ StorageInv'
         /\ \E c : Becomes(v, c, IF Cap(v) < n THEN n ELSE Cap(v), Size(v))
                   /\ Keeps(c, Cells(v), Size(v))
<1>1. Size(v) \in Nat /\ Cap(v) \in Nat /\ Size(v) \in 0..Cap(v)
  BY AliveKnown
<1>2. CASE Cap(v) < n
  <2>1. Size(v) <= n
    BY <1>1, <1>2
  <2>2. Moves(v, CopyOver(Cells(v), 0, Size(v), Malloced(n), 0), Size(v), n)
    BY <1>1, <1>2
  <2>3. StorageInv' /\ \E c : Becomes(v, c, n, Size(v)) /\ Keeps(c, Cells(v), Size(v))
    BY <2>1, <2>2, CopiedKeeps
  <2> QED
    BY <1>2, <2>3
<1>3. CASE ~ Cap(v) < n
  <2>1. Stays(v, Cells(v), Size(v))
    BY <1>1, <1>3
  <2>2. Size(v) \in 0..Size(v)
    BY <1>1
  <2>3. StorageInv' /\ \E c : Becomes(v, c, Cap(v), Size(v)) /\ Keeps(c, Cells(v), Size(v))
    BY <2>1, <2>2, UnchangedKeeps
  <2> QED
    BY <1>3, <2>3
<1> QED
  BY <1>2, <1>3

(* Putting one value in, with or without room for it.                      *)
LEMMA InsertOneKeeps ==
  ASSUME StorageInv, NEW v \in Alive, NEW i \in 0..Size(v),
         NEW w, Argument(w, Size(v)) \/ w = NullArg,
         \/ Full(v) /\ Grows(v, i, w)
         \/ ~ Full(v) /\ i = Size(v) /\ Appends(v, w)
         \/ /\ ~ Full(v) /\ i < Size(v) /\ w # NullArg
            /\ Stays(v, Shifted(Cells(v), i, Size(v), w), Size(v) + 1)
  PROVE  /\ StorageInv'
         /\ \E c, x, n :
              /\ Becomes(v, c, n, Size(v) + 1)
              /\ n = IF Full(v) THEN IF Size(v) = 0 THEN 1 ELSE 2 * Size(v) ELSE Cap(v)
              /\ Inserts(c, Cells(v), i, 1, Size(v), x)
              /\ IF Full(v) \/ i = Size(v) THEN Put(x, w, Cells(v))
                 ELSE x = FoundAt(Cells(v), w, i, 1)
<1>1. /\ Size(v) \in Nat /\ Cap(v) \in Nat /\ Size(v) \in 0..Cap(v)
      /\ Cells(v) \in CellsOf(Cap(v))
  BY AliveKnown
<1>2. CASE Full(v) /\ Grows(v, i, w)
  <2>1. /\ StorageInv'
        /\ \E c, x : /\ Becomes(v, c, IF Size(v) = 0 THEN 1 ELSE 2 * Size(v), Size(v) + 1)
                     /\ Put(x, w, Cells(v))
                     /\ Inserts(c, Cells(v), i, 1, Size(v), x)
    BY <1>2, GrowsKeeps
  <2> QED
    BY <1>2, <2>1
<1>3. CASE ~ Full(v) /\ i = Size(v) /\ Appends(v, w)
  <2>1. /\ StorageInv'
        /\ \E c, x : /\ Becomes(v, c, Cap(v), Size(v) + 1)
                     /\ Put(x, w, Cells(v))
                     /\ Inserts(c, Cells(v), Size(v), 1, Size(v), x)
    BY <1>3, AppendsKeeps
  <2> QED
    BY <1>3, <2>1
<1>4. CASE /\ ~ Full(v) /\ i < Size(v) /\ w # NullArg
           /\ Stays(v, Shifted(Cells(v), i, Size(v), w), Size(v) + 1)
  <2>1. Size(v) \in 0..(Cap(v) - 1) /\ i \in 0..(Size(v) - 1) /\ Argument(w, Size(v))
    BY <1>1, <1>4 DEF Full
  <2>2. PICK c : c = Shifted(Cells(v), i, Size(v), w)
    OBVIOUS
  <2>3. PICK x : x = FoundAt(Cells(v), w, i, 1)
    OBVIOUS
  <2>4. c \in CellsOf(Cap(v)) /\ Inserts(c, Cells(v), i, 1, Size(v), x)
    BY <1>1, <2>1, <2>2, <2>3, Shifting
  <2>5. PICK s : s = Size(v) + 1
    OBVIOUS
  <2>6. s \in 0..Cap(v)
    BY <1>1, <2>1, <2>5
  <2>7. Stays(v, c, s)
    BY <1>4, <2>2, <2>5
  <2>8. StorageInv' /\ Becomes(v, c, Cap(v), s)
    BY <2>4, <2>6, <2>7, StaysKeeps
  <2>9. i # Size(v)
    BY <1>1, <2>1
  <2> QED
    BY <1>4, <2>3, <2>4, <2>5, <2>8, <2>9
<1> QED
  BY <1>2, <1>3, <1>4

LEMMA UnchangedStorage == StorageInv /\ UNCHANGED <<mem, live, vec>> => StorageInv'
BY DEF StorageInv

LEMMA PushBackOne ==
  ASSUME StorageInv, NEW v \in Alive, VectorPushBack(v)
  PROVE  \E w : /\ Argument(w, Size(v)) \/ w = NullArg
                /\ \/ Full(v) /\ Grows(v, Size(v), w)
                   \/ ~ Full(v) /\ Appends(v, w)
                /\ Called("push_back", v, <<w>>, 0, Size(v) + 1)
<1>1. PICK w \in Args(v) \cup {NullArg} :
        /\ IF Full(v) THEN Grows(v, Size(v), w) ELSE Appends(v, w)
        /\ Called("push_back", v, <<w>>, 0, Size(v) + 1)
  BY DEF VectorPushBack
<1>2. Argument(w, Size(v)) \/ w = NullArg
  BY ArgsAreArguments
<1> QED
  BY <1>1, <1>2

LEMMA EveryCallKeeps ==
  ASSUME StorageInv, NEW v \in Alive,
         \/ VectorReserve(v) \/ VectorPushBack(v) \/ VectorInsert(v) \/ VectorInsert1(v)
         \/ VectorErase(v) \/ VectorErase2(v) \/ VectorClear(v) \/ VectorPopBack(v)
         \/ VectorResize1(v) \/ VectorResize(v) \/ VectorAt(v)
  PROVE  StorageInv'
<1>1. Size(v) \in Nat /\ Cap(v) \in Nat /\ Size(v) \in 0..Cap(v)
  BY AliveKnown
<1>2. CASE VectorReserve(v)
  <2>1. PICK n \in 0..MaxCapacity :
          \/ /\ Cap(v) < n
             /\ Moves(v, CopyOver(Cells(v), 0, Size(v), Malloced(n), 0), Size(v), n)
          \/ /\ Cap(v) >= n
             /\ Stays(v, Cells(v), Size(v))
    BY <1>2 DEF VectorReserve
  <2> QED
    BY <2>1, ReserveKeeps
<1>3. CASE VectorPushBack(v)
  <2>1. PICK w : /\ Argument(w, Size(v)) \/ w = NullArg
                 /\ \/ Full(v) /\ Grows(v, Size(v), w)
                    \/ ~ Full(v) /\ Appends(v, w)
    BY <1>3, PushBackOne
  <2>2. Size(v) \in 0..Size(v)
    BY <1>1
  <2> QED
    BY <2>1, <2>2, InsertOneKeeps
<1>4. CASE VectorInsert(v)
  <2>1. PICK i \in 0..Size(v), w \in Args(v) \cup {NullArg} :
          \/ \/ Full(v) /\ Grows(v, i, w)
             \/ ~Full(v) /\ i = Size(v) /\ Appends(v, w)
             \/ /\ ~Full(v) /\ i < Size(v) /\ w # NullArg
                /\ Stays(v, Shifted(Cells(v), i, Size(v), w), Size(v) + 1)
          \/ Crashes
    BY <1>4 DEF VectorInsert
  <2>2. Argument(w, Size(v)) \/ w = NullArg
    BY <2>1, ArgsAreArguments
  <2>3. CASE Crashes
    BY <2>3, UnchangedStorage DEF Crashes
  <2>4. CASE ~ Crashes
    BY <2>1, <2>2, <2>4, InsertOneKeeps
  <2> QED
    BY <2>3, <2>4
<1>5. CASE VectorInsert1(v)
  <2>1. PICK i \in 0..Size(v), n \in 0..Room, w \in Args(v) : InsertMany(v, i, n, w)
    BY <1>5 DEF VectorInsert1
  <2>2. Argument(w, Size(v)) /\ n \in Nat
    BY <2>1, ArgsAreArguments
  <2> QED
    BY <2>1, <2>2, InsertManyKeeps
<1>6. CASE VectorErase(v)
  <2>1. PICK i \in 0..(Size(v) - 1) : Erases(v, i, i + 1)
    BY <1>6 DEF VectorErase
  <2>2. i \in 0..Size(v) /\ i + 1 \in i..Size(v)
    BY <1>1, <2>1
  <2> QED
    BY <2>1, <2>2, ErasesKeeps
<1>7. CASE VectorErase2(v)
  <2>1. PICK i \in 0..Size(v), j \in 0..Size(v) : i <= j /\ Erases(v, i, j)
    BY <1>7 DEF VectorErase2
  <2>2. j \in i..Size(v)
    BY <1>1, <2>1
  <2> QED
    BY <2>1, <2>2, ErasesKeeps
<1>8. CASE VectorClear(v)
  <2>1. Erases(v, 0, Size(v))
    BY <1>8 DEF VectorClear
  <2>2. 0 \in 0..Size(v) /\ Size(v) \in 0..Size(v)
    BY <1>1
  <2> QED
    BY <2>1, <2>2, ErasesKeeps
<1>9. CASE VectorPopBack(v)
  <2>1. Stays(v, Cells(v), Size(v) - 1) /\ Size(v) > 0
    BY <1>9 DEF VectorPopBack
  <2>2. Size(v) - 1 \in 0..Size(v)
    BY <1>1, <2>1
  <2> QED
    BY <2>1, <2>2, UnchangedKeeps
<1>10. CASE VectorResize1(v)
  <2>1. PICK n \in 0..(Size(v) + Room), w \in Args(v) :
          IF n < Size(v) THEN Erases(v, n, Size(v)) ELSE InsertMany(v, Size(v), n - Size(v), w)
    BY <1>10 DEF VectorResize1
  <2>2. CASE n < Size(v)
    <3>1. n \in 0..Size(v) /\ Size(v) \in n..Size(v)
      BY <1>1, <2>1, <2>2
    <3> QED
      BY <2>1, <2>2, <3>1, ErasesKeeps
  <2>3. CASE ~ n < Size(v)
    <3>1. Argument(w, Size(v)) /\ n - Size(v) \in Nat /\ Size(v) \in 0..Size(v)
      BY <1>1, <2>1, <2>3, ArgsAreArguments
    <3> QED
      BY <2>1, <2>3, <3>1, InsertManyKeeps
  <2> QED
    BY <2>2, <2>3
<1>11. CASE VectorResize(v)
  <2>1. PICK n \in 0..(Size(v) + Room) :
          IF n > Size(v) /\ n <= Cap(v) THEN Crashes
          ELSE IF n < Size(v) THEN Erases(v, n, Size(v))
          ELSE InsertMany(v, Size(v), n - Size(v), NullArg)
    BY <1>11 DEF VectorResize
  <2>2. CASE n > Size(v) /\ n <= Cap(v)
    <3>1. Crashes
      BY <2>1, <2>2
    <3> QED
      BY <3>1, UnchangedStorage DEF Crashes
  <2>3. CASE n < Size(v)
    <3>1. n \in 0..Size(v) /\ Size(v) \in n..Size(v) /\ ~ n > Size(v)
      BY <1>1, <2>1, <2>3
    <3> QED
      BY <2>1, <2>3, <3>1, ErasesKeeps
  <2>4. CASE ~ n < Size(v) /\ ~ (n > Size(v) /\ n <= Cap(v))
    <3>1. PICK k \in Nat : k = n - Size(v)
      BY <1>1, <2>1, <2>4
    <3>2. k = 0 \/ Size(v) + k > Cap(v)
      BY <1>1, <2>1, <2>4, <3>1
    <3>3. InsertMany(v, Size(v), k, NullArg) /\ Size(v) \in 0..Size(v)
      BY <1>1, <2>1, <2>4, <3>1
    <3> QED
      BY <3>2, <3>3, InsertManyKeeps
  <2> QED
    BY <2>2, <2>3, <2>4
<1>12. CASE VectorAt(v)
  <2>1. UNCHANGED <<mem, live, vec>>
    BY <1>12 DEF VectorAt
  <2> QED
    BY <2>1, UnchangedStorage
<1> QED
  BY <1>2, <1>3, <1>4, <1>5, <1>6, <1>7, <1>8, <1>9, <1>10, <1>11, <1>12

LEMMA NextKeeps == StorageInv /\ [Next]_vars => StorageInv'
<1> SUFFICES ASSUME StorageInv, [Next]_vars PROVE StorageInv'
  OBVIOUS
<1>1. CASE \E v \in Vectors : VectorInit(v)
  BY <1>1, InitKeeps
<1>2. CASE \E v \in Vectors : VectorInitRoom(v)
  BY <1>2, InitRoomKeeps
<1>3. CASE \E v \in Alive : VectorDestroy(v)
  BY <1>3, DestroyKeeps
<1>4. CASE \E v \in Alive : \E o \in Alive \ {v} : VectorSwap(v, o)
  BY <1>4, SwapKeeps
<1>5. CASE \E v \in Alive :
             \/ VectorReserve(v) \/ VectorPushBack(v) \/ VectorInsert(v) \/ VectorInsert1(v)
             \/ VectorErase(v) \/ VectorErase2(v) \/ VectorClear(v) \/ VectorPopBack(v)
             \/ VectorResize1(v) \/ VectorResize(v) \/ VectorAt(v)
  BY <1>5, EveryCallKeeps
<1>6. CASE UNCHANGED vars
  BY <1>6, UnchangedStorage DEF vars
<1> QED
  BY <1>1, <1>2, <1>3, <1>4, <1>5, <1>6 DEF Next

(* Every vector has its block and every block its vector, for good.        *)
THEOREM StorageInvAlways == Spec => []StorageInv
BY InitStorage, NextKeeps, PTL DEF Spec

LEMMA StorageFollows == StorageInv => StorageOwned
<1> SUFFICES ASSUME StorageInv PROVE StorageOwned
  OBVIOUS
<1>1. Owned(mem, vec, live) /\ Alive = {v \in Vectors : vec[v] # Gone}
  BY DEF StorageInv, Alive
<1>2. \A v \in Alive : Size(v) <= Cap(v)
  BY <1>1 DEF Owned, Size, Cap
<1>3. \A v \in Alive : DOMAIN Cells(v) = 0..(Cap(v) - 1)
  BY <1>1 DEF Owned, Cells, Cap, CellsOf
<1>4. \A v, o \in Alive : v # o /\ vec[v].start = vec[o].start => vec[v].start = Null
  BY <1>1 DEF Owned
<1>5. live = {vec[v].start : v \in Alive} \ {Null}
  BY <1>1 DEF Owned
<1> QED
  BY <1>2, <1>3, <1>4, <1>5 DEF StorageOwned

(* Whatever calls are made, every vector has a block of its own with room  *)
(* for what it holds, and nothing else is allocated.                       *)
THEOREM StorageIsOwned == Spec => []StorageOwned
BY StorageInvAlways, StorageFollows, PTL

-----------------------------------------------------------------------------
(***************************************************************************)
(* The cells in use as a sequence, and what ValueArrays does to it.        *)
(***************************************************************************)
InOrder(c, n) == [k \in 1..n |-> c[k - 1]]

(* Two sequences joined, place by place.                                   *)
IsJoinOf(f, a, b) ==
  /\ f \in Seq(Held) /\ Len(f) = Len(a) + Len(b)
  /\ f \in [1..(Len(a) + Len(b)) -> Held]
  /\ \A k \in 1..(Len(a) + Len(b)) : f[k] = IF k <= Len(a) THEN a[k] ELSE b[k - Len(a)]

LEMMA JoinedSeq ==
  ASSUME NEW a \in Seq(Held), NEW b \in Seq(Held)
  PROVE  IsJoinOf(a \o b, a, b)
<1>1. PICK f : f = a \o b
  OBVIOUS
<1>2. /\ f \in Seq(Held) /\ Len(f) = Len(a) + Len(b)
      /\ \A k \in 1..(Len(a) + Len(b)) : f[k] = IF k <= Len(a) THEN a[k] ELSE b[k - Len(a)]
  BY <1>1, ConcatProperties
<1>3. f \in [1..(Len(a) + Len(b)) -> Held]
  BY <1>2, LenProperties
<1> QED
  BY <1>1, <1>2, <1>3 DEF IsJoinOf

LEMMA InOrderIsSeq ==
  ASSUME NEW cap \in Nat, NEW c \in CellsOf(cap), NEW n \in 0..cap
  PROVE  /\ InOrder(c, n) \in Seq(Held)
         /\ Len(InOrder(c, n)) = n
         /\ \A k \in 1..n : InOrder(c, n)[k] = c[k - 1]
<1>1. \A k \in 1..n : k - 1 \in 0..(cap - 1)
  OBVIOUS
<1>2. \A k \in 1..n : c[k - 1] \in Held
  BY <1>1 DEF CellsOf
<1> QED
  BY <1>2 DEF InOrder

LEMMA KeptInOrder ==
  ASSUME NEW s \in Nat, NEW c, NEW d, Keeps(c, d, s)
  PROVE  InOrder(c, s) = InOrder(d, s)
<1>1. \A k \in 1..s : k - 1 \in 0..(s - 1)
  OBVIOUS
<1> QED
  BY <1>1 DEF Keeps, InOrder

LEMMA FirstInOrder ==
  ASSUME NEW cap \in Nat, NEW c \in CellsOf(cap), NEW n \in 0..cap, NEW i \in 0..n
  PROVE  Abstract!First(InOrder(c, n), i) = InOrder(c, i)
<1>1. PICK s : s = InOrder(c, n)
  OBVIOUS
<1>2. s \in Seq(Held) /\ Len(s) = n /\ \A k \in 1..n : s[k] = c[k - 1]
  BY <1>1, InOrderIsSeq
<1>3. /\ SubSeq(s, 1, i) \in Seq(Held) /\ Len(SubSeq(s, 1, i)) = i
      /\ \A k \in 1..i : SubSeq(s, 1, i)[k] = s[k]
  BY <1>2
<1>4. SubSeq(s, 1, i) = [k \in 1..i |-> c[k - 1]]
  BY <1>2, <1>3
<1> QED
  BY <1>1, <1>4 DEF Abstract!First, InOrder

LEMMA FromInOrder ==
  ASSUME NEW cap \in Nat, NEW c \in CellsOf(cap), NEW n \in 0..cap, NEW i \in 0..n
  PROVE  /\ Abstract!From(InOrder(c, n), i) \in Seq(Held)
         /\ Len(Abstract!From(InOrder(c, n), i)) = n - i
         /\ \A k \in 1..(n - i) : Abstract!From(InOrder(c, n), i)[k] = c[k + i - 1]
<1>1. PICK s : s = InOrder(c, n)
  OBVIOUS
<1>2. s \in Seq(Held) /\ Len(s) = n /\ \A k \in 1..n : s[k] = c[k - 1]
  BY <1>1, InOrderIsSeq
<1>3. /\ SubSeq(s, i + 1, n) \in Seq(Held) /\ Len(SubSeq(s, i + 1, n)) = n - i
      /\ \A k \in 1..(n - i) : SubSeq(s, i + 1, n)[k] = s[k + i]
  BY <1>2
<1>4. \A k \in 1..(n - i) : s[k + i] = c[k + i - 1]
  BY <1>2
<1>5. Abstract!From(s, i) = SubSeq(s, i + 1, n)
  BY <1>2 DEF Abstract!From
<1> QED
  BY <1>1, <1>3, <1>4, <1>5

LEMMA ErasedInOrder ==
  ASSUME NEW cap \in Nat, NEW c \in CellsOf(cap), NEW size \in 0..cap,
         NEW i \in 0..size, NEW j \in i..size, NEW d, Erased(d, c, i, j, size)
  PROVE  InOrder(d, size - (j - i)) = Abstract!Without(InOrder(c, size), i, j)
<1>1. PICK a, b : a = Abstract!First(InOrder(c, size), i) /\ b = Abstract!From(InOrder(c, size), j)
  OBVIOUS
<1>2. PICK n \in Nat : n = size - (j - i)
  OBVIOUS
<1>3. a \in Seq(Held) /\ Len(a) = i /\ \A k \in 1..i : a[k] = c[k - 1]
  <2>1. i \in 0..cap
    OBVIOUS
  <2>2. a = InOrder(c, i)
    BY <1>1, FirstInOrder
  <2> QED
    BY <2>1, <2>2, InOrderIsSeq
<1>4. b \in Seq(Held) /\ Len(b) = size - j /\ \A k \in 1..(size - j) : b[k] = c[k + j - 1]
  <2>1. j \in 0..size
    OBVIOUS
  <2> QED
    BY <1>1, <2>1, FromInOrder
<1>5. /\ a \o b \in [1..n -> Held]
      /\ \A k \in 1..n : (a \o b)[k] = IF k <= i THEN a[k] ELSE b[k - i]
  <2>1. n = i + (size - j)
    BY <1>2
  <2>2. IsJoinOf(a \o b, a, b)
    BY <1>3, <1>4, JoinedSeq
  <2> QED
    BY <1>3, <1>4, <2>1, <2>2 DEF IsJoinOf
<1>6. ASSUME NEW k \in 1..n PROVE (IF k <= i THEN a[k] ELSE b[k - i]) = d[k - 1]
  <2>1. k \in Nat /\ k >= 1 /\ k <= n /\ (k <= i \/ k > i)
    BY <1>2
  <2>2. d[k - 1] = IF k - 1 < i THEN c[k - 1] ELSE c[(k - 1) - i + j]
    BY <1>2 DEF Erased
  <2>3. CASE k <= i
    <3>1. k \in 1..i /\ k - 1 < i
      BY <2>1, <2>3
    <3> QED
      BY <1>3, <2>2, <2>3, <3>1
  <2>4. CASE k > i
    <3>1. k - i \in 1..(size - j) /\ (k - i) + j - 1 = (k - 1) - i + j
      BY <1>2, <2>1, <2>4
    <3>2. b[k - i] = c[(k - i) + j - 1]
      BY <1>4, <3>1
    <3> QED
      <4>1. ~ k <= i /\ ~ k - 1 < i
        BY <2>1, <2>4
      <4> QED
        BY <2>2, <3>1, <3>2, <4>1
  <2> QED
    BY <2>1, <2>3, <2>4
<1>7. a \o b = [k \in 1..n |-> d[k - 1]]
  BY <1>5, <1>6
<1> QED
  BY <1>1, <1>2, <1>7 DEF InOrder, Abstract!Without

LEMMA InsertedInOrder ==
  ASSUME NEW cap \in Nat, NEW c \in CellsOf(cap), NEW size \in 0..cap,
         NEW i \in 0..size, NEW n \in Nat, NEW x \in Held,
         NEW d, Inserts(d, c, i, n, size, x)
  PROVE  InOrder(d, size + n) = Abstract!With(InOrder(c, size), i, Abstract!Copies(n, x))
<1>1. PICK a, b : a = Abstract!First(InOrder(c, size), i) /\ b = Abstract!From(InOrder(c, size), i)
  OBVIOUS
<1>2. PICK e : e = [k \in 1..n |-> x]
  OBVIOUS
<1>3. a \in Seq(Held) /\ Len(a) = i /\ \A k \in 1..i : a[k] = c[k - 1]
  <2>1. i \in 0..cap
    OBVIOUS
  <2>2. a = InOrder(c, i)
    BY <1>1, FirstInOrder
  <2> QED
    BY <2>1, <2>2, InOrderIsSeq
<1>4. b \in Seq(Held) /\ Len(b) = size - i /\ \A k \in 1..(size - i) : b[k] = c[k + i - 1]
  BY <1>1, FromInOrder
<1>5. e \in Seq(Held) /\ Len(e) = n /\ \A k \in 1..n : e[k] = x
  BY <1>2
<1>6. PICK f : f = a \o e
  OBVIOUS
<1>7. /\ f \in Seq(Held) /\ Len(f) = i + n
      /\ \A k \in 1..(i + n) : f[k] = IF k <= i THEN c[k - 1] ELSE x
  <2>1. IsJoinOf(f, a, e)
    BY <1>3, <1>5, <1>6, JoinedSeq
  <2>2. /\ f \in Seq(Held) /\ Len(f) = i + n
        /\ \A k \in 1..(i + n) : f[k] = IF k <= i THEN a[k] ELSE e[k - i]
    BY <1>3, <1>5, <2>1 DEF IsJoinOf
  <2>3. ASSUME NEW k \in 1..(i + n) PROVE (IF k <= i THEN a[k] ELSE e[k - i]) = IF k <= i THEN c[k - 1] ELSE x
    <3>1. k <= i => k \in 1..i
      OBVIOUS
    <3>2. ~ k <= i => k - i \in 1..n
      OBVIOUS
    <3> QED
      BY <1>3, <1>5, <3>1, <3>2
  <2> QED
    BY <2>2, <2>3
<1>8. /\ f \o b \in [1..(size + n) -> Held]
      /\ \A k \in 1..(size + n) : (f \o b)[k] = IF k <= i + n THEN f[k] ELSE b[k - (i + n)]
  <2>1. size + n = (i + n) + (size - i)
    OBVIOUS
  <2>2. IsJoinOf(f \o b, f, b)
    BY <1>4, <1>7, JoinedSeq
  <2> QED
    BY <1>4, <1>7, <2>1, <2>2 DEF IsJoinOf
<1>9. ASSUME NEW k \in 1..(size + n) PROVE (IF k <= i + n THEN f[k] ELSE b[k - (i + n)]) = d[k - 1]
  <2>1. k \in Nat /\ k >= 1 /\ k <= size + n /\ (k <= i + n \/ k > i + n)
    OBVIOUS
  <2>2. d[k - 1] = IF k - 1 < i THEN c[k - 1] ELSE IF k - 1 < i + n THEN x ELSE c[(k - 1) - n]
    BY DEF Inserts
  <2>3. CASE k <= i + n
    <3>1. f[k] = IF k <= i THEN c[k - 1] ELSE x
      BY <1>7, <2>1, <2>3
    <3>2. (k - 1 < i <=> k <= i) /\ k - 1 < i + n
      BY <2>1, <2>3
    <3> QED
      BY <2>2, <2>3, <3>1, <3>2
  <2>4. CASE k > i + n
    <3>1. k - (i + n) \in 1..(size - i) /\ (k - (i + n)) + i - 1 = (k - 1) - n
      BY <2>1, <2>4
    <3>2. b[k - (i + n)] = c[(k - (i + n)) + i - 1]
      BY <1>4, <3>1
    <3>3. ~ k <= i + n /\ ~ k - 1 < i /\ ~ k - 1 < i + n
      BY <2>1, <2>4
    <3> QED
      BY <2>2, <3>1, <3>2, <3>3
  <2> QED
    BY <2>1, <2>3, <2>4
<1>10. f \o b = [k \in 1..(size + n) |-> d[k - 1]]
  BY <1>8, <1>9
<1> QED
  BY <1>1, <1>2, <1>6, <1>10 DEF InOrder, Abstract!With, Abstract!Copies

(* What the argument stands for.                                           *)
LEMMA MeantIsRead ==
  ASSUME NEW cap \in Nat, NEW c \in CellsOf(cap), NEW size \in 0..cap,
         NEW w, Argument(w, size), NEW y
  PROVE  Abstract!Meant(InOrder(c, size), w, y) = Read(c, w)
<1>1. CASE \E x \in Values : w = Outside(x)
  BY <1>1, VecAssumption DEF Outside, Read, Abstract!Meant
<1>2. CASE \E j \in 0..(size - 1) : w = Element(j)
  <2>1. PICK j \in 0..(size - 1) : w = Element(j)
    BY <1>2
  <2>2. w[1] = "element" /\ w[2] = j
    BY <2>1 DEF Element
  <2>3. j + 1 \in 1..size /\ (j + 1) - 1 = j
    OBVIOUS
  <2>4. InOrder(c, size)[j + 1] = c[j]
    BY <2>3, InOrderIsSeq
  <2> QED
    BY <2>2, <2>4 DEF Read, Abstract!Meant
<1> QED
  BY <1>1, <1>2 DEF Argument

LEMMA PutIsMeant ==
  ASSUME NEW cap \in Nat, NEW c \in CellsOf(cap), NEW size \in 0..cap,
         NEW w, Argument(w, size) \/ w = NullArg, NEW x, Put(x, w, c)
  PROVE  Abstract!Meant(InOrder(c, size), w, x) = x
<1>1. CASE w = NullArg
  BY <1>1 DEF NullArg, Outside, Abstract!Meant
<1>2. CASE w # NullArg
  BY <1>2, MeantIsRead DEF Put
<1> QED
  BY <1>1, <1>2

LEMMA FoundIsFound ==
  ASSUME NEW cap \in Nat, NEW c \in CellsOf(cap), NEW size \in 0..cap,
         NEW i \in 0..size, NEW n \in Nat, NEW w, Argument(w, size), NEW y
  PROVE  /\ Abstract!Found(InOrder(c, size), w, i, n, y) = FoundAt(c, w, i, n)
         /\ FoundAt(c, w, i, n) \in Held
<1>1. w[1] = "element" => w[2] \in 0..(size - 1)
  BY ArgumentIsRead
<1>2. CASE w[1] = "element" /\ w[2] >= i + n
  <2>1. PICK j \in 0..(size - 1) : j = w[2]
    BY <1>1, <1>2
  <2>2. j - n + 1 \in 1..size /\ (j - n + 1) - 1 = j - n /\ j - n \in 0..(cap - 1)
    BY <1>2, <2>1
  <2>3. InOrder(c, size)[j - n + 1] = c[j - n]
    BY <2>2, InOrderIsSeq
  <2>4. c[j - n] \in Held
    BY <2>2 DEF CellsOf
  <2> QED
    BY <1>2, <2>1, <2>3, <2>4 DEF FoundAt, Abstract!Found
<1>3. CASE ~ (w[1] = "element" /\ w[2] >= i + n)
  <2>1. Read(c, w) \in Held
    BY ArgumentIsRead
  <2> QED
    BY <1>3, <2>1, MeantIsRead DEF FoundAt, Abstract!Found
<1> QED
  BY <1>2, <1>3
-----------------------------------------------------------------------------
(***************************************************************************)
(* The vectors as ValueArrays sees them, and a call as one of its steps.   *)
(***************************************************************************)
Image(m, h) ==
  [v \in Vectors |-> IF h[v] # Gone THEN InOrder(m[h[v].start], h[v].size) ELSE Gone]

Rooms(h) == [v \in Vectors |-> IF h[v] # Gone THEN h[v].cap ELSE 0]

(* From the values i and the rooms r to j and q by a call on one vector.   *)
Performs(i, r, j, q, fn, v, x, y) ==
  /\ j = [i EXCEPT ![v] = Abstract!ContentAfter(i[v], r[v], fn, x, y)]
  /\ q = [r EXCEPT ![v] = Abstract!CapacityAfter(i[v], r[v], fn, x)]

LEMMA ImageIsContent ==
  /\ [v \in Vectors |-> IF v \in Alive THEN Contents(v) ELSE Gone] = Image(mem, vec)
  /\ [v \in Vectors |-> IF v \in Alive THEN Cap(v) ELSE 0] = Rooms(vec)
<1>1. \A v \in Vectors : v \in Alive <=> vec[v] # Gone
  BY DEF Alive
<1>2. \A v \in Vectors : Contents(v) = InOrder(mem[vec[v].start], vec[v].size)
  BY DEF Contents, InOrder, Cells, Size
<1>3. \A v \in Vectors : Cap(v) = vec[v].cap
  BY DEF Cap
<1> QED
  BY <1>1, <1>2, <1>3 DEF Image, Rooms

LEMMA ImageIsContentNext ==
  /\ [v \in Vectors |-> IF v \in Alive THEN Contents(v) ELSE Gone]' = Image(mem', vec')
  /\ [v \in Vectors |-> IF v \in Alive THEN Cap(v) ELSE 0]' = Rooms(vec')
<1>1. \A v \in Vectors : v \in Alive' <=> vec'[v] # Gone
  BY DEF Alive
<1>2. \A v \in Vectors : Contents(v)' = InOrder(mem'[vec'[v].start], vec'[v].size)
  BY DEF Contents, InOrder, Cells, Size
<1>3. \A v \in Vectors : Cap(v)' = vec'[v].cap
  BY DEF Cap
<1> QED
  BY <1>1, <1>2, <1>3 DEF Image, Rooms

(* What a call does to its vector shows in the picture, nothing else does. *)
LEMMA ImageChanges ==
  ASSUME NEW m, NEW h, NEW l, Owned(m, h, l), NEW v \in Vectors,
         NEW g, NEW e, Untouched(g, e, m, h, v)
  PROVE  \A o \in Vectors : o # v => Image(g, e)[o] = Image(m, h)[o] /\ Rooms(e)[o] = Rooms(h)[o]
<1> SUFFICES ASSUME NEW o \in Vectors, o # v
             PROVE  Image(g, e)[o] = Image(m, h)[o] /\ Rooms(e)[o] = Rooms(h)[o]
  OBVIOUS
<1>1. e[o] = h[o]
  BY DEF Untouched
<1>2. Rooms(e)[o] = Rooms(h)[o]
  BY <1>1 DEF Rooms
<1>3. CASE h[o] = Gone
  BY <1>1, <1>2, <1>3 DEF Image
<1>4. CASE h[o] # Gone /\ h[o].size > 0
  <2>1. g[h[o].start] = m[h[o].start]
    BY <1>4 DEF Untouched
  <2> QED
    BY <1>1, <1>2, <2>1 DEF Image
<1>5. CASE h[o] # Gone /\ ~ h[o].size > 0
  <2>1. h[o].size = 0
    BY <1>5, HeaderKnown
  <2>2. \A c, d : InOrder(c, 0) = InOrder(d, 0)
    BY DEF InOrder
  <2> QED
    BY <1>1, <1>2, <2>1, <2>2 DEF Image
<1> QED
  BY <1>3, <1>4, <1>5

LEMMA OneImageChanges ==
  ASSUME NEW m, NEW h, NEW l, Owned(m, h, l), NEW v \in Vectors,
         NEW g, NEW e, Untouched(g, e, m, h, v),
         NEW s, s = Image(g, e)[v], NEW n, n = Rooms(e)[v]
  PROVE  Sets(Image(g, e), Image(m, h), v, s) /\ Sets(Rooms(e), Rooms(h), v, n)
<1>1. \A o \in Vectors : o # v => Image(g, e)[o] = Image(m, h)[o] /\ Rooms(e)[o] = Rooms(h)[o]
  BY ImageChanges
<1>2. PICK i, j, r, q : i = Image(m, h) /\ j = Image(g, e) /\ r = Rooms(h) /\ q = Rooms(e)
  OBVIOUS
<1>3. /\ i = [o \in Vectors |-> i[o]] /\ j = [o \in Vectors |-> j[o]]
      /\ r = [o \in Vectors |-> r[o]] /\ q = [o \in Vectors |-> q[o]]
  BY <1>2 DEF Image, Rooms
<1>4. \A o \in Vectors : j[o] = [i EXCEPT ![v] = s][o] /\ q[o] = [r EXCEPT ![v] = n][o]
  BY <1>1, <1>2, <1>3
<1>5. j = [i EXCEPT ![v] = s] /\ q = [r EXCEPT ![v] = n]
  BY <1>3, <1>4
<1> QED
  BY <1>2, <1>5 DEF Sets

LEMMA NextIsPerform ==
  ASSUME NEW fn, fn # "swap", NEW v \in Vectors, NEW x, NEW ret,
         call' = [fn |-> fn, vec |-> v, args |-> x, ret |-> ret],
         NEW y \in Held, Performs(Image(mem, vec), Rooms(vec), Image(mem', vec'), Rooms(vec'), fn, v, x, y),
         ret = Abstract!Returned(Image(mem, vec)[v], fn, x)
  PROVE  Abstract!Next
<1>1. call'.fn = fn /\ call'.vec = v /\ call'.args = x /\ call'.ret = ret
  OBVIOUS
<1>2. PICK i, j, r, q : i = Image(mem, vec) /\ j = Image(mem', vec') /\ r = Rooms(vec) /\ q = Rooms(vec')
  OBVIOUS
<1>3. /\ [o \in Vectors |-> IF o \in Alive THEN Contents(o) ELSE Gone] = i
      /\ [o \in Vectors |-> IF o \in Alive THEN Cap(o) ELSE 0] = r
      /\ [o \in Vectors |-> IF o \in Alive THEN Contents(o) ELSE Gone]' = j
      /\ [o \in Vectors |-> IF o \in Alive THEN Cap(o) ELSE 0]' = q
  BY <1>2, ImageIsContent, ImageIsContentNext
<1>4. Performs(i, r, j, q, fn, v, x, y) /\ ret = Abstract!Returned(i[v], fn, x)
  BY <1>2
<1> QED
  BY <1>1, <1>3, <1>4 DEF Abstract!Next, Abstract!Perform, Performs, Held

(* From the values s and the room cap to t and n by a call returning ret.  *)
Answers(s, cap, t, n, ret, fn, x, y) ==
  /\ t = Abstract!ContentAfter(s, cap, fn, x, y)
  /\ n = Abstract!CapacityAfter(s, cap, fn, x)
  /\ ret = Abstract!Returned(s, fn, x)

LEMMA CallIsStep ==
  ASSUME StorageInv, NEW v \in Vectors, Untouched(mem', vec', mem, vec, v),
         NEW fn, fn # "swap", NEW x, NEW ret, NEW size, Called(fn, v, x, ret, size),
         NEW y \in Held,
         Answers(Image(mem, vec)[v], Rooms(vec)[v],
                 Image(mem', vec')[v], Rooms(vec')[v], ret, fn, x, y)
  PROVE  Abstract!Next
<1>1. Owned(mem, vec, live)
  BY DEF StorageInv
<1>2. PICK g, e : g = mem' /\ e = vec'
  OBVIOUS
<1>3. PICK t, n : t = Image(g, e)[v] /\ n = Rooms(e)[v]
  OBVIOUS
<1>4. Sets(Image(g, e), Image(mem, vec), v, t) /\ Sets(Rooms(e), Rooms(vec), v, n)
  BY <1>1, <1>2, <1>3, OneImageChanges
<1>5. Answers(Image(mem, vec)[v], Rooms(vec)[v], t, n, ret, fn, x, y)
  BY <1>2, <1>3
<1>6. Performs(Image(mem, vec), Rooms(vec), Image(g, e), Rooms(e), fn, v, x, y)
  BY <1>4, <1>5 DEF Sets, Performs, Answers
<1>7. Performs(Image(mem, vec), Rooms(vec), Image(mem', vec'), Rooms(vec'), fn, v, x, y)
  BY <1>2, <1>6
<1>8. ret = Abstract!Returned(Image(mem, vec)[v], fn, x)
  BY <1>5 DEF Answers
<1>9. call' = [fn |-> fn, vec |-> v, args |-> x, ret |-> ret]
  BY DEF Called
<1> QED
  BY <1>7, <1>8, <1>9, NextIsPerform

InVector(v) == InOrder(Cells(v), Size(v))

LEMMA InVectorKnown ==
  ASSUME StorageInv, NEW v \in Alive
  PROVE  /\ Image(mem, vec)[v] = InVector(v) /\ Rooms(vec)[v] = Cap(v)
         /\ Len(InVector(v)) = Size(v) /\ InVector(v) \in Seq(Held)
<1>1. v \in Vectors /\ vec[v] # Gone
  BY DEF Alive
<1>2. Image(mem, vec)[v] = InVector(v) /\ Rooms(vec)[v] = Cap(v)
  BY <1>1 DEF Image, Rooms, InVector, Cells, Size, Cap
<1>3. Cap(v) \in Nat /\ Size(v) \in 0..Cap(v) /\ Cells(v) \in CellsOf(Cap(v))
  BY AliveKnown
<1>4. Len(InVector(v)) = Size(v) /\ InVector(v) \in Seq(Held)
  BY <1>3, InOrderIsSeq DEF InVector
<1> QED
  BY <1>2, <1>4

LEMMA LivingCallIsStep ==
  ASSUME StorageInv, NEW v \in Alive, NEW c, NEW n, NEW s, Becomes(v, c, n, s),
         NEW fn, fn # "swap", NEW x, NEW ret, NEW size, Called(fn, v, x, ret, size),
         NEW y \in Held, Answers(InVector(v), Cap(v), InOrder(c, s), n, ret, fn, x, y)
  PROVE  Abstract!Next
<1>1. v \in Vectors /\ Untouched(mem', vec', mem, vec, v)
  BY DEF Alive, Becomes
<1>2. InOrder(c, s) = Image(mem', vec')[v] /\ n = Rooms(vec')[v]
  BY <1>1 DEF Becomes, Image, Rooms
<1>3. Answers(Image(mem, vec)[v], Rooms(vec)[v],
              Image(mem', vec')[v], Rooms(vec')[v], ret, fn, x, y)
  BY <1>2, InVectorKnown
<1> QED
  BY <1>1, <1>3, CallIsStep

(* What ValueArrays has each function do.                                  *)
LEMMA PushBackAnswers ==
  ASSUME NEW s, NEW cap, NEW w, NEW y
  PROVE  Answers(s, cap, Append(s, Abstract!Meant(s, w, y)),
                 IF Len(s) = cap THEN IF cap = 0 THEN 1 ELSE 2 * cap ELSE cap,
                 0, "push_back", <<w>>, y)
BY DEF Answers, Abstract!ContentAfter, Abstract!CapacityAfter, Abstract!Returned, Abstract!Doubled

LEMMA InsertAnswers ==
  ASSUME NEW s, NEW cap, NEW i, NEW w, NEW y
  PROVE  Answers(s, cap, Abstract!With(s, i, <<Abstract!InsertedOne(s, cap, i, w, y)>>),
                 IF Len(s) = cap THEN IF cap = 0 THEN 1 ELSE 2 * cap ELSE cap,
                 (i * SizeOfValue) * SizeOfValue, "insert", <<i, w>>, y)
BY DEF Answers, Abstract!ContentAfter, Abstract!CapacityAfter, Abstract!Returned, Abstract!Doubled

LEMMA Insert1Answers ==
  ASSUME NEW s, NEW cap, NEW i, NEW n, NEW w, NEW y
  PROVE  Answers(s, cap, Abstract!AfterInsert1(s, cap, i, n, w),
                 IF n = 0 THEN 2 * Len(s) ELSE cap, 0, "insert1", <<i, n, w>>, y)
BY DEF Answers, Abstract!ContentAfter, Abstract!CapacityAfter, Abstract!Returned,
       Abstract!RoomAfterInsert1

LEMMA EraseAnswers ==
  ASSUME NEW s, NEW cap, NEW i, NEW j, NEW y
  PROVE  /\ Answers(s, cap, Abstract!Without(s, i, i + 1), cap, i, "erase", <<i>>, y)
         /\ Answers(s, cap, Abstract!Without(s, i, j), cap, i, "erase2", <<i, j>>, y)
         /\ Answers(s, cap, <<>>, cap, 0, "clear", <<>>, y)
         /\ Answers(s, cap, Abstract!Front(s), cap, 0, "pop_back", <<>>, y)
BY DEF Answers, Abstract!ContentAfter, Abstract!CapacityAfter, Abstract!Returned

LEMMA Resize1Answers ==
  ASSUME NEW s, NEW cap, NEW n, NEW w, NEW y
  PROVE  Answers(s, cap,
                 IF n < Len(s) THEN Abstract!First(s, n)
                 ELSE Abstract!AfterInsert1(s, cap, Len(s), n - Len(s), w),
                 IF n = Len(s) THEN 2 * Len(s) ELSE cap, 0, "resize1", <<n, w>>, y)
BY DEF Answers, Abstract!ContentAfter, Abstract!CapacityAfter, Abstract!Returned

LEMMA ResizeAnswers ==
  ASSUME NEW s, NEW cap, NEW n, NEW y
  PROVE  Answers(s, cap, IF n < Len(s) THEN Abstract!First(s, n) ELSE s,
                 IF n = Len(s) THEN 2 * Len(s) ELSE cap, 0, "resize", <<n>>, y)
BY DEF Answers, Abstract!ContentAfter, Abstract!CapacityAfter, Abstract!Returned

LEMMA OtherAnswers ==
  ASSUME NEW s, NEW cap, NEW n, NEW y
  PROVE  /\ Answers(s, cap, s, Abstract!Max({cap, n}), 0, "reserve", <<n>>, y)
         /\ Answers(s, cap, s, cap, s[n + 1], "at", <<n>>, y)
         /\ Answers(s, cap, Gone, 0, 0, "destroy", <<>>, y)
         /\ Answers(s, cap, <<>>, 0, 0, "init", <<0, 0>>, y)
         /\ \A x : Answers(s, cap, <<>>, n, 0, "init1", <<n, x>>, y)
         /\ \A x : Answers(s, cap, Abstract!Copies(n, x), n, 0, "init2", <<n, x>>, y)
BY DEF Answers, Abstract!ContentAfter, Abstract!CapacityAfter, Abstract!Returned

(***************************************************************************)
(* The cells after a call, in order, are what ValueArrays says.            *)
(***************************************************************************)
LEMMA AppendedInOrder ==
  ASSUME NEW cap \in Nat, NEW c \in CellsOf(cap), NEW size \in 0..cap, NEW x \in Held,
         NEW d, Inserts(d, c, size, 1, size, x)
  PROVE  InOrder(d, size + 1) = Append(InOrder(c, size), x)
<1>1. PICK s : s = InOrder(c, size)
  OBVIOUS
<1>2. s \in Seq(Held) /\ Len(s) = size /\ \A k \in 1..size : s[k] = c[k - 1]
  BY <1>1, InOrderIsSeq
<1>3. /\ Append(s, x) \in Seq(Held) /\ Len(Append(s, x)) = size + 1
      /\ \A k \in 1..size : Append(s, x)[k] = s[k]
      /\ Append(s, x)[size + 1] = x
  BY <1>2
<1>4. Append(s, x) \in [1..(size + 1) -> Held]
  BY <1>3, LenProperties
<1>5. ASSUME NEW k \in 1..(size + 1) PROVE Append(s, x)[k] = d[k - 1]
  <2>1. d[k - 1] = IF k - 1 < size THEN c[k - 1] ELSE IF k - 1 < size + 1 THEN x ELSE c[(k - 1) - 1]
    BY DEF Inserts
  <2>2. CASE k = size + 1
    BY <1>3, <2>1, <2>2
  <2>3. CASE k # size + 1
    <3>1. k \in 1..size /\ k - 1 < size
      BY <2>3
    <3> QED
      BY <1>2, <1>3, <2>1, <3>1
  <2> QED
    BY <2>2, <2>3
<1>6. Append(s, x) = [k \in 1..(size + 1) |-> d[k - 1]]
  BY <1>4, <1>5
<1> QED
  BY <1>1, <1>6 DEF InOrder

LEMMA OneInsertedInOrder ==
  ASSUME NEW cap \in Nat, NEW c \in CellsOf(cap), NEW size \in 0..cap,
         NEW i \in 0..size, NEW x \in Held, NEW d, Inserts(d, c, i, 1, size, x)
  PROVE  InOrder(d, size + 1) = Abstract!With(InOrder(c, size), i, <<x>>)
<1>1. Abstract!Copies(1, x) = <<x>>
  BY DEF Abstract!Copies
<1> QED
  BY <1>1, InsertedInOrder

(* What one inserted value is: the argument, or what it has become.        *)
LEMMA InsertedIsFound ==
  ASSUME NEW cap \in Nat, NEW c \in CellsOf(cap), NEW size \in 0..cap,
         NEW i \in 0..size, NEW w, Argument(w, size) \/ w = NullArg, NEW x,
         IF size = cap \/ i = size THEN Put(x, w, c)
         ELSE w # NullArg /\ x = FoundAt(c, w, i, 1)
  PROVE  x \in Held /\ Abstract!InsertedOne(InOrder(c, size), cap, i, w, x) = x
<1>1. PICK s : s = InOrder(c, size)
  OBVIOUS
<1>2. Len(s) = size
  BY <1>1, InOrderIsSeq
<1>3. CASE size = cap
  <2>1. Put(x, w, c)
    BY <1>3
  <2>2. Abstract!Meant(s, w, x) = x
    BY <1>1, <2>1, PutIsMeant
  <2> QED
    BY <1>1, <1>2, <1>3, <2>1, <2>2 DEF Abstract!InsertedOne, Put
<1>4. CASE size # cap /\ i = size
  <2>1. Put(x, w, c)
    BY <1>4
  <2>2. Abstract!Meant(s, w, x) = x
    BY <1>1, <2>1, PutIsMeant
  <2>3. ~ (w[1] = "element" /\ w[2] >= i + 1)
    <3>1. CASE w = NullArg
      BY <3>1 DEF NullArg, Outside
    <3>2. CASE Argument(w, size)
      <4>1. w[1] = "element" => w[2] \in 0..(size - 1)
        BY <3>2, ArgumentIsRead
      <4> QED
        BY <1>4, <4>1
    <3> QED
      BY <3>1, <3>2
  <2>4. Abstract!Found(s, w, i, 1, x) = x
    BY <2>2, <2>3 DEF Abstract!Found
  <2> QED
    BY <1>1, <1>2, <1>4, <2>1, <2>4 DEF Abstract!InsertedOne, Put
<1>5. CASE size # cap /\ i # size
  <2>1. Argument(w, size) /\ x = FoundAt(c, w, i, 1)
    BY <1>5
  <2>2. Abstract!Found(s, w, i, 1, x) = x /\ x \in Held
    BY <1>1, <2>1, FoundIsFound
  <2> QED
    BY <1>1, <1>2, <1>5, <2>2 DEF Abstract!InsertedOne
<1> QED
  BY <1>3, <1>4, <1>5

(* vector_insert1 with what it inserts, none, or too many.                 *)
LEMMA ManyInsertedInOrder ==
  ASSUME NEW cap \in Nat, NEW c \in CellsOf(cap), NEW size \in 0..cap,
         NEW i \in 0..size, NEW n \in Nat, NEW w, Argument(w, size),
         size + n <= cap, NEW d,
         \/ n = 0 /\ Keeps(d, c, size)
         \/ n # 0 /\ Inserts(d, c, i, n, size, FoundAt(c, w, i, n))
  PROVE  InOrder(d, size + n) = Abstract!AfterInsert1(InOrder(c, size), cap, i, n, w)
<1>1. PICK x : x = FoundAt(c, w, i, n)
  OBVIOUS
<1>2. Abstract!Found(InOrder(c, size), w, i, n, Junk) = x /\ x \in Held
  BY <1>1, FoundIsFound
<1>3. Inserts(d, c, i, n, size, x)
  <2>1. CASE n = 0
    <3>1. ASSUME NEW k \in 0..(size + 0 - 1)
          PROVE  d[k] = IF k < i THEN c[k] ELSE IF k < i + 0 THEN x ELSE c[k - 0]
      <4>1. k \in 0..(size - 1) /\ k - 0 = k /\ i + 0 = i
        OBVIOUS
      <4>2. d[k] = c[k]
        BY <2>1, <4>1 DEF Keeps
      <4> QED
        BY <4>1, <4>2
    <3> QED
      BY <2>1, <3>1 DEF Inserts
  <2>2. CASE n # 0
    BY <1>1, <2>2
  <2> QED
    BY <2>1, <2>2
<1>4. InOrder(d, size + n) = Abstract!With(InOrder(c, size), i, Abstract!Copies(n, x))
  BY <1>2, <1>3, InsertedInOrder
<1>5. Len(InOrder(c, size)) = size
  BY InOrderIsSeq
<1> QED
  BY <1>2, <1>4, <1>5 DEF Abstract!AfterInsert1

LEMMA TooManyInOrder ==
  ASSUME NEW cap \in Nat, NEW c \in CellsOf(cap), NEW size \in 0..cap,
         NEW i, NEW n \in Nat, NEW w, size + n > cap, NEW d, Keeps(d, c, size)
  PROVE  InOrder(d, size) = Abstract!AfterInsert1(InOrder(c, size), cap, i, n, w)
<1>1. Len(InOrder(c, size)) = size
  BY InOrderIsSeq
<1>2. InOrder(d, size) = InOrder(c, size)
  BY KeptInOrder
<1> QED
  BY <1>1, <1>2 DEF Abstract!AfterInsert1

LEMMA CutInOrder ==
  ASSUME NEW cap \in Nat, NEW c \in CellsOf(cap), NEW size \in 0..cap, NEW i \in 0..size,
         NEW d, Erased(d, c, i, size, size)
  PROVE  InOrder(d, i) = Abstract!First(InOrder(c, size), i)
<1>1. \A k \in 0..(i - 1) : k \in 0..(size - (size - i) - 1) /\ k < i
  OBVIOUS
<1>2. Keeps(d, c, i)
  BY <1>1 DEF Keeps, Erased
<1> QED
  BY <1>2, KeptInOrder, FirstInOrder

(***************************************************************************)
(* Every call is a step of ValueArrays.                                    *)
(***************************************************************************)
LEMMA PushBackIsStep ==
  ASSUME StorageInv, NEW v \in Alive, VectorPushBack(v)
  PROVE  Abstract!Next
<1>1. Cap(v) \in Nat /\ Size(v) \in 0..Cap(v) /\ Cells(v) \in CellsOf(Cap(v))
  BY AliveKnown
<1>2. PICK w : /\ Argument(w, Size(v)) \/ w = NullArg
               /\ \/ Full(v) /\ Grows(v, Size(v), w)
                  \/ ~ Full(v) /\ Appends(v, w)
               /\ Called("push_back", v, <<w>>, 0, Size(v) + 1)
  BY PushBackOne
<1>3. Size(v) \in 0..Size(v)
  BY <1>1
<1>4. PICK c, x, n :
        /\ Becomes(v, c, n, Size(v) + 1)
        /\ n = IF Full(v) THEN IF Size(v) = 0 THEN 1 ELSE 2 * Size(v) ELSE Cap(v)
        /\ Inserts(c, Cells(v), Size(v), 1, Size(v), x)
        /\ Put(x, w, Cells(v))
  BY <1>2, <1>3, InsertOneKeeps
<1>5. x \in Held
  BY <1>4 DEF Put
<1>6. InOrder(c, Size(v) + 1) = Append(InVector(v), x)
  BY <1>1, <1>4, <1>5, AppendedInOrder DEF InVector
<1>7. Abstract!Meant(InVector(v), w, x) = x
  BY <1>1, <1>2, <1>4, PutIsMeant DEF InVector
<1>8. n = IF Len(InVector(v)) = Cap(v) THEN IF Cap(v) = 0 THEN 1 ELSE 2 * Cap(v) ELSE Cap(v)
  BY <1>4, InVectorKnown DEF Full
<1>9. Answers(InVector(v), Cap(v), InOrder(c, Size(v) + 1), n, 0, "push_back", <<w>>, x)
  BY <1>6, <1>7, <1>8, PushBackAnswers
<1> QED
  BY <1>2, <1>4, <1>5, <1>9, LivingCallIsStep

(* A call that ends the program shows nothing of it.                       *)
LEMMA CrashShowsNothing ==
  ASSUME UNCHANGED <<mem, vec, call>>
  PROVE  UNCHANGED <<[v \in Vectors |-> IF v \in Alive THEN Contents(v) ELSE Gone],
                     [v \in Vectors |-> IF v \in Alive THEN Cap(v) ELSE 0], call>>
<1>1. Image(mem', vec') = Image(mem, vec) /\ Rooms(vec') = Rooms(vec)
  OBVIOUS
<1> QED
  BY <1>1, ImageIsContent, ImageIsContentNext

LEMMA InsertIsStep ==
  ASSUME StorageInv, NEW v \in Alive, VectorInsert(v)
  PROVE  Abstract!Next \/ Crashes
<1>1. Cap(v) \in Nat /\ Size(v) \in 0..Cap(v) /\ Cells(v) \in CellsOf(Cap(v))
  BY AliveKnown
<1>2. SUFFICES ASSUME ~ Crashes PROVE Abstract!Next
  OBVIOUS
<1>3. PICK i \in 0..Size(v), w \in Args(v) \cup {NullArg} :
        /\ \/ Full(v) /\ Grows(v, i, w)
           \/ ~Full(v) /\ i = Size(v) /\ Appends(v, w)
           \/ /\ ~Full(v) /\ i < Size(v) /\ w # NullArg
              /\ Stays(v, Shifted(Cells(v), i, Size(v), w), Size(v) + 1)
        /\ Called("insert", v, <<i, w>>, ReturnedOffset(i), Size(v) + 1)
  BY <1>2 DEF VectorInsert
<1>4. Argument(w, Size(v)) \/ w = NullArg
  BY <1>3, ArgsAreArguments
<1>5. PICK c, x, n :
        /\ Becomes(v, c, n, Size(v) + 1)
        /\ n = IF Full(v) THEN IF Size(v) = 0 THEN 1 ELSE 2 * Size(v) ELSE Cap(v)
        /\ Inserts(c, Cells(v), i, 1, Size(v), x)
        /\ IF Full(v) \/ i = Size(v) THEN Put(x, w, Cells(v))
           ELSE x = FoundAt(Cells(v), w, i, 1)
  BY <1>3, <1>4, InsertOneKeeps
<1>6. Full(v) \/ i = Size(v) \/ w # NullArg
  BY <1>3
<1>7. IF Size(v) = Cap(v) \/ i = Size(v) THEN Put(x, w, Cells(v))
      ELSE w # NullArg /\ x = FoundAt(Cells(v), w, i, 1)
  BY <1>5, <1>6 DEF Full
<1>8. x \in Held /\ Abstract!InsertedOne(InVector(v), Cap(v), i, w, x) = x
  BY <1>1, <1>4, <1>7, InsertedIsFound DEF InVector
<1>9. InOrder(c, Size(v) + 1) = Abstract!With(InVector(v), i, <<x>>)
  BY <1>1, <1>5, <1>8, OneInsertedInOrder DEF InVector
<1>10. n = IF Len(InVector(v)) = Cap(v) THEN IF Cap(v) = 0 THEN 1 ELSE 2 * Cap(v) ELSE Cap(v)
  BY <1>5, InVectorKnown DEF Full
<1>11. ReturnedOffset(i) = (i * SizeOfValue) * SizeOfValue
  BY DEF ReturnedOffset
<1>12. Answers(InVector(v), Cap(v), InOrder(c, Size(v) + 1), n, ReturnedOffset(i), "insert", <<i, w>>, x)
  BY <1>8, <1>9, <1>10, <1>11, InsertAnswers
<1> QED
  BY <1>3, <1>5, <1>8, <1>12, LivingCallIsStep

(* What vector_insert1 and vector_resize1 leave behind.                    *)
LEMMA ManyInserted ==
  ASSUME StorageInv, NEW v \in Alive, NEW i \in 0..Size(v), NEW n \in Nat,
         NEW w, Argument(w, Size(v)), InsertMany(v, i, n, w)
  PROVE  \E c, s : /\ Becomes(v, c, IF n = 0 THEN 2 * Size(v) ELSE Cap(v), s)
                   /\ InOrder(c, s) = Abstract!AfterInsert1(InVector(v), Cap(v), i, n, w)
<1>1. Cap(v) \in Nat /\ Size(v) \in 0..Cap(v) /\ Cells(v) \in CellsOf(Cap(v))
  BY AliveKnown
<1>2. InsertsMany(v, i, n, w)
  BY InsertManyKeeps
<1>3. CASE n = 0
  <2>1. PICK c : Becomes(v, c, 2 * Size(v), Size(v)) /\ Keeps(c, Cells(v), Size(v))
    BY <1>2, <1>3 DEF InsertsMany
  <2>2. Size(v) + n = Size(v) /\ Size(v) + n <= Cap(v)
    BY <1>1, <1>3
  <2>3. InOrder(c, Size(v) + n) = Abstract!AfterInsert1(InVector(v), Cap(v), i, n, w)
    BY <1>1, <1>3, <2>1, <2>2, ManyInsertedInOrder DEF InVector
  <2> QED
    BY <1>3, <2>1, <2>2, <2>3
<1>4. CASE n # 0 /\ Size(v) + n <= Cap(v)
  <2>1. PICK c : /\ Becomes(v, c, Cap(v), Size(v) + n)
                 /\ Inserts(c, Cells(v), i, n, Size(v), FoundAt(Cells(v), w, i, n))
    BY <1>2, <1>4 DEF InsertsMany
  <2>2. InOrder(c, Size(v) + n) = Abstract!AfterInsert1(InVector(v), Cap(v), i, n, w)
    BY <1>1, <1>4, <2>1, ManyInsertedInOrder DEF InVector
  <2> QED
    BY <1>4, <2>1, <2>2
<1>5. CASE n # 0 /\ ~ Size(v) + n <= Cap(v)
  <2>1. PICK c : Becomes(v, c, Cap(v), Size(v)) /\ Keeps(c, Cells(v), Size(v))
    BY <1>2, <1>5 DEF InsertsMany
  <2>2. Size(v) + n > Cap(v)
    BY <1>1, <1>5
  <2>3. InOrder(c, Size(v)) = Abstract!AfterInsert1(InVector(v), Cap(v), i, n, w)
    BY <1>1, <2>1, <2>2, TooManyInOrder DEF InVector
  <2> QED
    BY <1>5, <2>1, <2>3
<1> QED
  BY <1>3, <1>4, <1>5

LEMMA Insert1IsStep ==
  ASSUME StorageInv, NEW v \in Alive, VectorInsert1(v)
  PROVE  Abstract!Next
<1>1. PICK i \in 0..Size(v), n \in 0..Room, w \in Args(v) :
        /\ InsertMany(v, i, n, w)
        /\ Called("insert1", v, <<i, n, w>>, 0, Size(v) + n)
  BY DEF VectorInsert1
<1>2. Argument(w, Size(v)) /\ n \in Nat
  BY <1>1, ArgsAreArguments
<1>3. PICK c, s : /\ Becomes(v, c, IF n = 0 THEN 2 * Size(v) ELSE Cap(v), s)
                  /\ InOrder(c, s) = Abstract!AfterInsert1(InVector(v), Cap(v), i, n, w)
  BY <1>1, <1>2, ManyInserted
<1>4. PICK m : m = IF n = 0 THEN 2 * Size(v) ELSE Cap(v)
  OBVIOUS
<1>5. m = IF n = 0 THEN 2 * Len(InVector(v)) ELSE Cap(v)
  BY <1>4, InVectorKnown
<1>6. Answers(InVector(v), Cap(v), InOrder(c, s), m, 0, "insert1", <<i, n, w>>, Junk)
  BY <1>3, <1>5, Insert1Answers
<1>7. Junk \in Held
  BY DEF Held
<1> QED
  BY <1>1, <1>3, <1>4, <1>6, <1>7, LivingCallIsStep

LEMMA EraseIsStep ==
  ASSUME StorageInv, NEW v \in Alive, VectorErase(v) \/ VectorErase2(v)
  PROVE  Abstract!Next
<1>1. Cap(v) \in Nat /\ Size(v) \in 0..Cap(v) /\ Cells(v) \in CellsOf(Cap(v)) /\ Junk \in Held
  BY AliveKnown DEF Held
<1>2. \E i \in 0..Size(v) : \E j \in i..Size(v), fn \in {"erase", "erase2"} : \E x :
        /\ Erases(v, i, j)
        /\ Called(fn, v, x, i, Size(v) - (j - i))
        /\ \/ fn = "erase" /\ x = <<i>> /\ j = i + 1
           \/ fn = "erase2" /\ x = <<i, j>>
  <2>1. CASE VectorErase(v)
    <3>1. PICK i \in 0..(Size(v) - 1) : Erases(v, i, i + 1) /\ Called("erase", v, <<i>>, i, Size(v) - 1)
      BY <2>1 DEF VectorErase
    <3>2. i \in 0..Size(v) /\ i + 1 \in i..Size(v) /\ (i + 1) - i = 1
      BY <1>1, <3>1
    <3> QED
      BY <3>1, <3>2
  <2>2. CASE VectorErase2(v)
    <3>1. PICK i \in 0..Size(v), j \in 0..Size(v) :
            i <= j /\ Erases(v, i, j) /\ Called("erase2", v, <<i, j>>, i, Size(v) - (j - i))
      BY <2>2 DEF VectorErase2
    <3>2. j \in i..Size(v)
      BY <1>1, <3>1
    <3> QED
      BY <3>1, <3>2
  <2> QED
    BY <2>1, <2>2
<1>3. PICK i \in 0..Size(v) : \E j \in i..Size(v), fn \in {"erase", "erase2"} : \E x :
        /\ Erases(v, i, j)
        /\ Called(fn, v, x, i, Size(v) - (j - i))
        /\ \/ fn = "erase" /\ x = <<i>> /\ j = i + 1
           \/ fn = "erase2" /\ x = <<i, j>>
  BY <1>2
<1>4. PICK j \in i..Size(v), fn \in {"erase", "erase2"} : \E x :
        /\ Erases(v, i, j)
        /\ Called(fn, v, x, i, Size(v) - (j - i))
        /\ \/ fn = "erase" /\ x = <<i>> /\ j = i + 1
           \/ fn = "erase2" /\ x = <<i, j>>
  BY <1>3
<1>5. PICK x :
        /\ Erases(v, i, j)
        /\ Called(fn, v, x, i, Size(v) - (j - i))
        /\ \/ fn = "erase" /\ x = <<i>> /\ j = i + 1
           \/ fn = "erase2" /\ x = <<i, j>>
  BY <1>4
<1>6. PICK c : Becomes(v, c, Cap(v), Size(v) - (j - i)) /\ Erased(c, Cells(v), i, j, Size(v))
  BY <1>5, ErasesKeeps
<1>7. InOrder(c, Size(v) - (j - i)) = Abstract!Without(InVector(v), i, j)
  BY <1>1, <1>6, ErasedInOrder DEF InVector
<1>8. Answers(InVector(v), Cap(v), InOrder(c, Size(v) - (j - i)), Cap(v), i, fn, x, Junk)
  BY <1>5, <1>7, EraseAnswers
<1>9. fn # "swap"
  BY <1>4
<1> QED
  BY <1>1, <1>5, <1>6, <1>8, <1>9, LivingCallIsStep

LEMMA ClearIsStep ==
  ASSUME StorageInv, NEW v \in Alive, VectorClear(v)
  PROVE  Abstract!Next
<1>1. Size(v) \in Nat /\ Size(v) - (Size(v) - 0) = 0 /\ Junk \in Held
  BY AliveKnown DEF Held
<1>2. Erases(v, 0, Size(v)) /\ Called("clear", v, <<>>, 0, 0)
  BY DEF VectorClear
<1>3. PICK c : Becomes(v, c, Cap(v), 0)
  <2>1. 0 \in 0..Size(v) /\ Size(v) \in 0..Size(v)
    BY <1>1
  <2> QED
    BY <1>1, <1>2, <2>1, ErasesKeeps
<1>4. InOrder(c, 0) = <<>>
  BY DEF InOrder
<1>5. Answers(InVector(v), Cap(v), InOrder(c, 0), Cap(v), 0, "clear", <<>>, Junk)
  BY <1>4, EraseAnswers
<1> QED
  BY <1>1, <1>2, <1>3, <1>5, LivingCallIsStep

LEMMA PopBackIsStep ==
  ASSUME StorageInv, NEW v \in Alive, VectorPopBack(v)
  PROVE  Abstract!Next
<1>1. /\ Cap(v) \in Nat /\ Size(v) \in 0..Cap(v) /\ Cells(v) \in CellsOf(Cap(v))
      /\ Size(v) > 0 /\ Junk \in Held
  BY AliveKnown DEF Held, VectorPopBack
<1>2. Stays(v, Cells(v), Size(v) - 1) /\ Called("pop_back", v, <<>>, 0, Size(v) - 1)
  BY DEF VectorPopBack
<1>3. PICK n \in 0..Size(v) : n = Size(v) - 1
  BY <1>1
<1>4. PICK c : Becomes(v, c, Cap(v), n) /\ Keeps(c, Cells(v), n)
  BY <1>2, <1>3, UnchangedKeeps
<1>5. InOrder(c, n) = Abstract!First(InVector(v), n)
  BY <1>1, <1>3, <1>4, KeptInOrder, FirstInOrder DEF InVector
<1>6. Abstract!Front(InVector(v)) = Abstract!First(InVector(v), n)
  BY <1>3, InVectorKnown DEF Abstract!Front, Abstract!First
<1>7. Answers(InVector(v), Cap(v), InOrder(c, n), Cap(v), 0, "pop_back", <<>>, Junk)
  BY <1>5, <1>6, EraseAnswers
<1> QED
  BY <1>1, <1>2, <1>4, <1>7, LivingCallIsStep

(* Cutting a vector to its first n elements.                               *)
LEMMA CutKept ==
  ASSUME StorageInv, NEW v \in Alive, NEW n \in 0..Size(v), Erases(v, n, Size(v))
  PROVE  \E c : Becomes(v, c, Cap(v), n) /\ InOrder(c, n) = Abstract!First(InVector(v), n)
<1>1. Cap(v) \in Nat /\ Size(v) \in 0..Cap(v) /\ Cells(v) \in CellsOf(Cap(v))
  BY AliveKnown
<1>2. Size(v) \in n..Size(v) /\ Size(v) - (Size(v) - n) = n
  BY <1>1
<1>3. PICK c : Becomes(v, c, Cap(v), n) /\ Erased(c, Cells(v), n, Size(v), Size(v))
  BY <1>2, ErasesKeeps
<1>4. InOrder(c, n) = Abstract!First(InVector(v), n)
  BY <1>1, <1>3, CutInOrder DEF InVector
<1> QED
  BY <1>3, <1>4

LEMMA Resize1IsStep ==
  ASSUME StorageInv, NEW v \in Alive, VectorResize1(v)
  PROVE  Abstract!Next
<1>1. Size(v) \in Nat /\ Len(InVector(v)) = Size(v) /\ Junk \in Held
  BY AliveKnown, InVectorKnown DEF Held
<1>2. PICK n \in 0..(Size(v) + Room), w \in Args(v) :
        /\ IF n < Size(v) THEN Erases(v, n, Size(v)) ELSE InsertMany(v, Size(v), n - Size(v), w)
        /\ Called("resize1", v, <<n, w>>, 0, n)
  BY DEF VectorResize1
<1>3. Argument(w, Size(v)) /\ n \in Nat
  BY <1>2, ArgsAreArguments
<1>4. \E c, s : /\ Becomes(v, c, IF n = Size(v) THEN 2 * Size(v) ELSE Cap(v), s)
                /\ InOrder(c, s) = IF n < Size(v) THEN Abstract!First(InVector(v), n)
                                   ELSE Abstract!AfterInsert1(InVector(v), Cap(v), Size(v), n - Size(v), w)
  <2>1. CASE n < Size(v)
    <3>1. n \in 0..Size(v) /\ n # Size(v)
      BY <1>1, <1>3, <2>1
    <3>2. \E c : Becomes(v, c, Cap(v), n) /\ InOrder(c, n) = Abstract!First(InVector(v), n)
      BY <1>2, <2>1, <3>1, CutKept
    <3> QED
      BY <2>1, <3>1, <3>2
  <2>2. CASE ~ n < Size(v)
    <3>1. PICK k \in Nat : k = n - Size(v)
      BY <1>1, <1>3, <2>2
    <3>2. Size(v) \in 0..Size(v) /\ (k = 0 <=> n = Size(v))
      BY <1>1, <1>3, <3>1
    <3>3. InsertMany(v, Size(v), k, w)
      BY <1>2, <2>2, <3>1
    <3>4. \E c, s : /\ Becomes(v, c, IF k = 0 THEN 2 * Size(v) ELSE Cap(v), s)
                    /\ InOrder(c, s) = Abstract!AfterInsert1(InVector(v), Cap(v), Size(v), k, w)
      BY <1>3, <3>2, <3>3, ManyInserted
    <3> QED
      BY <2>2, <3>1, <3>2, <3>4
  <2> QED
    BY <2>1, <2>2
<1>5. PICK m : m = IF n = Size(v) THEN 2 * Size(v) ELSE Cap(v)
  OBVIOUS
<1>6. PICK c, s : /\ Becomes(v, c, m, s)
                  /\ InOrder(c, s) = IF n < Size(v) THEN Abstract!First(InVector(v), n)
                                     ELSE Abstract!AfterInsert1(InVector(v), Cap(v), Size(v), n - Size(v), w)
  BY <1>4, <1>5
<1>7. Answers(InVector(v), Cap(v), InOrder(c, s), m, 0, "resize1", <<n, w>>, Junk)
  BY <1>1, <1>5, <1>6, Resize1Answers
<1> QED
  BY <1>1, <1>2, <1>6, <1>7, LivingCallIsStep

(* vector_resize never finds room for the NULL it passes.                  *)
LEMMA ResizeIsStep ==
  ASSUME StorageInv, NEW v \in Alive, VectorResize(v)
  PROVE  Abstract!Next \/ Crashes
<1>1. /\ Cap(v) \in Nat /\ Size(v) \in 0..Cap(v) /\ Cells(v) \in CellsOf(Cap(v))
      /\ Size(v) \in Nat /\ Len(InVector(v)) = Size(v) /\ Junk \in Held
  BY AliveKnown, InVectorKnown DEF Held
<1>2. PICK n \in 0..(Size(v) + Room) :
        IF n > Size(v) /\ n <= Cap(v) THEN Crashes
        ELSE /\ IF n < Size(v) THEN Erases(v, n, Size(v))
                ELSE InsertMany(v, Size(v), n - Size(v), NullArg)
             /\ Called("resize", v, <<n>>, 0, n)
  BY DEF VectorResize
<1>3. SUFFICES ASSUME ~ (n > Size(v) /\ n <= Cap(v)) PROVE Abstract!Next
  BY <1>2
<1>4. /\ IF n < Size(v) THEN Erases(v, n, Size(v))
         ELSE InsertMany(v, Size(v), n - Size(v), NullArg)
      /\ Called("resize", v, <<n>>, 0, n)
  BY <1>2, <1>3
<1>5. \E c, s : /\ Becomes(v, c, IF n = Size(v) THEN 2 * Size(v) ELSE Cap(v), s)
                /\ InOrder(c, s) = IF n < Size(v) THEN Abstract!First(InVector(v), n) ELSE InVector(v)
  <2>1. CASE n < Size(v)
    <3>1. n \in 0..Size(v) /\ n # Size(v)
      BY <1>1, <1>2, <2>1
    <3>2. \E c : Becomes(v, c, Cap(v), n) /\ InOrder(c, n) = Abstract!First(InVector(v), n)
      BY <1>4, <2>1, <3>1, CutKept
    <3> QED
      BY <2>1, <3>1, <3>2
  <2>2. CASE ~ n < Size(v)
    <3>1. PICK k \in Nat : k = n - Size(v)
      BY <1>1, <1>2, <2>2
    <3>2. Size(v) \in 0..Size(v) /\ (k = 0 <=> n = Size(v)) /\ (k = 0 \/ Size(v) + k > Cap(v))
      BY <1>1, <1>2, <1>3, <3>1
    <3>3. InsertMany(v, Size(v), k, NullArg)
      BY <1>4, <2>2, <3>1
    <3>4. InsertsMany(v, Size(v), k, NullArg)
      BY <3>2, <3>3, InsertManyKeeps
    <3>5. ~ (k # 0 /\ Size(v) + k <= Cap(v))
      BY <1>1, <3>2
    <3>6. \E c : /\ Becomes(v, c, IF k = 0 THEN 2 * Size(v) ELSE Cap(v), Size(v))
                 /\ Keeps(c, Cells(v), Size(v))
      BY <3>4, <3>5 DEF InsertsMany
    <3>7. \A c : Keeps(c, Cells(v), Size(v)) => InOrder(c, Size(v)) = InVector(v)
      BY <1>1, KeptInOrder DEF InVector
    <3> QED
      BY <2>2, <3>2, <3>6, <3>7
  <2> QED
    BY <2>1, <2>2
<1>6. PICK m : m = IF n = Size(v) THEN 2 * Size(v) ELSE Cap(v)
  OBVIOUS
<1>7. PICK c, s : /\ Becomes(v, c, m, s)
                  /\ InOrder(c, s) = IF n < Size(v) THEN Abstract!First(InVector(v), n) ELSE InVector(v)
  BY <1>5, <1>6
<1>8. Answers(InVector(v), Cap(v), InOrder(c, s), m, 0, "resize", <<n>>, Junk)
  BY <1>1, <1>6, <1>7, ResizeAnswers
<1> QED
  BY <1>1, <1>4, <1>7, <1>8, LivingCallIsStep

LEMMA ReserveIsStep ==
  ASSUME StorageInv, NEW v \in Alive, VectorReserve(v)
  PROVE  Abstract!Next
<1>1. /\ Cap(v) \in Nat /\ Size(v) \in 0..Cap(v) /\ Cells(v) \in CellsOf(Cap(v))
      /\ Size(v) \in Nat /\ Junk \in Held
  BY AliveKnown DEF Held
<1>2. PICK n \in 0..MaxCapacity :
        /\ Called("reserve", v, <<n>>, 0, Size(v))
        /\ \/ /\ Cap(v) < n
              /\ Moves(v, CopyOver(Cells(v), 0, Size(v), Malloced(n), 0), Size(v), n)
           \/ /\ Cap(v) >= n
              /\ Stays(v, Cells(v), Size(v))
  BY DEF VectorReserve
<1>3. n \in Nat
  BY <1>2
<1>4. PICK c : Becomes(v, c, IF Cap(v) < n THEN n ELSE Cap(v), Size(v)) /\ Keeps(c, Cells(v), Size(v))
  BY <1>2, <1>3, ReserveKeeps
<1>5. InOrder(c, Size(v)) = InVector(v)
  BY <1>1, <1>4, KeptInOrder DEF InVector
<1>6. (IF Cap(v) < n THEN n ELSE Cap(v)) = Abstract!Max({Cap(v), n})
  <2>1. PICK r \in Nat : r = Cap(v)
    BY <1>1
  <2>2. PICK m \in {r, n} : m = IF r < n THEN n ELSE r
    OBVIOUS
  <2>3. m \in {r, n} /\ \A k \in {r, n} : m >= k
    BY <1>3, <2>1, <2>2
  <2>4. \A k \in {r, n} : (\A o \in {r, n} : k >= o) => k = m
    BY <1>3, <2>1, <2>3
  <2>5. Abstract!Max({r, n}) = m
    BY <2>3, <2>4 DEF Abstract!Max
  <2> QED
    BY <2>1, <2>2, <2>5
<1>7. PICK m : m = IF Cap(v) < n THEN n ELSE Cap(v)
  OBVIOUS
<1>8. Answers(InVector(v), Cap(v), InOrder(c, Size(v)), m, 0, "reserve", <<n>>, Junk)
  BY <1>5, <1>6, <1>7, OtherAnswers
<1> QED
  BY <1>1, <1>2, <1>4, <1>7, <1>8, LivingCallIsStep

(* vector_at returns the element, or its assertion ends the program.       *)
LEMMA AtIsStep ==
  ASSUME StorageInv, NEW v \in Alive, VectorAt(v)
  PROVE  Abstract!Next \/ UNCHANGED <<mem, vec, call>>
<1>1. /\ Cap(v) \in Nat /\ Size(v) \in 0..Cap(v) /\ Cells(v) \in CellsOf(Cap(v))
      /\ Junk \in Held /\ v \in Vectors /\ vec[v] # Gone
  BY AliveKnown DEF Held
<1>2. SUFFICES ASSUME ~ UNCHANGED <<mem, vec, call>> PROVE Abstract!Next
  OBVIOUS
<1>3. PICK pos \in 0..(expected[v] - 1) :
        /\ pos < Size(v)
        /\ Called("at", v, <<pos>>, Cells(v)[pos], expected[v])
        /\ UNCHANGED <<mem, live, vec, outcome>>
  BY <1>2 DEF VectorAt
<1>4. Becomes(v, Cells(v), Cap(v), Size(v))
  BY <1>1, <1>3 DEF Becomes, Untouched, Cells, Cap, Size
<1>5. pos \in Nat /\ pos + 1 \in 1..Size(v) /\ (pos + 1) - 1 = pos
  BY <1>1, <1>3
<1>6. InVector(v)[pos + 1] = Cells(v)[pos]
  BY <1>1, <1>5, InOrderIsSeq DEF InVector
<1>7. InOrder(Cells(v), Size(v)) = InVector(v)
  BY DEF InVector
<1>8. Answers(InVector(v), Cap(v), InOrder(Cells(v), Size(v)), Cap(v), Cells(v)[pos], "at", <<pos>>, Junk)
  BY <1>6, <1>7, OtherAnswers
<1> QED
  BY <1>1, <1>3, <1>4, <1>8, LivingCallIsStep

LEMMA DestroyIsStep ==
  ASSUME StorageInv, NEW v \in Alive, VectorDestroy(v)
  PROVE  Abstract!Next
<1>1. v \in Vectors /\ Junk \in Held
  BY DEF Alive, Held
<1>2. vec'[v] = Gone /\ Untouched(mem', vec', mem, vec, v)
  BY DestroyKeeps
<1>3. Image(mem', vec')[v] = Gone /\ Rooms(vec')[v] = 0
  BY <1>1, <1>2 DEF Image, Rooms
<1>4. Called("destroy", v, <<>>, 0, 0)
  BY DEF VectorDestroy
<1>5. Answers(Image(mem, vec)[v], Rooms(vec)[v],
              Image(mem', vec')[v], Rooms(vec')[v], 0, "destroy", <<>>, Junk)
  BY <1>3, OtherAnswers
<1> QED
  BY <1>1, <1>2, <1>4, <1>5, CallIsStep

LEMMA InitIsStep ==
  ASSUME StorageInv, NEW v \in Vectors, VectorInit(v)
  PROVE  Abstract!Next
<1>1. Junk \in Held
  BY DEF Held
<1>2. PICK c : Becomes(v, c, 0, 0)
  BY InitKeeps
<1>3. Called("init", v, <<0, 0>>, 0, 0)
  BY DEF VectorInit
<1>4. InOrder(c, 0) = <<>>
  BY DEF InOrder
<1>5. Image(mem', vec')[v] = <<>> /\ Rooms(vec')[v] = 0 /\ Untouched(mem', vec', mem, vec, v)
  BY <1>2, <1>4 DEF Becomes, Image, Rooms
<1>6. Answers(Image(mem, vec)[v], Rooms(vec)[v],
              Image(mem', vec')[v], Rooms(vec')[v], 0, "init", <<0, 0>>, Junk)
  BY <1>5, OtherAnswers
<1> QED
  BY <1>1, <1>3, <1>5, <1>6, CallIsStep

LEMMA InitRoomIsStep ==
  ASSUME StorageInv, NEW v \in Vectors, VectorInitRoom(v)
  PROVE  Abstract!Next
<1>1. Junk \in Held
  BY DEF Held
<1>2. PICK n \in Nat, x \in Held : \E c :
        LET size == IF x = Junk THEN 0 ELSE n
        IN  /\ Becomes(v, c, n, size)
            /\ \A k \in 0..(size - 1) : c[k] = x
            /\ Called(IF x = Junk THEN "init1" ELSE "init2", v, <<n, x>>, 0, size)
  BY InitRoomKeeps
<1>3. PICK fn, s : fn = (IF x = Junk THEN "init1" ELSE "init2") /\ s = (IF x = Junk THEN 0 ELSE n)
  OBVIOUS
<1>4. PICK c : /\ Becomes(v, c, n, s)
               /\ \A k \in 0..(s - 1) : c[k] = x
               /\ Called(fn, v, <<n, x>>, 0, s)
  BY <1>2, <1>3
<1>5. s \in Nat /\ \A k \in 1..s : k - 1 \in 0..(s - 1)
  BY <1>3
<1>6. InOrder(c, s) = Abstract!Copies(s, x)
  BY <1>4, <1>5 DEF InOrder, Abstract!Copies
<1>7. /\ Image(mem', vec')[v] = Abstract!Copies(s, x) /\ Rooms(vec')[v] = n
      /\ Untouched(mem', vec', mem, vec, v)
  BY <1>4, <1>6 DEF Becomes, Image, Rooms
<1>8. Answers(Image(mem, vec)[v], Rooms(vec)[v],
              Image(mem', vec')[v], Rooms(vec')[v], 0, fn, <<n, x>>, Junk)
  <2>1. CASE x = Junk
    <3>1. Abstract!Copies(0, x) = <<>>
      BY DEF Abstract!Copies
    <3> QED
      BY <1>3, <1>7, <2>1, <3>1, OtherAnswers
  <2>2. CASE x # Junk
    BY <1>3, <1>7, <2>2, OtherAnswers
  <2> QED
    BY <2>1, <2>2
<1>9. fn # "swap"
  BY <1>3
<1> QED
  BY <1>1, <1>4, <1>7, <1>8, <1>9, CallIsStep

LEMMA SwapIsStep ==
  ASSUME StorageInv, NEW v \in Alive, NEW o \in Alive \ {v}, VectorSwap(v, o)
  PROVE  Abstract!Next
<1>1. v \in Vectors /\ o \in Vectors /\ o # v
  BY DEF Alive
<1>2. /\ mem' = mem /\ vec'[v] = vec[o] /\ vec'[o] = vec[v]
      /\ \A u \in Vectors : u # v /\ u # o => vec'[u] = vec[u]
  BY SwapKeeps
<1>3. PICK i, j, r, q : i = Image(mem, vec) /\ j = Image(mem', vec') /\ r = Rooms(vec) /\ q = Rooms(vec')
  OBVIOUS
<1>4. /\ i = [u \in Vectors |-> i[u]] /\ j = [u \in Vectors |-> j[u]]
      /\ r = [u \in Vectors |-> r[u]] /\ q = [u \in Vectors |-> q[u]]
  BY <1>3 DEF Image, Rooms
<1>5. /\ j[v] = i[o] /\ j[o] = i[v] /\ q[v] = r[o] /\ q[o] = r[v]
      /\ \A u \in Vectors : u # v /\ u # o => j[u] = i[u] /\ q[u] = r[u]
  BY <1>1, <1>2, <1>3 DEF Image, Rooms
<1>6. /\ \A u \in Vectors : j[u] = [i EXCEPT ![v] = i[o], ![o] = i[v]][u]
      /\ \A u \in Vectors : q[u] = [r EXCEPT ![v] = r[o], ![o] = r[v]][u]
  BY <1>1, <1>4, <1>5
<1>7. j = [i EXCEPT ![v] = i[o], ![o] = i[v]] /\ q = [r EXCEPT ![v] = r[o], ![o] = r[v]]
  BY <1>4, <1>6
<1>8. call' = [fn |-> "swap", vec |-> v, args |-> <<o>>, ret |-> 0]
  BY DEF VectorSwap
<1>9. call'.fn = "swap" /\ call'.vec = v /\ call'.args[1] = o
  BY <1>8
<1>10. /\ [u \in Vectors |-> IF u \in Alive THEN Contents(u) ELSE Gone] = i
       /\ [u \in Vectors |-> IF u \in Alive THEN Cap(u) ELSE 0] = r
       /\ [u \in Vectors |-> IF u \in Alive THEN Contents(u) ELSE Gone]' = j
       /\ [u \in Vectors |-> IF u \in Alive THEN Cap(u) ELSE 0]' = q
  BY <1>3, ImageIsContent, ImageIsContentNext
<1> QED
  BY <1>7, <1>9, <1>10 DEF Abstract!Next, Abstract!Perform, Abstract!Swap

(* Every step is a call of ValueArrays or shows nothing.                   *)
LEMMA NextIsStep ==
  ASSUME StorageInv, [Next]_vars
  PROVE  Abstract!Next \/ UNCHANGED <<mem, vec, call>>
<1>1. CASE \E v \in Vectors : VectorInit(v) \/ VectorInitRoom(v)
  BY <1>1, InitIsStep, InitRoomIsStep
<1>2. CASE \E v \in Alive : VectorDestroy(v) \/ VectorReserve(v)
  BY <1>2, DestroyIsStep, ReserveIsStep
<1>3. CASE \E v \in Alive : VectorPushBack(v) \/ VectorInsert(v) \/ VectorInsert1(v)
  BY <1>3, PushBackIsStep, InsertIsStep, Insert1IsStep DEF Crashes
<1>4. CASE \E v \in Alive : VectorErase(v) \/ VectorErase2(v) \/ VectorClear(v) \/ VectorPopBack(v)
  BY <1>4, EraseIsStep, ClearIsStep, PopBackIsStep
<1>5. CASE \E v \in Alive : VectorResize1(v) \/ VectorResize(v)
  BY <1>5, Resize1IsStep, ResizeIsStep DEF Crashes
<1>6. CASE \E v \in Alive : VectorAt(v)
  BY <1>6, AtIsStep
<1>7. CASE \E v \in Alive : \E o \in Alive \ {v} : VectorSwap(v, o)
  BY <1>7, SwapIsStep
<1>8. CASE UNCHANGED vars
  BY <1>8 DEF vars
<1> QED
  BY <1>1, <1>2, <1>3, <1>4, <1>5, <1>6, <1>7, <1>8 DEF Next

LEMMA InitIsInit == Init => Abstract!Init
<1> SUFFICES ASSUME Init PROVE Abstract!Init
  OBVIOUS
<1>1. \A v \in Vectors : v \notin Alive
  BY DEF Init, Alive
<1> QED
  BY <1>1 DEF Init, Abstract!Init

(* Blocks, headers and loops of vec.c implement the sequences of values    *)
(* that vec.h offers: whatever the calls, each does to its vector and      *)
(* returns what ValueArrays says, its known departures included.           *)
THEOREM ArraysKeepValues == Spec => ImplementsValueArrays
<1>1. StorageInv /\ [Next]_vars =>
        [Abstract!Next]_<<[v \in Vectors |-> IF v \in Alive THEN Contents(v) ELSE Gone],
                          [v \in Vectors |-> IF v \in Alive THEN Cap(v) ELSE 0], call>>
  BY NextIsStep, CrashShowsNothing
<1> QED
  BY <1>1, InitIsInit, StorageInvAlways, PTL DEF Spec, ImplementsValueArrays, Abstract!Spec
=============================================================================

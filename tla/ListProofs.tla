----------------------------- MODULE ListProofs -----------------------------
(***************************************************************************)
(* The lists of list.c, for every number of nodes, lists and values and    *)
(* every sequence of calls: proofs about List.  ListInv gives every node   *)
(* the end node of the ring it is on; for every operator there is a lemma  *)
(* that says which memory it Becomes, and for every call one that says it  *)
(* keeps ListInv.                                                          *)
(***************************************************************************)
EXTENDS List, Lemmas

(***************************************************************************)
(* Loops.                                                                  *)
(***************************************************************************)
Runs(f, n, turn, s) ==
  f = [i \in 0..n |-> IF i = 0 THEN s ELSE turn[f[i - 1]]]

LEMMA RunsExist ==
  ASSUME NEW turn, NEW s
  PROVE  \A n \in Nat : \E f : Runs(f, n, turn, s)
<1> DEFINE U == {n \in Nat : \E f : Runs(f, n, turn, s)}
<1>1. 0 \in U
  <2>1. PICK f : f = [i \in 0..0 |-> s]
    OBVIOUS
  <2>2. f = [i \in 0..0 |-> IF i = 0 THEN s ELSE turn[f[i - 1]]]
    BY <2>1
  <2> QED
    BY <2>2 DEF Runs
<1>2. \A n \in Nat : n \in U => n + 1 \in U
  <2> SUFFICES ASSUME NEW n \in Nat, NEW f, Runs(f, n, turn, s)
               PROVE  \E g : Runs(g, n + 1, turn, s)
    OBVIOUS
  <2>1. PICK g : g = [i \in 0..(n + 1) |-> IF i = n + 1 THEN turn[f[n]] ELSE f[i]]
    OBVIOUS
  <2>2. ASSUME NEW i \in 0..(n + 1)
        PROVE  g[i] = IF i = 0 THEN s ELSE turn[g[i - 1]]
    <3>1. CASE i = n + 1
      <4>1. n \in 0..(n + 1) /\ n # n + 1 /\ i - 1 = n /\ i # 0
        BY <3>1
      <4>2. g[n] = f[n] /\ g[i] = turn[f[n]]
        BY <2>1, <3>1, <4>1
      <4> QED
        BY <3>1, <4>1, <4>2
    <3>2. CASE i # n + 1
      <4>1. i \in 0..n
        BY <3>2
      <4>2. g[i] = f[i]
        BY <2>1, <3>2
      <4>3. i # 0 => i - 1 \in 0..(n + 1) /\ i - 1 # n + 1
        BY <4>1
      <4>4. i # 0 => g[i - 1] = f[i - 1]
        BY <2>1, <4>3
      <4>5. f[i] = IF i = 0 THEN s ELSE turn[f[i - 1]]
        BY <4>1 DEF Runs
      <4> QED
        BY <4>2, <4>4, <4>5
    <3> QED
      BY <3>1, <3>2
  <2>3. g = [i \in 0..(n + 1) |-> g[i]]
    BY <2>1
  <2>4. g = [i \in 0..(n + 1) |-> IF i = 0 THEN s ELSE turn[g[i - 1]]]
    BY <2>2, <2>3
  <2> QED
    BY <2>4 DEF Runs
<1> HIDE DEF U
<1>3. \A n \in Nat : n \in U
  BY <1>1, <1>2, AllNaturals
<1> QED
  BY <1>3 DEF U

LEMMA LoopRuns ==
  ASSUME NEW turn, NEW s, NEW n \in Nat
  PROVE  \E f : Runs(f, n, turn, s) /\ Loop(turn, s, n) = f[n]
<1> DEFINE Is(f) == Runs(f, n, turn, s)
           g == CHOOSE f : Is(f)
<1>1. Is(g)
  <2>1. \E f : Is(f)
    BY RunsExist
  <2> QED
    BY <2>1
<1>2. Loop(turn, s, n) = g[n]
  BY DEF Loop, Runs
<1> QED
  BY <1>1, <1>2

(* J[k] holds the states with k rounds to go: a loop that comes from every *)
(* set to the next one, or has ended, has ended after as many rounds.      *)
LEMMA LoopEnds ==
  ASSUME NEW turn, NEW s, NEW n \in Nat, NEW J, NEW k0 \in 0..n, s \in J[k0],
         \A k \in 0..n : \A r \in J[k] : turn[r] = r \/ (k > 0 /\ turn[r] \in J[k - 1])
  PROVE  \E k \in 0..k0 : /\ Loop(turn, s, n) \in J[k]
                          /\ turn[Loop(turn, s, n)] = Loop(turn, s, n)
<1>1. PICK f : Runs(f, n, turn, s) /\ Loop(turn, s, n) = f[n]
  BY LoopRuns
<1>2. \A i \in 0..n : f[i] = IF i = 0 THEN s ELSE turn[f[i - 1]]
  BY <1>1 DEF Runs
<1> DEFINE Fine(i) == \E k \in 0..k0 : f[i] \in J[k] /\ (turn[f[i]] = f[i] \/ k <= k0 - i)
           U == {i \in Nat : i <= n => Fine(i)}
<1>3. 0 \in U
  BY <1>2
<1>4. ASSUME NEW i \in Nat, i \in U PROVE i + 1 \in U
  <2> SUFFICES ASSUME i + 1 <= n PROVE Fine(i + 1)
    OBVIOUS
  <2>1. f[i + 1] = turn[f[i]]
    <3>1. i + 1 \in 0..n /\ i + 1 # 0 /\ (i + 1) - 1 = i
      OBVIOUS
    <3> QED
      BY <1>2, <3>1
  <2>2. PICK k \in 0..k0 : f[i] \in J[k] /\ (turn[f[i]] = f[i] \/ k <= k0 - i)
    BY <1>4
  <2>3. CASE turn[f[i]] = f[i]
    BY <2>1, <2>2, <2>3
  <2>4. CASE turn[f[i]] # f[i]
    <3>1. k \in 0..n /\ k <= k0 - i
      BY <2>2, <2>4
    <3>2. k > 0 /\ turn[f[i]] \in J[k - 1]
      BY <2>2, <2>4, <3>1
    <3>3. k - 1 \in 0..k0 /\ k - 1 <= k0 - (i + 1)
      BY <3>1, <3>2
    <3> QED
      BY <2>1, <3>2, <3>3
  <2> QED
    BY <2>3, <2>4
<1> HIDE DEF U
<1>5. \A i \in Nat : i \in U
  BY <1>3, <1>4, AllNaturals
<1>6. PICK k \in 0..k0 : f[n] \in J[k] /\ (turn[f[n]] = f[n] \/ k <= k0 - n)
  BY <1>5 DEF U
<1>7. turn[f[n]] = f[n]
  <2>1. CASE k <= k0 - n
    <3>1. k = 0 /\ 0 \in 0..n
      BY <2>1
    <3> QED
      BY <1>6, <3>1
  <2> QED
    BY <1>6, <2>1
<1> QED
  BY <1>1, <1>6, <1>7

(* A loop that always takes n rounds.                                      *)
LEMMA LoopCounts ==
  ASSUME NEW turn, NEW s, NEW n \in Nat, NEW J, s \in J[0],
         \A i \in 0..(n - 1) : \A r \in J[i] : turn[r] \in J[i + 1]
  PROVE  Loop(turn, s, n) \in J[n]
<1>1. PICK f : Runs(f, n, turn, s) /\ Loop(turn, s, n) = f[n]
  BY LoopRuns
<1>2. \A i \in 0..n : f[i] = IF i = 0 THEN s ELSE turn[f[i - 1]]
  BY <1>1 DEF Runs
<1> DEFINE U == {i \in Nat : i <= n => f[i] \in J[i]}
<1>3. 0 \in U
  BY <1>2
<1>4. ASSUME NEW i \in Nat, i \in U PROVE i + 1 \in U
  <2> SUFFICES ASSUME i + 1 <= n PROVE f[i + 1] \in J[i + 1]
    OBVIOUS
  <2>1. i + 1 \in 0..n /\ i + 1 # 0 /\ (i + 1) - 1 = i /\ i \in 0..(n - 1)
    OBVIOUS
  <2>2. f[i + 1] = turn[f[i]] /\ f[i] \in J[i]
    BY <1>2, <1>4, <2>1
  <2> QED
    BY <2>1, <2>2
<1> HIDE DEF U
<1>5. \A i \in Nat : i \in U
  BY <1>3, <1>4, AllNaturals
<1> QED
  BY <1>1, <1>5 DEF U
-----------------------------------------------------------------------------
(***************************************************************************)
(* Rings, without sequences: nx and pv are inverse to each other on the    *)
(* nodes L; o gives every node the end node of its ring; and a set of      *)
(* nodes that nx does not lead out of has an end node, so that a ring is   *)
(* not more than one circle.                                               *)
(***************************************************************************)
Onward(S, nx) == \A x \in S : nx[x] \in S

Mutual(nx, pv, L) ==
  \A x \in L : /\ nx[x] \in L /\ pv[x] \in L
               /\ pv[nx[x]] = x /\ nx[pv[x]] = x

Owned(nx, L, E, o) ==
  /\ o \in [L -> E]
  /\ \A e \in E : o[e] = e
  /\ \A x \in L : o[nx[x]] = o[x]

HasEnds(nx, L, E) ==
  \A S \in SUBSET L : S # {} /\ Onward(S, nx) => \E e \in E : e \in S

Rings(nx, pv, L, E, o) ==
  /\ L \in SUBSET Nodes /\ E \in SUBSET L
  /\ Mutual(nx, pv, L)
  /\ Owned(nx, L, E, o)
  /\ HasEnds(nx, L, E)

LEMMA FiniteNodes == ASSUME NEW S \in SUBSET Nodes PROVE IsFiniteSet(S) /\ Cardinality(S) \in Nat
<1>1. IsFiniteSet(S)
  BY ListAssumption, FS_Subset
<1> QED
  BY <1>1, FS_CardinalityType

LEMMA OntoItself ==
  ASSUME NEW S, IsFiniteSet(S), NEW f \in [S -> S],
         \A x, y \in S : f[x] = f[y] => x = y
  PROVE  \A y \in S : \E x \in S : f[x] = y
<1>1. f \in Injection(S, S)
  BY DEF Injection, IsInjective
<1>2. f \in Surjection(S, S)
  BY <1>1, FS_Injection
<1> QED
  BY <1>2 DEF Surjection

(* nx leads out of a set of nodes when it leads into it, and the other way *)
(* round.                                                                  *)
LEMMA OnwardIsBackward ==
  ASSUME NEW nx, NEW pv, NEW L \in SUBSET Nodes, Mutual(nx, pv, L), NEW S \in SUBSET L
  PROVE  Onward(S, nx) <=> Onward(S, pv)
<1>0. IsFiniteSet(S)
  BY FiniteNodes
<1>1. ASSUME Onward(S, nx) PROVE Onward(S, pv)
  <2>1. PICK f : f = [x \in S |-> nx[x]]
    OBVIOUS
  <2>2. f \in [S -> S] /\ \A x \in S : f[x] = nx[x]
    BY <1>1, <2>1 DEF Onward
  <2>3. \A x, y \in S : f[x] = f[y] => x = y
    BY <2>2 DEF Mutual
  <2>4. \A y \in S : \E x \in S : f[x] = y
    BY <1>0, <2>2, <2>3, OntoItself
  <2>5. ASSUME NEW y \in S PROVE pv[y] \in S
    <3>1. PICK x \in S : f[x] = y
      BY <2>4
    <3>2. nx[x] = y /\ pv[nx[x]] = x
      BY <2>2, <3>1 DEF Mutual
    <3> QED
      BY <3>2
  <2> QED
    BY <2>5 DEF Onward
<1>2. ASSUME Onward(S, pv) PROVE Onward(S, nx)
  <2>1. PICK f : f = [x \in S |-> pv[x]]
    OBVIOUS
  <2>2. f \in [S -> S] /\ \A x \in S : f[x] = pv[x]
    BY <1>2, <2>1 DEF Onward
  <2>3. \A x, y \in S : f[x] = f[y] => x = y
    BY <2>2 DEF Mutual
  <2>4. \A y \in S : \E x \in S : f[x] = y
    BY <1>0, <2>2, <2>3, OntoItself
  <2>5. ASSUME NEW y \in S PROVE nx[y] \in S
    <3>1. PICK x \in S : f[x] = y
      BY <2>4
    <3>2. pv[x] = y /\ nx[pv[x]] = x
      BY <2>2, <3>1 DEF Mutual
    <3> QED
      BY <3>2
  <2> QED
    BY <2>5 DEF Onward
<1> QED
  BY <1>1, <1>2

LEMMA OwnerBefore ==
  ASSUME NEW nx, NEW pv, NEW L, NEW E, NEW o, Rings(nx, pv, L, E, o), NEW x \in L
  PROVE  o[pv[x]] = o[x] /\ o[nx[x]] = o[x] /\ o[x] \in E /\ pv[x] \in L /\ nx[x] \in L
BY DEF Rings, Mutual, Owned

(***************************************************************************)
(* A node t is put before pos.                                             *)
(***************************************************************************)
LEMMA RingsWidened ==
  ASSUME NEW nx, NEW pv, NEW L, NEW E, NEW o, Rings(nx, pv, L, E, o),
         NEW pos \in L, NEW t \in Nodes, t \notin L,
         NEW nx1, NEW pv1, NEW o1,
         nx1[t] = pos, nx1[pv[pos]] = t, \A x \in L : x # pv[pos] => nx1[x] = nx[x],
         pv1[t] = pv[pos], pv1[pos] = t, \A x \in L : x # pos => pv1[x] = pv[x],
         o1 = [x \in L \cup {t} |-> IF x = t THEN o[pos] ELSE o[x]]
  PROVE  Rings(nx1, pv1, L \cup {t}, E, o1)
<1>1. /\ L \in SUBSET Nodes /\ E \in SUBSET L
      /\ Mutual(nx, pv, L) /\ Owned(nx, L, E, o) /\ HasEnds(nx, L, E)
  BY DEF Rings
<1>2. Mutual(nx1, pv1, L \cup {t})
  <2>1. ASSUME NEW x \in L \cup {t}
        PROVE  nx1[x] \in L \cup {t} /\ pv1[x] \in L \cup {t} /\ pv1[nx1[x]] = x /\ nx1[pv1[x]] = x
    <3>1. CASE x = t
      BY <1>1, <3>1 DEF Mutual
    <3>2. CASE x \in L
      <4>1. nx[x] \in L /\ pv[x] \in L /\ pv[nx[x]] = x /\ nx[pv[x]] = x /\ pv[pos] \in L /\ nx[pv[pos]] = pos
        BY <1>1, <3>2 DEF Mutual
      <4>2. nx1[x] \in L \cup {t} /\ pv1[nx1[x]] = x
        BY <3>2, <4>1
      <4>3. pv1[x] \in L \cup {t} /\ nx1[pv1[x]] = x
        BY <3>2, <4>1
      <4> QED
        BY <4>2, <4>3
    <3> QED
      BY <3>1, <3>2
  <2> QED
    BY <2>1 DEF Mutual
<1>3. Owned(nx1, L \cup {t}, E, o1)
  <2>1. o1 \in [L \cup {t} -> E]
    BY <1>1 DEF Owned
  <2>2. \A e \in E : o1[e] = e
    BY <1>1 DEF Owned
  <2>3. ASSUME NEW x \in L \cup {t} PROVE o1[nx1[x]] = o1[x]
    <3>1. o[pv[pos]] = o[pos] /\ pv[pos] \in L
      BY OwnerBefore
    <3>2. CASE x = t
      BY <3>2
    <3>3. CASE x = pv[pos]
      BY <3>1, <3>3
    <3>4. CASE x \in L /\ x # pv[pos]
      <4>1. nx[x] \in L /\ o[nx[x]] = o[x]
        BY <3>4, OwnerBefore
      <4> QED
        BY <3>4, <4>1
    <3> QED
      BY <3>2, <3>3, <3>4
  <2> QED
    BY <2>1, <2>2, <2>3 DEF Owned
<1>4. HasEnds(nx1, L \cup {t}, E)
  <2> SUFFICES ASSUME NEW S \in SUBSET (L \cup {t}), S # {}, Onward(S, nx1)
               PROVE  \E e \in E : e \in S
    BY DEF HasEnds
  <2>1. S \ {t} # {}
    BY DEF Onward
  <2>2. Onward(S \ {t}, nx)
    <3>1. ASSUME NEW x \in S \ {t} PROVE nx[x] \in S \ {t}
      <4>1. x \in L /\ nx1[x] \in S /\ nx[x] \in L
        BY <1>1 DEF Onward, Mutual
      <4>2. CASE x # pv[pos]
        BY <4>1, <4>2
      <4>3. CASE x = pv[pos]
        <5>1. t \in S /\ nx[x] = pos
          BY <1>1, <4>1, <4>3 DEF Mutual
        <5>2. pos \in S
          BY <5>1 DEF Onward
        <5> QED
          BY <4>1, <5>1, <5>2
      <4> QED
        BY <4>2, <4>3
    <3> QED
      BY <3>1 DEF Onward
  <2>3. S \ {t} \in SUBSET L
    OBVIOUS
  <2> QED
    BY <1>1, <2>1, <2>2, <2>3 DEF HasEnds
<1> QED
  BY <1>1, <1>2, <1>3, <1>4 DEF Rings

(* A new end node points to itself.                                        *)
StandsAlone(nx, pv, nx1, pv1, L, t) ==
  /\ nx1[t] = t /\ \A x \in L : nx1[x] = nx[x]
  /\ pv1[t] = t /\ \A x \in L : pv1[x] = pv[x]

LEMMA RingsWithNew ==
  ASSUME NEW nx, NEW pv, NEW L, NEW E, NEW o, Rings(nx, pv, L, E, o),
         NEW t \in Nodes, t \notin L,
         NEW nx1, NEW pv1, NEW o1, StandsAlone(nx, pv, nx1, pv1, L, t),
         o1 = [x \in L \cup {t} |-> IF x = t THEN t ELSE o[x]]
  PROVE  Rings(nx1, pv1, L \cup {t}, E \cup {t}, o1)
<1>1. /\ L \in SUBSET Nodes /\ E \in SUBSET L
      /\ Mutual(nx, pv, L) /\ Owned(nx, L, E, o) /\ HasEnds(nx, L, E)
  BY DEF Rings
<1>0. /\ nx1[t] = t /\ \A x \in L : nx1[x] = nx[x]
      /\ pv1[t] = t /\ \A x \in L : pv1[x] = pv[x]
  BY DEF StandsAlone
<1>2. Mutual(nx1, pv1, L \cup {t})
  BY <1>0, <1>1 DEF Mutual
<1>3. Owned(nx1, L \cup {t}, E \cup {t}, o1)
  <2>1. o1 \in [L \cup {t} -> E \cup {t}]
    BY <1>1 DEF Owned
  <2>2. \A e \in E \cup {t} : o1[e] = e
    BY <1>1 DEF Owned
  <2>3. \A x \in L \cup {t} : o1[nx1[x]] = o1[x]
    BY <1>0, <1>1 DEF Owned, Mutual
  <2> QED
    BY <2>1, <2>2, <2>3 DEF Owned
<1>4. HasEnds(nx1, L \cup {t}, E \cup {t})
  <2> SUFFICES ASSUME NEW S \in SUBSET (L \cup {t}), S # {}, Onward(S, nx1), t \notin S
               PROVE  \E e \in E : e \in S
    BY DEF HasEnds
  <2>1. Onward(S, nx) /\ S \in SUBSET L
    BY <1>0 DEF Onward
  <2> QED
    BY <1>1, <2>1 DEF HasEnds
<1> QED
  BY <1>1, <1>2, <1>3, <1>4 DEF Rings

(* A node that is no end node is not alone.                                *)
LEMMA HasNeighbours ==
  ASSUME NEW nx, NEW pv, NEW L, NEW E, NEW o, Rings(nx, pv, L, E, o), NEW x \in L \ E
  PROVE  nx[x] \in L \ {x} /\ pv[x] \in L \ {x}
<1>1. nx[x] \in L /\ pv[x] \in L /\ nx[pv[x]] = x
  BY DEF Rings, Mutual
<1>2. nx[x] # x
  <2>1. SUFFICES ASSUME nx[x] = x PROVE FALSE
    OBVIOUS
  <2>2. Onward({x}, nx) /\ {x} \in SUBSET L
    BY <2>1 DEF Onward
  <2> QED
    BY <2>2 DEF Rings, HasEnds
<1> QED
  BY <1>1, <1>2

(***************************************************************************)
(* The node x is taken out.                                                *)
(***************************************************************************)
LEMMA RingsNarrowed ==
  ASSUME NEW nx, NEW pv, NEW L, NEW E, NEW o, Rings(nx, pv, L, E, o), NEW x \in L \ E,
         NEW nx1, NEW pv1, NEW o1,
         nx1[pv[x]] = nx[x], \A y \in L \ {x} : y # pv[x] => nx1[y] = nx[y],
         pv1[nx[x]] = pv[x], \A y \in L \ {x} : y # nx[x] => pv1[y] = pv[y],
         o1 = [y \in L \ {x} |-> o[y]]
  PROVE  Rings(nx1, pv1, L \ {x}, E, o1)
<1>1. /\ L \in SUBSET Nodes /\ E \in SUBSET L
      /\ Mutual(nx, pv, L) /\ Owned(nx, L, E, o) /\ HasEnds(nx, L, E)
  BY DEF Rings
<1>2. nx[x] \in L \ {x} /\ pv[x] \in L \ {x}
  BY HasNeighbours
<1>3. Mutual(nx1, pv1, L \ {x})
  <2>1. ASSUME NEW y \in L \ {x}
        PROVE  nx1[y] \in L \ {x} /\ pv1[y] \in L \ {x} /\ pv1[nx1[y]] = y /\ nx1[pv1[y]] = y
    <3>1. /\ nx[y] \in L /\ pv[y] \in L /\ pv[nx[y]] = y /\ nx[pv[y]] = y
          /\ pv[nx[x]] = x /\ nx[pv[x]] = x
      BY <1>1 DEF Mutual
    <3>2. nx1[y] \in L \ {x} /\ pv1[nx1[y]] = y
      BY <1>2, <3>1
    <3>3. pv1[y] \in L \ {x} /\ nx1[pv1[y]] = y
      BY <1>2, <3>1
    <3> QED
      BY <3>2, <3>3
  <2> QED
    BY <2>1 DEF Mutual
<1>4. Owned(nx1, L \ {x}, E, o1)
  <2>1. o1 \in [L \ {x} -> E]
    BY <1>1 DEF Owned
  <2>2. \A e \in E : o1[e] = e
    BY <1>1 DEF Owned
  <2>3. ASSUME NEW y \in L \ {x} PROVE o1[nx1[y]] = o1[y]
    <3>1. nx1[y] \in L \ {x}
      BY <1>3 DEF Mutual
    <3>2. CASE y = pv[x]
      <4>1. o[pv[x]] = o[x] /\ o[nx[x]] = o[x]
        BY OwnerBefore
      <4> QED
        BY <3>1, <3>2, <4>1
    <3>3. CASE y # pv[x]
      <4>1. o[nx[y]] = o[y]
        BY OwnerBefore
      <4> QED
        BY <3>1, <3>3, <4>1
    <3> QED
      BY <3>2, <3>3
  <2> QED
    BY <2>1, <2>2, <2>3 DEF Owned
<1>5. HasEnds(nx1, L \ {x}, E)
  <2> SUFFICES ASSUME NEW S \in SUBSET (L \ {x}), S # {}, Onward(S, nx1)
               PROVE  \E e \in E : e \in S
    BY DEF HasEnds
  <2>1. CASE pv[x] \notin S
    <3>1. Onward(S, nx) /\ S \in SUBSET L
      BY <2>1 DEF Onward
    <3> QED
      BY <1>1, <3>1 DEF HasEnds
  <2>2. CASE pv[x] \in S
    <3>1. nx[x] \in S
      BY <2>2 DEF Onward
    <3>2. ASSUME NEW y \in S \cup {x} PROVE nx[y] \in S \cup {x}
      <4>1. CASE y = x
        BY <3>1, <4>1
      <4>2. CASE y = pv[x]
        BY <1>1, <4>2 DEF Mutual
      <4>3. CASE y \in S /\ y # pv[x]
        BY <4>3 DEF Onward
      <4> QED
        BY <4>1, <4>2, <4>3
    <3>3. Onward(S \cup {x}, nx) /\ S \cup {x} \in SUBSET L /\ S \cup {x} # {}
      BY <3>2 DEF Onward
    <3>4. PICK e \in E : e \in S \cup {x}
      BY <1>1, <3>3 DEF HasEnds
    <3> QED
      BY <3>4
  <2> QED
    BY <2>1, <2>2
<1> QED
  BY <1>1, <1>3, <1>4, <1>5 DEF Rings

(***************************************************************************)
(* The nodes R from first up to, but without, last.                        *)
(***************************************************************************)
Span(nx, L, E, o, R, first, last) ==
  /\ R \in SUBSET (L \ E)
  /\ first \in L /\ last \in L \ R
  /\ first = last <=> R = {}
  /\ R # {} => first \in R
  /\ \A x \in R : nx[x] \in R \cup {last} /\ o[x] = o[last]
  /\ \A x \in L \ R : nx[x] \in R => nx[x] = first

(* It begins and ends where it should.                                     *)
LEMMA SpanEnds ==
  ASSUME NEW nx, NEW pv, NEW L, NEW E, NEW o, Rings(nx, pv, L, E, o),
         NEW R, NEW first, NEW last, Span(nx, L, E, o, R, first, last), R # {}
  PROVE  /\ pv[last] \in R /\ pv[first] \in L \ R
         /\ \A x \in R : x # pv[last] => nx[x] \in R
         /\ \A x \in L \ R : x # pv[first] => nx[x] \in L \ R
<1>1. /\ L \in SUBSET Nodes /\ E \in SUBSET L
      /\ Mutual(nx, pv, L) /\ HasEnds(nx, L, E)
  BY DEF Rings
<1>2. R \in SUBSET L /\ first \in R /\ last \in L \ R
  BY DEF Span
<1>3. ~ Onward(R, nx)
  BY <1>1 DEF HasEnds, Span
<1>4. pv[last] \in R
  <2>1. PICK x \in R : nx[x] \notin R
    BY <1>3 DEF Onward
  <2>2. nx[x] = last
    BY <2>1 DEF Span
  <2> QED
    BY <1>1, <1>2, <2>1, <2>2 DEF Mutual
<1>5. ~ Onward(R, pv)
  BY <1>1, <1>2, <1>3, OnwardIsBackward
<1>6. pv[first] \in L \ R
  <2>1. PICK x \in R : pv[x] \notin R
    BY <1>5 DEF Onward
  <2>2. pv[x] \in L \ R /\ nx[pv[x]] = x
    BY <1>1, <1>2, <2>1 DEF Mutual
  <2>3. x = first
    BY <2>2 DEF Span
  <2> QED
    BY <2>2, <2>3
<1>7. ASSUME NEW x \in R, x # pv[last] PROVE nx[x] \in R
  BY <1>1, <1>2, <1>7 DEF Span, Mutual
<1>8. ASSUME NEW x \in L \ R, x # pv[first] PROVE nx[x] \in L \ R
  BY <1>1, <1>2, <1>8 DEF Span, Mutual
<1> QED
  BY <1>4, <1>6, <1>7, <1>8

(* Without its first node.                                                 *)
LEMMA SpanShorter ==
  ASSUME NEW nx, NEW pv, NEW L, NEW E, NEW o, Rings(nx, pv, L, E, o),
         NEW R, NEW first, NEW last, Span(nx, L, E, o, R, first, last), first # last
  PROVE  /\ Span(nx, L, E, o, R \ {first}, nx[first], last)
         /\ first \in R /\ nx[first] # first /\ pv[first] \notin R
<1>1. R # {} /\ first \in R /\ first \in L \ E
  BY DEF Span
<1>2. /\ pv[last] \in R /\ pv[first] \in L \ R
      /\ \A x \in R : x # pv[last] => nx[x] \in R
      /\ \A x \in L \ R : x # pv[first] => nx[x] \in L \ R
  BY <1>1, SpanEnds
<1>3. Mutual(nx, pv, L)
  BY DEF Rings
<1>4. nx[first] \in L \ {first}
  BY <1>1, HasNeighbours
<1>5. ASSUME NEW x \in L \ (R \ {first}), nx[x] \in R \ {first} PROVE nx[x] = nx[first]
  <2>1. x # pv[first]
    BY <1>1, <1>3, <1>5 DEF Mutual, Span
  <2>2. x \in R
    BY <1>2, <1>5, <2>1
  <2> QED
    BY <1>5, <2>2
<1>6. ASSUME NEW x \in R \ {first} PROVE nx[x] \in (R \ {first}) \cup {last} /\ o[x] = o[last]
  <2>1. nx[x] # first
    BY <1>2, <1>3, <1>6 DEF Mutual, Span
  <2> QED
    BY <1>6, <2>1 DEF Span
<1>7. nx[first] = last <=> R \ {first} = {}
  <2>1. ASSUME nx[first] = last, NEW x \in R \ {first} PROVE FALSE
    <3>1. Onward(R \ {first}, pv)
      <4>1. ASSUME NEW y \in R \ {first} PROVE pv[y] \in R \ {first}
        <5>1. pv[y] \in L /\ nx[pv[y]] = y
          BY <1>3, <4>1 DEF Mutual, Span
        <5>2. pv[y] # first
          BY <2>1, <4>1, <5>1 DEF Span
        <5>3. pv[y] \in R
          BY <4>1, <5>1 DEF Span
        <5> QED
          BY <5>2, <5>3
      <4> QED
        BY <4>1 DEF Onward
    <3>2. Onward(R \ {first}, nx)
      <4>1. L \in SUBSET Nodes /\ R \ {first} \in SUBSET L
        BY DEF Rings, Span
      <4> QED
        BY <1>3, <3>1, <4>1, OnwardIsBackward
    <3> QED
      BY <2>1, <3>2 DEF Rings, HasEnds, Span
  <2>2. ASSUME nx[first] # last PROVE R \ {first} # {}
    BY <1>1, <1>4, <2>2 DEF Span
  <2> QED
    BY <2>1, <2>2
<1>8. R \ {first} # {} => nx[first] \in R \ {first}
  BY <1>1, <1>4, <1>7 DEF Span
<1>9. R \ {first} \in SUBSET (L \ E) /\ nx[first] \in L /\ last \in L \ (R \ {first})
  BY <1>4 DEF Span
<1>10. Span(nx, L, E, o, R \ {first}, nx[first], last)
  BY <1>5, <1>6, <1>7, <1>8, <1>9 DEF Span
<1> QED
  BY <1>1, <1>2, <1>4, <1>10

(***************************************************************************)
(* transfer: the nodes R go before pos.                                    *)
(***************************************************************************)
Moves(nx, pv, nx1, pv1, L, pos, first, last) ==
  /\ nx1[pv[last]] = pos /\ nx1[pv[first]] = last /\ nx1[pv[pos]] = first
  /\ \A x \in L : x \notin {pv[last], pv[first], pv[pos]} => nx1[x] = nx[x]
  /\ pv1[pos] = pv[last] /\ pv1[last] = pv[first] /\ pv1[first] = pv[pos]
  /\ \A x \in L : x \notin {pos, last, first} => pv1[x] = pv[x]

LEMMA RingsMoved ==
  ASSUME NEW nx, NEW pv, NEW L, NEW E, NEW o, Rings(nx, pv, L, E, o),
         NEW R, NEW first, NEW last, Span(nx, L, E, o, R, first, last), R # {},
         NEW pos \in L \ R, pos # last,
         NEW nx1, NEW pv1, NEW o1, Moves(nx, pv, nx1, pv1, L, pos, first, last),
         o1 = [x \in L |-> IF x \in R THEN o[pos] ELSE o[x]]
  PROVE  Rings(nx1, pv1, L, E, o1)
<1>1. /\ L \in SUBSET Nodes /\ E \in SUBSET L
      /\ Mutual(nx, pv, L) /\ Owned(nx, L, E, o) /\ HasEnds(nx, L, E)
  BY DEF Rings
<1>2. /\ R \in SUBSET L /\ R \cap E = {} /\ first \in R /\ last \in L \ R
      /\ \A x \in R : o[x] = o[last]
  BY DEF Span
<1>3. /\ pv[last] \in R /\ pv[first] \in L \ R
      /\ \A x \in R : x # pv[last] => nx[x] \in R
      /\ \A x \in L \ R : x # pv[first] => nx[x] \in L \ R
  BY SpanEnds
<1>4. pv[pos] \in L \ R /\ pv[pos] # pv[first] /\ nx[pv[pos]] = pos
  BY <1>1, <1>2, <1>3 DEF Mutual
<1>5. /\ nx1[pv[last]] = pos /\ nx1[pv[first]] = last /\ nx1[pv[pos]] = first
      /\ \A x \in L : x \notin {pv[last], pv[first], pv[pos]} => nx1[x] = nx[x]
      /\ pv1[pos] = pv[last] /\ pv1[last] = pv[first] /\ pv1[first] = pv[pos]
      /\ \A x \in L : x \notin {pos, last, first} => pv1[x] = pv[x]
  BY DEF Moves
<1>6. Mutual(nx1, pv1, L)
  <2>1. ASSUME NEW x \in L
        PROVE  nx1[x] \in L /\ pv1[x] \in L /\ pv1[nx1[x]] = x /\ nx1[pv1[x]] = x
    <3>1. nx[x] \in L /\ pv[x] \in L /\ pv[nx[x]] = x /\ nx[pv[x]] = x
      BY <1>1 DEF Mutual
    <3>2. nx1[x] \in L /\ pv1[nx1[x]] = x
      <4>1. CASE x \in {pv[last], pv[first], pv[pos]}
        BY <1>2, <1>5, <4>1
      <4>2. CASE x \notin {pv[last], pv[first], pv[pos]}
        BY <1>5, <3>1, <4>2
      <4> QED
        BY <4>1, <4>2
    <3>3. pv1[x] \in L /\ nx1[pv1[x]] = x
      <4>1. CASE x \in {pos, last, first}
        BY <1>2, <1>3, <1>4, <1>5, <4>1
      <4>2. CASE x \notin {pos, last, first}
        <5>1. nx[pv[last]] = last /\ nx[pv[first]] = first /\ nx[pv[pos]] = pos
          BY <1>1, <1>2 DEF Mutual
        <5> QED
          BY <1>5, <3>1, <4>2, <5>1
      <4> QED
        BY <4>1, <4>2
    <3> QED
      BY <3>2, <3>3
  <2> QED
    BY <2>1 DEF Mutual
<1>7. Owned(nx1, L, E, o1)
  <2>1. o1 \in [L -> E]
    BY <1>1 DEF Owned
  <2>2. \A e \in E : o1[e] = e
    BY <1>1, <1>2 DEF Owned
  <2>3. ASSUME NEW x \in L PROVE o1[nx1[x]] = o1[x]
    <3>1. nx[x] \in L /\ o[nx[x]] = o[x]
      BY OwnerBefore
    <3>2. CASE x = pv[last]
      BY <1>2, <1>3, <1>5, <3>2
    <3>3. CASE x = pv[first]
      <4>1. o[pv[first]] = o[first]
        BY <1>2, OwnerBefore
      <4> QED
        BY <1>2, <1>3, <1>5, <3>3, <4>1
    <3>4. CASE x = pv[pos]
      <4>1. o[pv[pos]] = o[pos]
        BY OwnerBefore
      <4> QED
        BY <1>2, <1>4, <1>5, <3>4, <4>1
    <3>5. CASE x \notin {pv[last], pv[first], pv[pos]}
      <4>1. nx1[x] = nx[x] /\ (x \in R <=> nx[x] \in R)
        BY <1>3, <1>5, <3>1, <3>5
      <4> QED
        BY <3>1, <4>1
    <3> QED
      BY <3>2, <3>3, <3>4, <3>5
  <2> QED
    BY <2>1, <2>2, <2>3 DEF Owned
<1>8. HasEnds(nx1, L, E)
  <2> SUFFICES ASSUME NEW S \in SUBSET L, S # {}, Onward(S, nx1)
               PROVE  \E e \in E : e \in S
    BY DEF HasEnds
  <2>0. \A x \in S : nx1[x] \in S
    BY DEF Onward
  <2>1. ASSUME S \cap R # {} PROVE pos \in S
    <3>1. CASE pv[last] \in S
      BY <1>5, <2>0, <3>1
    <3>2. CASE pv[last] \notin S
      <4>1. ASSUME NEW x \in S \cap R PROVE nx[x] \in S \cap R
        <5>1. x # pv[last] /\ x # pv[first] /\ x # pv[pos]
          BY <1>3, <1>4, <3>2
        <5> QED
          BY <1>2, <1>3, <1>5, <2>0, <5>1
      <4>2. Onward(S \cap R, nx) /\ S \cap R \in SUBSET L
        BY <4>1 DEF Onward
      <4> QED
        BY <1>1, <1>2, <2>1, <4>2 DEF HasEnds
    <3> QED
      BY <3>1, <3>2
  <2>2. S \ R # {}
    BY <2>1
  <2>3. CASE pv[first] \in S
    <3>1. last \in S
      BY <1>5, <2>0, <2>3
    <3>2. ASSUME NEW x \in S \cup R PROVE nx[x] \in S \cup R
      <4>1. CASE x = pv[last]
        <5>1. nx[x] = last
          BY <1>1, <1>2, <4>1 DEF Mutual
        <5> QED
          BY <3>1, <5>1
      <4>2. CASE x \in R /\ x # pv[last]
        BY <1>3, <4>2
      <4>3. CASE x = pv[first]
        <5>1. nx[x] = first
          BY <1>1, <1>2, <4>3 DEF Mutual
        <5> QED
          BY <1>2, <5>1
      <4>4. CASE x = pv[pos] /\ x \in S
        <5>1. first \in S
          BY <1>5, <2>0, <4>4
        <5> QED
          BY <1>2, <1>4, <2>1, <4>4, <5>1
      <4>5. CASE x \in S /\ x \notin {pv[last], pv[first], pv[pos]}
        BY <1>5, <2>0, <4>5
      <4> QED
        BY <1>4, <3>2, <4>1, <4>2, <4>3, <4>4, <4>5
    <3>3. Onward(S \cup R, nx) /\ S \cup R \in SUBSET L /\ S \cup R # {}
      BY <1>2, <3>2 DEF Onward
    <3>4. PICK e \in E : e \in S \cup R
      BY <1>1, <3>3 DEF HasEnds
    <3> QED
      BY <1>2, <3>4
  <2>4. CASE pv[first] \notin S
    <3>1. ASSUME NEW x \in S \ R PROVE nx[x] \in S \ R
      <4>1. nx[x] \in L \ R
        BY <1>3, <2>4
      <4>2. CASE x = pv[pos]
        <5>1. first \in S
          BY <1>5, <2>0, <4>2
        <5> QED
          BY <1>2, <1>4, <2>1, <4>2, <5>1
      <4>3. CASE x # pv[pos]
        BY <1>3, <1>5, <2>0, <2>4, <4>1, <4>3
      <4> QED
        BY <4>2, <4>3
    <3>2. Onward(S \ R, nx) /\ S \ R \in SUBSET L
      BY <3>1 DEF Onward
    <3>3. PICK e \in E : e \in S \ R
      BY <1>1, <2>2, <3>2 DEF HasEnds
    <3> QED
      BY <3>3
  <2> QED
    BY <2>3, <2>4
<1> QED
  BY <1>1, <1>6, <1>7, <1>8 DEF Rings

(***************************************************************************)
(* The ring of e is emptied, a ring that is empty is freed, a ring is      *)
(* turned round.                                                           *)
(***************************************************************************)
RingOf(L, o, e) == {x \in L : o[x] = e}

Values0(L, o, e) == RingOf(L, o, e) \ {e}

(* A list is empty when its end node points to itself.                     *)
LEMMA AloneIsEmpty ==
  ASSUME NEW nx, NEW pv, NEW L, NEW E, NEW o, Rings(nx, pv, L, E, o), NEW e \in E
  PROVE  /\ e \in RingOf(L, o, e)
         /\ nx[e] = e <=> Values0(L, o, e) = {}
<1>1. /\ L \in SUBSET Nodes /\ E \in SUBSET L
      /\ Mutual(nx, pv, L) /\ Owned(nx, L, E, o) /\ HasEnds(nx, L, E)
  BY DEF Rings
<1>2. e \in L /\ o[e] = e /\ nx[e] \in L /\ o[nx[e]] = e
  BY <1>1 DEF Owned, Mutual
<1>3. ASSUME nx[e] # e PROVE Values0(L, o, e) # {}
  BY <1>2, <1>3 DEF Values0, RingOf
<1>4. ASSUME nx[e] = e, Values0(L, o, e) # {} PROVE FALSE
  <2>1. \A x \in L : nx[x] = e => x = e
    BY <1>1, <1>2, <1>4 DEF Mutual
  <2>2. ASSUME NEW x \in Values0(L, o, e) PROVE nx[x] \in Values0(L, o, e)
    BY <1>1, <2>1, <2>2 DEF Values0, RingOf, Owned, Mutual
  <2>3. Onward(Values0(L, o, e), nx) /\ Values0(L, o, e) \in SUBSET L
    BY <2>2 DEF Onward, Values0, RingOf
  <2>4. PICK d \in E : d \in Values0(L, o, e)
    BY <1>1, <1>4, <2>3 DEF HasEnds
  <2> QED
    BY <1>1, <2>4 DEF Values0, RingOf, Owned
<1> QED
  BY <1>2, <1>3, <1>4 DEF RingOf

LEMMA RingsCleared ==
  ASSUME NEW nx, NEW pv, NEW L, NEW E, NEW o, Rings(nx, pv, L, E, o), NEW e \in E,
         NEW nx1, NEW pv1, NEW L1, NEW o1,
         L1 = L \ Values0(L, o, e),
         StandsAlone(nx, pv, nx1, pv1, L1 \ {e}, e),
         o1 = [x \in L1 |-> o[x]]
  PROVE  Rings(nx1, pv1, L1, E, o1)
<1>0. /\ nx1[e] = e /\ \A x \in L1 : x # e => nx1[x] = nx[x]
      /\ pv1[e] = e /\ \A x \in L1 : x # e => pv1[x] = pv[x]
  BY DEF StandsAlone
<1>1. /\ L \in SUBSET Nodes /\ E \in SUBSET L
      /\ Mutual(nx, pv, L) /\ Owned(nx, L, E, o) /\ HasEnds(nx, L, E)
  BY DEF Rings
<1>2. L1 \in SUBSET L /\ E \in SUBSET L1
  BY <1>1 DEF Values0, RingOf, Owned
<1>3. ASSUME NEW x \in L1, x # e
      PROVE  o[x] # e /\ nx[x] \in L1 /\ pv[x] \in L1 /\ nx[x] # e /\ pv[x] # e
  <2>1. o[x] # e
    BY <1>2, <1>3 DEF Values0, RingOf
  <2>2. o[pv[x]] = o[x] /\ o[nx[x]] = o[x] /\ pv[x] \in L /\ nx[x] \in L
    BY <1>2, <1>3, OwnerBefore
  <2>3. o[e] = e
    BY <1>1 DEF Owned
  <2> QED
    BY <2>1, <2>2, <2>3 DEF Values0, RingOf
<1>4. Mutual(nx1, pv1, L1)
  <2>1. ASSUME NEW x \in L1
        PROVE  nx1[x] \in L1 /\ pv1[x] \in L1 /\ pv1[nx1[x]] = x /\ nx1[pv1[x]] = x
    <3>1. CASE x = e
      BY <1>0, <3>1
    <3>2. CASE x # e
      <4>1. pv[nx[x]] = x /\ nx[pv[x]] = x
        BY <1>1, <1>2 DEF Mutual
      <4> QED
        BY <1>0, <1>3, <3>2, <4>1
    <3> QED
      BY <3>1, <3>2
  <2> QED
    BY <2>1 DEF Mutual
<1>5. Owned(nx1, L1, E, o1)
  <2>1. o1 \in [L1 -> E]
    BY <1>1, <1>2 DEF Owned
  <2>2. \A d \in E : o1[d] = d
    BY <1>1, <1>2 DEF Owned
  <2>3. ASSUME NEW x \in L1 PROVE o1[nx1[x]] = o1[x]
    <3>1. o[nx[x]] = o[x]
      BY <1>1, <1>2 DEF Owned
    <3> QED
      BY <1>0, <1>3, <3>1
  <2> QED
    BY <2>1, <2>2, <2>3 DEF Owned
<1>6. HasEnds(nx1, L1, E)
  <2> SUFFICES ASSUME NEW S \in SUBSET L1, S # {}, Onward(S, nx1), e \notin S
               PROVE  \E d \in E : d \in S
    BY DEF HasEnds
  <2>1. Onward(S, nx) /\ S \in SUBSET L
    BY <1>0, <1>2 DEF Onward
  <2> QED
    BY <1>1, <2>1 DEF HasEnds
<1>7. L1 \in SUBSET Nodes
  BY <1>1, <1>2
<1> QED
  BY <1>2, <1>4, <1>5, <1>6, <1>7 DEF Rings

LEMMA RingsWithout ==
  ASSUME NEW nx, NEW pv, NEW L, NEW E, NEW o, Rings(nx, pv, L, E, o), NEW e \in E,
         Values0(L, o, e) = {},
         NEW nx1, NEW pv1, NEW o1,
         \A x \in L \ {e} : nx1[x] = nx[x], \A x \in L \ {e} : pv1[x] = pv[x],
         o1 = [x \in L \ {e} |-> o[x]]
  PROVE  Rings(nx1, pv1, L \ {e}, E \ {e}, o1)
<1>1. /\ L \in SUBSET Nodes /\ E \in SUBSET L
      /\ Mutual(nx, pv, L) /\ Owned(nx, L, E, o) /\ HasEnds(nx, L, E)
  BY DEF Rings
<1>2. ASSUME NEW x \in L \ {e}
      PROVE  o[x] # e /\ nx[x] \in L \ {e} /\ pv[x] \in L \ {e}
  <2>1. o[x] # e
    BY <1>2 DEF Values0, RingOf
  <2>2. o[pv[x]] = o[x] /\ o[nx[x]] = o[x] /\ pv[x] \in L /\ nx[x] \in L
    BY <1>2, OwnerBefore
  <2>3. o[e] = e
    BY <1>1 DEF Owned
  <2> QED
    BY <2>1, <2>2, <2>3
<1>3. Mutual(nx1, pv1, L \ {e})
  <2>1. ASSUME NEW x \in L \ {e}
        PROVE  /\ nx1[x] \in L \ {e} /\ pv1[x] \in L \ {e}
               /\ pv1[nx1[x]] = x /\ nx1[pv1[x]] = x
    <3>1. pv[nx[x]] = x /\ nx[pv[x]] = x
      BY <1>1 DEF Mutual
    <3> QED
      BY <1>2, <3>1
  <2> QED
    BY <2>1 DEF Mutual
<1>4. Owned(nx1, L \ {e}, E \ {e}, o1)
  <2>1. o1 \in [L \ {e} -> E \ {e}]
    <3>1. ASSUME NEW x \in L \ {e} PROVE o[x] \in E \ {e}
      BY <1>1, <1>2 DEF Owned
    <3> QED
      BY <3>1
  <2>2. \A d \in E \ {e} : o1[d] = d
    BY <1>1 DEF Owned
  <2>3. ASSUME NEW x \in L \ {e} PROVE o1[nx1[x]] = o1[x]
    BY <1>1, <1>2 DEF Owned
  <2> QED
    BY <2>1, <2>2, <2>3 DEF Owned
<1>5. HasEnds(nx1, L \ {e}, E \ {e})
  <2> SUFFICES ASSUME NEW S \in SUBSET (L \ {e}), S # {}, Onward(S, nx1)
               PROVE  \E d \in E \ {e} : d \in S
    BY DEF HasEnds
  <2>1. Onward(S, nx) /\ S \in SUBSET L
    BY DEF Onward
  <2>2. PICK d \in E : d \in S
    BY <1>1, <2>1 DEF HasEnds
  <2> QED
    BY <2>2
<1> QED
  BY <1>1, <1>3, <1>4, <1>5 DEF Rings

LEMMA RingsTurned ==
  ASSUME NEW nx, NEW pv, NEW L, NEW E, NEW o, Rings(nx, pv, L, E, o), NEW e \in E,
         NEW nx1, NEW pv1,
         \A x \in L : nx1[x] = IF o[x] = e THEN pv[x] ELSE nx[x],
         \A x \in L : pv1[x] = IF o[x] = e THEN nx[x] ELSE pv[x]
  PROVE  Rings(nx1, pv1, L, E, o)
<1>1. /\ L \in SUBSET Nodes /\ E \in SUBSET L
      /\ Mutual(nx, pv, L) /\ Owned(nx, L, E, o) /\ HasEnds(nx, L, E)
  BY DEF Rings
<1>2. \A x \in L : /\ nx[x] \in L /\ pv[x] \in L /\ o[nx[x]] = o[x] /\ o[pv[x]] = o[x]
                   /\ pv[nx[x]] = x /\ nx[pv[x]] = x
  BY <1>1, OwnerBefore DEF Mutual
<1>3. Mutual(nx1, pv1, L)
  <2>1. ASSUME NEW x \in L
        PROVE  nx1[x] \in L /\ pv1[x] \in L /\ pv1[nx1[x]] = x /\ nx1[pv1[x]] = x
    <3>1. CASE o[x] = e
      <4>1. nx1[x] = pv[x] /\ pv1[x] = nx[x] /\ pv1[pv[x]] = nx[pv[x]] /\ nx1[nx[x]] = pv[nx[x]]
        BY <1>2, <3>1
      <4> QED
        BY <1>2, <4>1
    <3>2. CASE o[x] # e
      <4>1. nx1[x] = nx[x] /\ pv1[x] = pv[x] /\ pv1[nx[x]] = pv[nx[x]] /\ nx1[pv[x]] = nx[pv[x]]
        BY <1>2, <3>2
      <4> QED
        BY <1>2, <4>1
    <3> QED
      BY <3>1, <3>2
  <2> QED
    BY <2>1 DEF Mutual
<1>4. Owned(nx1, L, E, o)
  BY <1>1, <1>2 DEF Owned
<1>5. HasEnds(nx1, L, E)
  <2> SUFFICES ASSUME NEW S \in SUBSET L, S # {}, Onward(S, nx1)
               PROVE  \E d \in E : d \in S
    BY DEF HasEnds
  <2> DEFINE A == {x \in S : o[x] = e}
  <2>1. CASE A = {}
    <3>1. Onward(S, nx)
      BY <2>1 DEF Onward
    <3> QED
      BY <1>1, <3>1 DEF HasEnds
  <2>2. CASE A # {}
    <3>1. Onward(A, pv) /\ A \in SUBSET L
      BY <1>2 DEF Onward
    <3>2. Onward(A, nx)
      BY <1>1, <3>1, OnwardIsBackward
    <3>3. PICK d \in E : d \in A
      BY <1>1, <2>2, <3>1, <3>2 DEF HasEnds
    <3> QED
      BY <3>3
  <2> QED
    BY <2>1, <2>2
<1> QED
  BY <1>1, <1>3, <1>4, <1>5 DEF Rings
-----------------------------------------------------------------------------
(***************************************************************************)
(* Rings in a memory, and what an operator may do to the owners of the     *)
(* nodes: only to those of the end nodes A does it give any.               *)
(***************************************************************************)
Whole(m, E, o) == m \in Memories /\ Rings(m.next, m.prev, m.live, E, o)

Confined(m, o, m1, o1, A) ==
  \A x \in m1.live : o1[x] \in A \/ (x \in m.live /\ o1[x] = o[x])

LEMMA Fields ==
  ASSUME NEW m \in Memories
  PROVE  /\ m.next \in [Nodes -> Pointers] /\ m.prev \in [Nodes -> Pointers]
         /\ m.data \in [Nodes -> Values \cup {Null}] /\ m.live \in SUBSET Nodes
         /\ Cardinality(m.live) \in Nat /\ IsFiniteSet(m.live)
<1>1. /\ m.next \in [Nodes -> Pointers] /\ m.prev \in [Nodes -> Pointers]
      /\ m.data \in [Nodes -> Values \cup {Null}] /\ m.live \in SUBSET Nodes
  BY DEF Memories
<1> QED
  BY <1>1, FiniteNodes

(* malloc has a node when not all are handed out.                          *)
LEMMA FreshNode ==
  ASSUME NEW m \in Memories, Cardinality(m.live) < Cardinality(Nodes)
  PROVE  /\ Fresh(m) \in Nodes \ m.live
         /\ Cardinality(m.live \cup {Fresh(m)}) = Cardinality(m.live) + 1
         /\ IsFiniteSet(m.live \cup {Fresh(m)})
<1>1. m.live \in SUBSET Nodes /\ IsFiniteSet(m.live) /\ Cardinality(m.live) \in Nat
  BY Fields
<1> DEFINE T == Nodes \ m.live
<1>2. T # {}
  BY <1>1
<1>3. T \subseteq Nat
  BY ListAssumption
<1>4. \E x \in T : \A y \in T : x <= y
  BY <1>2, <1>3, LeastExists
<1>5. Fresh(m) \in T
  BY <1>4 DEF Fresh, Min
<1> QED
  BY <1>1, <1>5, FS_AddElement

LEMMA NewEndWhole ==
  ASSUME NEW m, NEW E, NEW o, Whole(m, E, o), Cardinality(m.live) < Cardinality(Nodes),
         NEW t, t = Fresh(m), NEW o1, o1 = [x \in m.live \cup {t} |-> IF x = t THEN t ELSE o[x]]
  PROVE  /\ Whole(NewEnd(m), E \cup {t}, o1)
         /\ NewEnd(m).live = m.live \cup {t} /\ t \in Nodes \ m.live
         /\ NewEnd(m).next[t] = t
         /\ Cardinality(NewEnd(m).live) = Cardinality(m.live) + 1
<1>1. m \in Memories /\ Rings(m.next, m.prev, m.live, E, o)
  BY DEF Whole
<1>2. t \in Nodes \ m.live /\ Cardinality(m.live \cup {t}) = Cardinality(m.live) + 1
  BY <1>1, FreshNode
<1>3. /\ m.next \in [Nodes -> Pointers] /\ m.prev \in [Nodes -> Pointers]
      /\ m.data \in [Nodes -> Values \cup {Null}] /\ m.live \in SUBSET Nodes
  BY <1>1, Fields
<1>4. PICK n : n = NewEnd(m)
  OBVIOUS
<1>5. n = [next |-> [m.next EXCEPT ![t] = t], prev |-> [m.prev EXCEPT ![t] = t],
           data |-> [m.data EXCEPT ![t] = Null], live |-> m.live \cup {t}]
  BY <1>4 DEF NewEnd
<1>6. /\ n.next = [m.next EXCEPT ![t] = t] /\ n.prev = [m.prev EXCEPT ![t] = t]
      /\ n.live = m.live \cup {t}
  BY <1>5
<1>7. n \in Memories
  BY <1>2, <1>3, <1>5 DEF Memories, Pointers
<1>8. /\ n.next[t] = t /\ \A x \in m.live : n.next[x] = m.next[x]
      /\ n.prev[t] = t /\ \A x \in m.live : n.prev[x] = m.prev[x]
  BY <1>2, <1>3, <1>6
<1>9. Rings(n.next, n.prev, m.live \cup {t}, E \cup {t}, o1)
  <2>1. t \in Nodes /\ t \notin m.live /\ StandsAlone(m.next, m.prev, n.next, n.prev, m.live, t)
    BY <1>2, <1>8 DEF StandsAlone
  <2> QED
    BY <1>1, <2>1, RingsWithNew
<1> QED
  BY <1>2, <1>4, <1>6, <1>7, <1>8, <1>9 DEF Whole

LEMMA InsertWhole ==
  ASSUME NEW m, NEW E, NEW o, Whole(m, E, o), Cardinality(m.live) < Cardinality(Nodes),
         NEW pos \in m.live, NEW v \in Values \cup {Null}, NEW t, t = Fresh(m),
         NEW o1, o1 = [x \in m.live \cup {t} |-> IF x = t THEN o[pos] ELSE o[x]]
  PROVE  /\ Whole(Insert(m, pos, v), E, o1)
         /\ Insert(m, pos, v).live = m.live \cup {t} /\ t \in Nodes \ m.live
         /\ Insert(m, pos, v).next[t] = pos /\ Insert(m, pos, v).next[m.prev[pos]] = t
         /\ \A x \in m.live : x # m.prev[pos] => Insert(m, pos, v).next[x] = m.next[x]
         /\ Cardinality(Insert(m, pos, v).live) = Cardinality(m.live) + 1
<1>1. m \in Memories /\ Rings(m.next, m.prev, m.live, E, o)
  BY DEF Whole
<1>2. t \in Nodes \ m.live /\ Cardinality(m.live \cup {t}) = Cardinality(m.live) + 1
  BY <1>1, FreshNode
<1>3. /\ m.next \in [Nodes -> Pointers] /\ m.prev \in [Nodes -> Pointers]
      /\ m.data \in [Nodes -> Values \cup {Null}] /\ m.live \in SUBSET Nodes
  BY <1>1, Fields
<1>4. PICK n : n = Insert(m, pos, v)
  OBVIOUS
<1>5. n = [next |-> [m.next EXCEPT ![t] = pos, ![m.prev[pos]] = t],
           prev |-> [m.prev EXCEPT ![t] = m.prev[pos], ![pos] = t],
           data |-> [m.data EXCEPT ![t] = v],
           live |-> m.live \cup {t}]
  BY <1>4 DEF Insert
<1>6. /\ n.next = [m.next EXCEPT ![t] = pos, ![m.prev[pos]] = t]
      /\ n.prev = [m.prev EXCEPT ![t] = m.prev[pos], ![pos] = t]
      /\ n.live = m.live \cup {t}
  BY <1>5
<1>7. m.prev[pos] \in m.live
  BY <1>1, OwnerBefore
<1>8. n \in Memories
  <2>1. n.next \in [Nodes -> Pointers]
    BY <1>2, <1>3, <1>6, <1>7 DEF Pointers
  <2>2. n.prev \in [Nodes -> Pointers]
    BY <1>2, <1>3, <1>6, <1>7 DEF Pointers
  <2>3. n.data \in [Nodes -> Values \cup {Null}] /\ n.live \in SUBSET Nodes
    BY <1>2, <1>3, <1>5
  <2>4. n = [next |-> n.next, prev |-> n.prev, data |-> n.data, live |-> n.live]
    BY <1>5
  <2> QED
    BY <2>1, <2>2, <2>3, <2>4 DEF Memories
<1>9. /\ n.next[t] = pos /\ n.next[m.prev[pos]] = t
      /\ \A x \in m.live : x # m.prev[pos] => n.next[x] = m.next[x]
      /\ n.prev[t] = m.prev[pos] /\ n.prev[pos] = t
      /\ \A x \in m.live : x # pos => n.prev[x] = m.prev[x]
  BY <1>2, <1>3, <1>6, <1>7
<1>10. Rings(n.next, n.prev, m.live \cup {t}, E, o1)
  BY <1>1, <1>2, <1>9, RingsWidened
<1> QED
  BY <1>2, <1>4, <1>6, <1>8, <1>9, <1>10 DEF Whole

LEMMA EraseWhole ==
  ASSUME NEW m, NEW E, NEW o, Whole(m, E, o), NEW x \in m.live \ E,
         NEW o1, o1 = [y \in m.live \ {x} |-> o[y]]
  PROVE  /\ Whole(Erase(m, x), E, o1)
         /\ Erase(m, x).live = m.live \ {x}
         /\ Erase(m, x).next[m.prev[x]] = m.next[x]
         /\ \A y \in m.live \ {x} : y # m.prev[x] => Erase(m, x).next[y] = m.next[y]
         /\ Cardinality(Erase(m, x).live) = Cardinality(m.live) - 1
<1>1. m \in Memories /\ Rings(m.next, m.prev, m.live, E, o)
  BY DEF Whole
<1>2. m.next[x] \in m.live \ {x} /\ m.prev[x] \in m.live \ {x}
  BY <1>1, HasNeighbours
<1>3. /\ m.next \in [Nodes -> Pointers] /\ m.prev \in [Nodes -> Pointers]
      /\ m.data \in [Nodes -> Values \cup {Null}] /\ m.live \in SUBSET Nodes
      /\ IsFiniteSet(m.live)
  BY <1>1, Fields
<1>4. PICK n : n = Erase(m, x)
  OBVIOUS
<1>5. n = [next |-> [[m.next EXCEPT ![m.prev[x]] = m.next[x]] EXCEPT ![x] = Nowhere],
           prev |-> [[m.prev EXCEPT ![m.next[x]] = m.prev[x]] EXCEPT ![x] = Nowhere],
           data |-> [m.data EXCEPT ![x] = Null],
           live |-> m.live \ {x}]
  <2>1. PICK k : k = [m EXCEPT !.next[m.prev[x]] = m.next[x], !.prev[m.next[x]] = m.prev[x]]
    OBVIOUS
  <2>2. m = [next |-> m.next, prev |-> m.prev, data |-> m.data, live |-> m.live]
    BY <1>1 DEF Memories
  <2>3. /\ k.next = [m.next EXCEPT ![m.prev[x]] = m.next[x]]
        /\ k.prev = [m.prev EXCEPT ![m.next[x]] = m.prev[x]]
        /\ k.data = m.data /\ k.live = m.live
    BY <2>1, <2>2
  <2>4. n = Freed(k, x)
    BY <1>4, <2>1 DEF Erase
  <2> QED
    BY <2>3, <2>4 DEF Freed
<1>6. n.live = m.live \ {x}
  BY <1>5
<1>7. /\ n.next \in [Nodes -> Pointers] /\ n.prev \in [Nodes -> Pointers]
      /\ n.next[m.prev[x]] = m.next[x]
      /\ \A y \in m.live \ {x} : y # m.prev[x] => n.next[y] = m.next[y]
      /\ n.prev[m.next[x]] = m.prev[x]
      /\ \A y \in m.live \ {x} : y # m.next[x] => n.prev[y] = m.prev[y]
  <2>1. /\ n.next = [[m.next EXCEPT ![m.prev[x]] = m.next[x]] EXCEPT ![x] = Nowhere]
        /\ n.prev = [[m.prev EXCEPT ![m.next[x]] = m.prev[x]] EXCEPT ![x] = Nowhere]
    BY <1>5
  <2>2. PICK f, g, a, b, nf, ng :
          /\ f = m.next /\ g = m.prev /\ a = m.prev[x] /\ b = m.next[x]
          /\ nf = n.next /\ ng = n.prev
    OBVIOUS
  <2>3. /\ nf = [[f EXCEPT ![a] = b] EXCEPT ![x] = Nowhere]
        /\ ng = [[g EXCEPT ![b] = a] EXCEPT ![x] = Nowhere]
    BY <2>1, <2>2
  <2>4. /\ f \in [Nodes -> Pointers] /\ g \in [Nodes -> Pointers] /\ m.live \in SUBSET Nodes
        /\ a \in m.live \ {x} /\ b \in m.live \ {x}
    BY <1>2, <1>3, <2>2
  <2>5. Nowhere \in Pointers /\ a \in Pointers /\ b \in Pointers
    BY <2>4 DEF Pointers
  <2>6. nf \in [Nodes -> Pointers]
    BY ONLY <2>3, <2>4, <2>5
  <2>7. ng \in [Nodes -> Pointers]
    BY ONLY <2>3, <2>4, <2>5
  <2>8. nf[a] = b /\ \A y \in m.live \ {x} : y # a => nf[y] = f[y]
    BY ONLY <2>3, <2>4
  <2>9. ng[b] = a /\ \A y \in m.live \ {x} : y # b => ng[y] = g[y]
    BY ONLY <2>3, <2>4
  <2> QED
    BY ONLY <2>2, <2>6, <2>7, <2>8, <2>9
<1>8. n \in Memories
  <2>1. n.data \in [Nodes -> Values \cup {Null}] /\ n.live \in SUBSET Nodes
    BY <1>3, <1>5
  <2>2. n = [next |-> n.next, prev |-> n.prev, data |-> n.data, live |-> n.live]
    BY <1>5
  <2> QED
    BY <1>7, <2>1, <2>2 DEF Memories
<1>9. Rings(n.next, n.prev, m.live \ {x}, E, o1)
  BY <1>1, <1>7, RingsNarrowed
<1>10. Cardinality(m.live \ {x}) = Cardinality(m.live) - 1
  BY <1>3, FS_RemoveElement
<1> QED
  BY <1>4, <1>6, <1>7, <1>8, <1>9, <1>10 DEF Whole

(* Other data in the same rings.                                           *)
LEMMA DataWhole ==
  ASSUME NEW m, NEW E, NEW o, Whole(m, E, o), NEW x \in Nodes, NEW v \in Values \cup {Null},
         NEW n, n = [m EXCEPT !.data[x] = v]
  PROVE  Whole(n, E, o) /\ n.next = m.next /\ n.prev = m.prev /\ n.live = m.live
<1>1. m \in Memories /\ Rings(m.next, m.prev, m.live, E, o)
  BY DEF Whole
<1>2. /\ m.next \in [Nodes -> Pointers] /\ m.prev \in [Nodes -> Pointers]
      /\ m.data \in [Nodes -> Values \cup {Null}] /\ m.live \in SUBSET Nodes
  BY <1>1, Fields
<1>3. m = [next |-> m.next, prev |-> m.prev, data |-> m.data, live |-> m.live]
  BY <1>1 DEF Memories
<1>4. n = [next |-> m.next, prev |-> m.prev, data |-> [m.data EXCEPT ![x] = v], live |-> m.live]
  BY <1>3
<1>5. n \in Memories
  <2>1. PICK f, g, d, w : f = m.next /\ g = m.prev /\ d = [m.data EXCEPT ![x] = v] /\ w = m.live
    OBVIOUS
  <2>2. d \in [Nodes -> Values \cup {Null}]
    BY <1>2, <2>1
  <2>3. f \in [Nodes -> Pointers] /\ g \in [Nodes -> Pointers] /\ w \in SUBSET Nodes
    BY ONLY <1>2, <2>1
  <2>4. n = [next |-> f, prev |-> g, data |-> d, live |-> w]
    BY ONLY <1>4, <2>1
  <2> QED
    BY ONLY <2>2, <2>3, <2>4 DEF Memories
<1>6. n.next = m.next /\ n.prev = m.prev /\ n.live = m.live
  BY ONLY <1>4
<1>7. Rings(n.next, n.prev, n.live, E, o)
  BY ONLY <1>1, <1>6
<1>8. Whole(n, E, o)
  BY ONLY <1>5, <1>7 DEF Whole
<1> QED
  BY ONLY <1>6, <1>8
-----------------------------------------------------------------------------
(***************************************************************************)
(* The ring of a list as a sequence of its nodes.                          *)
(***************************************************************************)
Numbers(s, a, b, T) ==
  /\ \A i, j \in a..b : s[i] = s[j] => i = j
  /\ \A x \in T : \E i \in a..b : x = s[i]
  /\ \A i \in a..b : s[i] \in T

LEMMA PartCounted ==
  ASSUME NEW s, NEW a \in Int, NEW b \in Int, NEW T, Numbers(s, a, b, T)
  PROVE  IsFiniteSet(T) /\ Cardinality(T) = IF a > b THEN 0 ELSE b - a + 1
<1>0. /\ \A i, j \in a..b : s[i] = s[j] => i = j
      /\ \A x \in T : \E i \in a..b : x = s[i]
      /\ \A i \in a..b : s[i] \in T
  BY DEF Numbers
<1>1. IsFiniteSet(a..b) /\ Cardinality(a..b) = IF a > b THEN 0 ELSE b - a + 1
  BY FS_Interval
<1>2. PICK f : f = [i \in a..b |-> s[i]]
  OBVIOUS
<1>3. f \in Bijection(a..b, T)
  <2>1. f \in [a..b -> T]
    BY <1>0, <1>2
  <2>2. \A i, j \in a..b : f[i] = f[j] => i = j
    BY <1>0, <1>2
  <2>3. \A z \in T : \E i \in a..b : f[i] = z
    BY <1>0, <1>2
  <2> QED
    BY <2>1, <2>2, <2>3 DEF Bijection, Injection, Surjection, IsInjective
<1> QED
  BY <1>1, <1>3, FS_Bijection DEF ExistsBijection

(* A way along nx from the end node e that meets no node twice.            *)
Trail(nx, S, e, s) ==
  /\ s \in Seq(Nodes) /\ Len(s) >= 1 /\ s[1] = e
  /\ \A i, j \in 1..Len(s) : s[i] = s[j] => i = j
  /\ \A i \in 1..Len(s) : s[i] \in S
  /\ \A i \in 1..(Len(s) - 1) : nx[s[i]] = s[i + 1]

Circle(nx, S, e, s) ==
  /\ Trail(nx, S, e, s)
  /\ Len(s) = Cardinality(S)
  /\ \A x \in S : \E i \in 1..Len(s) : s[i] = x
  /\ nx[s[Len(s)]] = e

LEMMA TrailLonger ==
  ASSUME NEW nx, NEW S \in SUBSET Nodes, NEW e, NEW s, Trail(nx, S, e, s),
         nx[s[Len(s)]] \in S, \A i \in DOMAIN s : s[i] # nx[s[Len(s)]]
  PROVE  /\ Trail(nx, S, e, Append(s, nx[s[Len(s)]]))
         /\ Len(Append(s, nx[s[Len(s)]])) = Len(s) + 1
         /\ Len(s) + 1 <= Cardinality(S)
<1>1. PICK x : x = nx[s[Len(s)]]
  OBVIOUS
<1>2. /\ s \in Seq(Nodes) /\ Len(s) \in Nat /\ Len(s) >= 1 /\ s[1] = e
      /\ \A i, j \in 1..Len(s) : s[i] = s[j] => i = j
      /\ \A i \in 1..Len(s) : s[i] \in S
      /\ \A i \in 1..(Len(s) - 1) : nx[s[i]] = s[i + 1]
      /\ DOMAIN s = 1..Len(s)
  BY DEF Trail
<1>3. PICK t : t = Append(s, x)
  OBVIOUS
<1>4. /\ t \in Seq(Nodes) /\ Len(t) = Len(s) + 1 /\ t[Len(s) + 1] = x
      /\ \A i \in 1..Len(s) : t[i] = s[i]
  BY <1>1, <1>2, <1>3
<1>5. \A i \in 1..(Len(s) + 1) : i \in 1..Len(s) \/ i = Len(s) + 1
  BY <1>2
<1>6. \A i, j \in 1..Len(t) : t[i] = t[j] => i = j
  BY <1>1, <1>2, <1>4, <1>5
<1>7. \A i \in 1..Len(t) : t[i] \in S
  BY <1>1, <1>2, <1>4, <1>5
<1>8. ASSUME NEW i \in 1..(Len(t) - 1) PROVE nx[t[i]] = t[i + 1]
  <2>1. i \in 1..Len(s) /\ t[i] = s[i]
    BY <1>2, <1>4
  <2>2. CASE i = Len(s)
    BY <1>1, <1>4, <2>1, <2>2
  <2>3. CASE i # Len(s)
    <3>0. Len(s) \in Nat /\ i \in 1..Len(s)
      BY <1>2, <2>1
    <3>1. i \in 1..(Len(s) - 1) /\ i + 1 \in 1..Len(s)
      BY <2>3, <3>0
    <3> QED
      BY <1>2, <1>4, <2>1, <3>1
  <2> QED
    BY <2>2, <2>3
<1>9. Trail(nx, S, e, t)
  BY <1>2, <1>4, <1>6, <1>7, <1>8 DEF Trail
<1>10. Len(s) + 1 <= Cardinality(S)
  <2>0. PICK T : T = {t[i] : i \in 1..Len(t)}
    OBVIOUS
  <2>1. IsFiniteSet(S) /\ T \in SUBSET S
    BY <1>7, <2>0, FiniteNodes
  <2>2. Cardinality(T) = IF 1 > Len(t) THEN 0 ELSE Len(t) - 1 + 1
    <3>1. 1 \in Int /\ Len(t) \in Int
      BY <1>2, <1>4
    <3>2. Numbers(t, 1, Len(t), T)
      BY <1>6, <2>0 DEF Numbers
    <3> QED
      BY <3>1, <3>2, PartCounted
  <2>3. Cardinality(T) <= Cardinality(S)
    BY <2>1, FS_Subset
  <2> QED
    BY <1>2, <1>4, <2>2, <2>3
<1> QED
  BY <1>1, <1>3, <1>4, <1>9, <1>10

LEMMA TrailIsCircle ==
  ASSUME NEW nx, NEW pv, NEW L, NEW E, NEW o, Rings(nx, pv, L, E, o), NEW e \in E,
         NEW s, Trail(nx, RingOf(L, o, e), e, s),
         NEW i \in 1..Len(s), s[i] = nx[s[Len(s)]]
  PROVE  Circle(nx, RingOf(L, o, e), e, s)
<1>1. /\ L \in SUBSET Nodes /\ E \in SUBSET L
      /\ Mutual(nx, pv, L) /\ Owned(nx, L, E, o) /\ HasEnds(nx, L, E)
  BY DEF Rings
<1>2. /\ s \in Seq(Nodes) /\ Len(s) \in Nat /\ Len(s) >= 1 /\ s[1] = e
      /\ \A k, j \in 1..Len(s) : s[k] = s[j] => k = j
      /\ \A k \in 1..Len(s) : s[k] \in RingOf(L, o, e)
      /\ \A k \in 1..(Len(s) - 1) : nx[s[k]] = s[k + 1]
  BY DEF Trail
<1>3. \A k \in 1..Len(s) : s[k] \in L /\ pv[nx[s[k]]] = s[k]
  BY <1>1, <1>2 DEF RingOf, Mutual
<1>4. Len(s) \in 1..Len(s)
  BY <1>2
<1>5. i = 1
  <2> SUFFICES ASSUME i # 1 PROVE FALSE
    OBVIOUS
  <2>1. i - 1 \in 1..(Len(s) - 1) /\ i - 1 \in 1..Len(s) /\ (i - 1) + 1 = i /\ i - 1 # Len(s)
    BY <1>2
  <2>2. nx[s[i - 1]] = nx[s[Len(s)]]
    BY <1>2, <2>1
  <2>3. s[i - 1] = s[Len(s)]
    BY <1>3, <1>4, <2>1, <2>2
  <2> QED
    BY <1>2, <1>4, <2>1, <2>3
<1>6. nx[s[Len(s)]] = e
  BY <1>2, <1>5
<1> DEFINE T == RingOf(L, o, e) \ {s[k] : k \in 1..Len(s)}
<1>7. ASSUME NEW y \in T PROVE nx[y] \in T
  <2>1. y \in L /\ nx[y] \in RingOf(L, o, e) /\ pv[nx[y]] = y
    BY <1>1, <1>7 DEF RingOf, Mutual, Owned
  <2>2. ASSUME NEW k \in 1..Len(s), nx[y] = s[k] PROVE FALSE
    <3>1. CASE k = 1
      <4>1. pv[nx[s[Len(s)]]] = s[Len(s)]
        BY <1>3, <1>4
      <4>2. y = s[Len(s)]
        BY <1>2, <1>6, <2>1, <2>2, <3>1, <4>1
      <4> QED
        BY <1>4, <1>7, <4>2
    <3>2. CASE k # 1
      <4>1. k - 1 \in 1..(Len(s) - 1) /\ k - 1 \in 1..Len(s) /\ (k - 1) + 1 = k
        BY <1>2, <3>2
      <4>2. nx[s[k - 1]] = s[k] /\ pv[nx[s[k - 1]]] = s[k - 1]
        BY <1>2, <1>3, <4>1
      <4>3. y = s[k - 1]
        BY <2>1, <2>2, <4>2
      <4> QED
        BY <1>7, <4>1, <4>3
    <3> QED
      BY <3>1, <3>2
  <2> QED
    BY <2>1, <2>2
<1>8. T = {}
  <2> SUFFICES ASSUME T # {} PROVE FALSE
    OBVIOUS
  <2>1. T \in SUBSET L /\ Onward(T, nx)
    BY <1>7 DEF Onward, RingOf
  <2>2. PICK d \in E : d \in T
    BY <1>1, <2>1 DEF HasEnds
  <2>3. d = e
    BY <1>1, <2>2 DEF Owned, RingOf
  <2>4. e \in {s[k] : k \in 1..Len(s)}
    BY <1>2
  <2> QED
    BY <2>2, <2>3, <2>4
<1>9. RingOf(L, o, e) = {s[k] : k \in 1..Len(s)}
  BY <1>2, <1>8
<1>10. Len(s) = Cardinality(RingOf(L, o, e))
  <2>1. 1 \in Int /\ Len(s) \in Int
    BY <1>2
  <2>2. PICK S : S = RingOf(L, o, e)
    OBVIOUS
  <2>3. Numbers(s, 1, Len(s), S)
    BY <1>2, <1>9, <2>2 DEF Numbers
  <2>4. Cardinality(S) = IF 1 > Len(s) THEN 0 ELSE Len(s) - 1 + 1
    BY <2>1, <2>3, PartCounted
  <2> QED
    BY <1>2, <2>2, <2>4
<1>11. \A x \in RingOf(L, o, e) : \E k \in 1..Len(s) : s[k] = x
  BY <1>9
<1> QED
  BY <1>6, <1>10, <1>11 DEF Circle

LEMMA RingIsCircle ==
  ASSUME NEW m, NEW E, NEW o, Whole(m, E, o), NEW e \in E
  PROVE  Circle(m.next, RingOf(m.live, o, e), e, Ring(m, e))
<1>1. m \in Memories /\ Rings(m.next, m.prev, m.live, E, o)
  BY DEF Whole
<1>2. /\ m.live \in SUBSET Nodes /\ E \in SUBSET m.live
      /\ Owned(m.next, m.live, E, o) /\ Mutual(m.next, m.prev, m.live)
      /\ Cardinality(m.live) \in Nat /\ IsFiniteSet(m.live)
  BY <1>1, Fields DEF Rings
<1>3. PICK S : S = RingOf(m.live, o, e)
  OBVIOUS
<1>4. PICK turn : turn = [s \in Seq(Nodes) |->
          LET x == m.next[s[Len(s)]]
          IN  IF \E i \in DOMAIN s : s[i] = x THEN s ELSE Append(s, x)]
  OBVIOUS
<1>5. Ring(m, e) = Loop(turn, <<e>>, Cardinality(m.live))
  BY <1>4 DEF Ring, Rounds
<1>6. PICK n : n = Cardinality(m.live)
  OBVIOUS
<1>7. S \in SUBSET m.live /\ Cardinality(S) \in Nat /\ Cardinality(S) <= n /\ e \in S
      /\ \A x \in S : m.next[x] \in S
  <2>1. S \in SUBSET m.live /\ e \in S /\ \A x \in S : m.next[x] \in S
    BY <1>2, <1>3 DEF RingOf, Owned, Mutual
  <2> QED
    BY <1>2, <1>6, <2>1, FS_Subset, FiniteNodes
<1>8. PICK J : J = [k \in 0..n |-> {s \in Seq(Nodes) : Trail(m.next, S, e, s) /\ Len(s) + k = n}]
  OBVIOUS
<1>9. n \in Nat /\ n >= 1
  <2>1. Cardinality(S) # 0
    BY <1>2, <1>7, FS_EmptySet, FS_Subset
  <2> QED
    BY <1>2, <1>6, <1>7, <2>1
<1>10. n - 1 \in 0..n /\ <<e>> \in J[n - 1]
  <2>0. PICK s : s = <<e>>
    OBVIOUS
  <2>1. s \in Seq(Nodes) /\ Len(s) = 1 /\ s[1] = e
    BY <1>2, <1>7, <2>0
  <2>2. Trail(m.next, S, e, s)
    BY <1>7, <2>1 DEF Trail
  <2>3. n - 1 \in 0..n /\ Len(s) + (n - 1) = n
    BY <1>9, <2>1
  <2>4. s \in J[n - 1]
    BY <1>8, <2>1, <2>2, <2>3
  <2> QED
    BY <2>0, <2>3, <2>4
<1>11. ASSUME NEW k \in 0..n, NEW r \in J[k]
       PROVE  turn[r] = r \/ (k > 0 /\ turn[r] \in J[k - 1])
  <2>1. r \in Seq(Nodes) /\ Trail(m.next, S, e, r) /\ Len(r) + k = n /\ Len(r) \in Nat
    BY <1>8, <1>11
  <2>2. turn[r] = IF \E i \in DOMAIN r : r[i] = m.next[r[Len(r)]] THEN r
                  ELSE Append(r, m.next[r[Len(r)]])
    BY <1>4, <2>1
  <2> SUFFICES ASSUME ~ \E i \in DOMAIN r : r[i] = m.next[r[Len(r)]]
               PROVE  k > 0 /\ turn[r] \in J[k - 1]
    BY <2>2
  <2>3. \A i \in DOMAIN r : r[i] # m.next[r[Len(r)]]
    OBVIOUS
  <2>4. m.next[r[Len(r)]] \in S /\ S \in SUBSET Nodes
    <3>1. Len(r) \in 1..Len(r) /\ r[Len(r)] \in S
      BY <2>1 DEF Trail
    <3> QED
      BY <1>2, <1>7, <3>1
  <2>5. PICK t : t = Append(r, m.next[r[Len(r)]])
    OBVIOUS
  <2>6. Trail(m.next, S, e, t) /\ Len(t) = Len(r) + 1 /\ Len(r) + 1 <= Cardinality(S)
    BY <2>1, <2>3, <2>4, <2>5, TrailLonger
  <2>7. turn[r] = t /\ t \in Seq(Nodes)
    BY <2>2, <2>3, <2>5, <2>6 DEF Trail
  <2>8. k - 1 \in 0..n /\ k > 0 /\ Len(t) + (k - 1) = n
    BY <1>7, <1>9, <2>1, <2>6
  <2> QED
    BY <1>8, <2>6, <2>7, <2>8
<1>12. PICK k \in 0..(n - 1) : Ring(m, e) \in J[k] /\ turn[Ring(m, e)] = Ring(m, e)
  BY <1>5, <1>6, <1>9, <1>10, <1>11, LoopEnds
<1>13. PICK r : r = Ring(m, e)
  OBVIOUS
<1>14. r \in Seq(Nodes) /\ Trail(m.next, S, e, r)
  <2>1. k \in 0..n
    BY <1>9
  <2> QED
    BY <1>8, <1>12, <1>13, <2>1
<1>15. turn[r] = IF \E i \in DOMAIN r : r[i] = m.next[r[Len(r)]] THEN r
                 ELSE Append(r, m.next[r[Len(r)]])
  BY <1>4, <1>14
<1>16. PICK i \in DOMAIN r : r[i] = m.next[r[Len(r)]]
  <2> SUFFICES ASSUME ~ \E i \in DOMAIN r : r[i] = m.next[r[Len(r)]]
               PROVE  FALSE
    OBVIOUS
  <2>1. PICK x : x = m.next[r[Len(r)]]
    OBVIOUS
  <2>2. r = Append(r, x)
    BY <1>12, <1>13, <1>15, <2>1
  <2>3. Len(Append(r, x)) = Len(r) + 1 /\ Len(r) \in Nat
    BY <1>14
  <2> QED
    BY <2>2, <2>3
<1>17. i \in 1..Len(r)
  BY <1>14, <1>16
<1> QED
  BY <1>1, <1>3, <1>13, <1>14, <1>16, <1>17, TrailIsCircle
(* Position i of a ring: the end node is one past the last.                *)
Nth(r, i) == IF i = Len(r) THEN r[1] ELSE r[i + 1]

LEMMA PositionsSpan ==
  ASSUME NEW nx, NEW pv, NEW L, NEW E, NEW o, Rings(nx, pv, L, E, o), NEW e \in E,
         NEW r, Circle(nx, RingOf(L, o, e), e, r),
         NEW i \in 1..Len(r), NEW j \in 1..Len(r), i <= j
  PROVE  \E R : /\ Span(nx, L, E, o, R, Nth(r, i), Nth(r, j)) /\ Cardinality(R) = j - i
               /\ \A k \in 1..Len(r) : k < i \/ k >= j => Nth(r, k) \notin R
<1>1. /\ L \in SUBSET Nodes /\ E \in SUBSET L
      /\ Mutual(nx, pv, L) /\ Owned(nx, L, E, o)
  BY DEF Rings
<1>2. /\ r \in Seq(Nodes) /\ Len(r) \in Nat /\ Len(r) >= 1 /\ r[1] = e
      /\ \A k, n \in 1..Len(r) : r[k] = r[n] => k = n
      /\ \A k \in 1..Len(r) : r[k] \in RingOf(L, o, e)
      /\ \A k \in 1..(Len(r) - 1) : nx[r[k]] = r[k + 1]
      /\ nx[r[Len(r)]] = e
  <2>1. Trail(nx, RingOf(L, o, e), e, r) /\ nx[r[Len(r)]] = e
    BY DEF Circle
  <2>2. r \in Seq(Nodes)
    BY <2>1 DEF Trail
  <2>3. Len(r) \in Nat
    BY <2>2
  <2> QED
    BY <2>1, <2>3 DEF Trail
<1>3. PICK R : R = {r[k] : k \in (i + 1)..j}
  OBVIOUS
<1>4. /\ \A k \in (i + 1)..j : k \in 1..Len(r) /\ k # 1 /\ k - 1 \in 1..(Len(r) - 1) /\ (k - 1) + 1 = k
      /\ 1 \in 1..Len(r) /\ Len(r) \in 1..Len(r)
  BY <1>2
<1>5. \A k \in 1..Len(r) : r[k] \in L /\ o[r[k]] = e
  BY <1>2 DEF RingOf
<1>6. Cardinality(R) = j - i
  <2>1. Numbers(r, i + 1, j, R)
    BY <1>2, <1>3, <1>4 DEF Numbers
  <2>2. i + 1 \in Int /\ j \in Int
    OBVIOUS
  <2>3. Cardinality(R) = IF i + 1 > j THEN 0 ELSE j - (i + 1) + 1
    BY <2>1, <2>2, PartCounted
  <2> QED
    BY <2>3
<1>7. \A k \in 1..Len(r) : Nth(r, k) \in L /\ o[Nth(r, k)] = e
  <2>1. ASSUME NEW k \in 1..Len(r), k # Len(r) PROVE k + 1 \in 1..Len(r)
    BY <1>2, <2>1
  <2> QED
    BY <1>4, <1>5, <2>1 DEF Nth
<1>8. R \in SUBSET (L \ E)
  <2>1. ASSUME NEW k \in (i + 1)..j PROVE r[k] \in L \ E
    <3>1. r[k] # e
      BY <1>2, <1>4
    <3> QED
      BY <1>1, <1>4, <1>5, <3>1 DEF Owned
  <2> QED
    BY <1>3, <2>1
<1>9. ASSUME NEW p \in 1..Len(r), p < i \/ p >= j PROVE Nth(r, p) \notin R
  <2> SUFFICES ASSUME NEW k \in (i + 1)..j, Nth(r, p) = r[k] PROVE FALSE
    BY <1>3
  <2>1. CASE p = Len(r)
    BY <1>2, <1>4, <2>1 DEF Nth
  <2>2. CASE p # Len(r)
    <3>1. p + 1 \in 1..Len(r) /\ k # p + 1
      BY <1>2, <1>9, <2>2
    <3> QED
      BY <1>2, <1>4, <2>2, <3>1 DEF Nth
  <2> QED
    BY <2>1, <2>2
<1>17. Nth(r, j) \notin R
  BY <1>9
<1>10. i < j => i # Len(r) /\ Nth(r, i) = r[i + 1] /\ i + 1 \in (i + 1)..j
  BY <1>2 DEF Nth
<1>11. R # {} <=> i < j
  BY <1>3, <1>10
<1>12. R # {} => Nth(r, i) \in R
  BY <1>3, <1>10, <1>11
<1>13. Nth(r, i) = Nth(r, j) <=> R = {}
  <2>1. CASE i < j
    BY <1>17, <1>11, <1>12, <2>1
  <2>2. CASE i = j
    BY <1>11, <2>2
  <2> QED
    BY <2>1, <2>2
<1>14. ASSUME NEW x \in R PROVE nx[x] \in R \cup {Nth(r, j)} /\ o[x] = o[Nth(r, j)]
  <2>1. PICK k \in (i + 1)..j : x = r[k]
    BY <1>3, <1>14
  <2>2. o[x] = o[Nth(r, j)]
    BY <1>4, <1>5, <1>7, <2>1
  <2>3. ASSUME k = Len(r) PROVE nx[x] = Nth(r, j)
    <3>1. j = Len(r)
      BY <1>2, <2>3
    <3> QED
      BY <1>2, <2>1, <2>3, <3>1 DEF Nth
  <2>4. ASSUME k # Len(r) PROVE nx[x] \in R \cup {Nth(r, j)}
    <3>1. k \in 1..(Len(r) - 1) /\ nx[x] = r[k + 1]
      BY <1>2, <1>4, <2>1, <2>4
    <3>2. CASE k = j
      <4>1. Nth(r, j) = r[k + 1]
        BY <2>4, <3>2 DEF Nth
      <4> QED
        BY <3>1, <4>1
    <3>3. CASE k # j
      <4>1. k + 1 \in (i + 1)..j
        BY <3>3
      <4> QED
        BY <1>3, <3>1, <4>1
    <3> QED
      BY <3>2, <3>3
  <2> QED
    BY <2>2, <2>3, <2>4
<1>15. ASSUME NEW x \in L \ R, nx[x] \in R PROVE nx[x] = Nth(r, i)
  <2>1. PICK k \in (i + 1)..j : nx[x] = r[k]
    BY <1>3, <1>15
  <2>2. nx[r[k - 1]] = r[k] /\ r[k - 1] \in L
    <3>1. k - 1 \in 1..(Len(r) - 1) /\ (k - 1) + 1 = k /\ k - 1 \in 1..Len(r)
      BY <1>4
    <3> QED
      BY <1>2, <1>5, <3>1
  <2>3. x = r[k - 1]
    BY <1>1, <1>15, <2>1, <2>2 DEF Mutual
  <2>4. k - 1 \notin (i + 1)..j
    BY <1>3, <1>15, <2>3
  <2>5. k = i + 1 /\ i < j
    BY <2>4
  <2> QED
    BY <1>10, <2>1, <2>5
<1>16. Span(nx, L, E, o, R, Nth(r, i), Nth(r, j))
  BY <1>7, <1>8, <1>17, <1>12, <1>13, <1>14, <1>15 DEF Span
<1> QED
  BY <1>6, <1>9, <1>16

(* All values of a list, and one node.                                     *)
LEMMA WholeSpan ==
  ASSUME NEW nx, NEW pv, NEW L, NEW E, NEW o, Rings(nx, pv, L, E, o), NEW e \in E
  PROVE  Span(nx, L, E, o, Values0(L, o, e), nx[e], e)
<1>1. /\ L \in SUBSET Nodes /\ E \in SUBSET L
      /\ Mutual(nx, pv, L) /\ Owned(nx, L, E, o)
  BY DEF Rings
<1>2. PICK R : R = Values0(L, o, e)
  OBVIOUS
<1>3. R = {x \in L : o[x] = e /\ x # e}
  BY <1>2 DEF Values0, RingOf
<1>4. R \in SUBSET (L \ E) /\ e \in L \ R /\ o[e] = e /\ nx[e] \in L /\ o[nx[e]] = e
  BY <1>1, <1>3 DEF Owned, Mutual
<1>5. nx[e] = e <=> R = {}
  BY <1>2, AloneIsEmpty
<1>6. R # {} => nx[e] \in R
  BY <1>3, <1>4, <1>5
<1>7. \A x \in R : nx[x] \in R \cup {e} /\ o[x] = o[e]
  BY <1>1, <1>3, <1>4 DEF Owned, Mutual
<1>8. \A x \in L \ R : nx[x] \in R => nx[x] = nx[e]
  BY <1>1, <1>3 DEF Owned
<1> QED
  BY <1>2, <1>4, <1>5, <1>6, <1>7, <1>8 DEF Span

LEMMA NodeSpan ==
  ASSUME NEW nx, NEW pv, NEW L, NEW E, NEW o, Rings(nx, pv, L, E, o), NEW x \in L \ E
  PROVE  Span(nx, L, E, o, {x}, x, nx[x])
<1>1. nx[x] \in L \ {x} /\ o[nx[x]] = o[x]
  BY HasNeighbours, OwnerBefore
<1> QED
  BY <1>1 DEF Span

LEMMA TransferWhole ==
  ASSUME NEW m, NEW E, NEW o, Whole(m, E, o), NEW R, NEW first, NEW last,
         Span(m.next, m.live, E, o, R, first, last), R # {}, NEW pos \in m.live \ R,
         NEW o1, o1 = [x \in m.live |-> IF x \in R THEN o[pos] ELSE o[x]]
  PROVE  /\ Whole(Transfer(m, pos, first, last), E, o1)
         /\ Transfer(m, pos, first, last).live = m.live
         /\ pos # last => Moves(m.next, m.prev, Transfer(m, pos, first, last).next,
                                Transfer(m, pos, first, last).prev, m.live, pos, first, last)
<1>1. m \in Memories /\ Rings(m.next, m.prev, m.live, E, o)
  BY DEF Whole
<1>2. /\ m.next \in [Nodes -> Pointers] /\ m.prev \in [Nodes -> Pointers]
      /\ m.data \in [Nodes -> Values \cup {Null}] /\ m.live \in SUBSET Nodes
      /\ Mutual(m.next, m.prev, m.live)
  BY <1>1, Fields DEF Rings
<1>3. PICK n : n = Transfer(m, pos, first, last)
  OBVIOUS
<1>4. CASE pos = last
  <2>1. n = m
    BY <1>3, <1>4 DEF Transfer
  <2>2. o \in [m.live -> E] /\ \A x \in R : o[x] = o[pos]
    BY <1>1, <1>4 DEF Rings, Owned, Span
  <2>3. o1 = o
    BY <2>2
  <2> QED
    BY <1>3, <1>4, <2>1, <2>3
<1>5. CASE pos # last
  <2>1. /\ first \in R /\ R \in SUBSET m.live /\ last \in m.live \ R
        /\ m.prev[last] \in R /\ m.prev[first] \in m.live \ R
    <3>1. first \in R /\ R \in SUBSET m.live /\ last \in m.live \ R
      BY DEF Span
    <3> QED
      BY <1>1, <3>1, SpanEnds
  <2>2. m.prev[pos] \in m.live /\ m.prev[pos] # m.prev[first] /\ m.prev[pos] \notin R
    <3>1. /\ m.prev[pos] \in m.live /\ m.next[m.prev[pos]] = pos
          /\ m.next[m.prev[first]] = first
      BY <1>2, <2>1 DEF Mutual
    <3>2. m.prev[pos] \notin R
      BY <1>5, <3>1 DEF Span
    <3> QED
      BY <2>1, <3>1, <3>2
  <2>3. m = [next |-> m.next, prev |-> m.prev, data |-> m.data, live |-> m.live]
    BY <1>1 DEF Memories
  <2>4. PICK p : p = [m.prev EXCEPT ![pos] = m.prev[last]]
    OBVIOUS
  <2>5. PICK q : q = [p EXCEPT ![last] = p[first]]
    OBVIOUS
  <2>6. PICK nx : nx = [m.next EXCEPT ![m.prev[last]] = pos, ![m.prev[first]] = last,
                                      ![m.prev[pos]] = first]
    OBVIOUS
  <2>7. PICK pv : pv = [q EXCEPT ![first] = m.prev[pos]]
    OBVIOUS
  <2>8. n = [m EXCEPT !.next = nx, !.prev = pv]
    <3>1. [m EXCEPT !.next = [@ EXCEPT ![m.prev[last]] = pos, ![m.prev[first]] = last,
                                       ![m.prev[pos]] = first],
                    !.prev = pv]
          = [m EXCEPT !.next = nx, !.prev = pv]
      BY <2>6
    <3> QED
      BY <1>3, <1>5, <2>4, <2>5, <2>7, <3>1 DEF Transfer
  <2>9. n = [next |-> nx, prev |-> pv, data |-> m.data, live |-> m.live]
    BY <2>3, <2>8
  <2>10. p \in [Nodes -> Pointers] /\ p[pos] = m.prev[last] /\ \A x \in Nodes : x # pos => p[x] = m.prev[x]
    BY <1>2, <2>1, <2>4 DEF Pointers
  <2>11. /\ q \in [Nodes -> Pointers] /\ q[last] = m.prev[first] /\ q[pos] = m.prev[last]
         /\ \A x \in Nodes : x # pos /\ x # last => q[x] = m.prev[x]
    <3>1. first # pos /\ first \in Nodes /\ last \in Nodes
      BY <1>2, <2>1
    <3> QED
      BY <1>2, <1>5, <2>1, <2>5, <2>10, <3>1 DEF Pointers
  <2>12. /\ pv \in [Nodes -> Pointers] /\ pv[first] = m.prev[pos] /\ pv[last] = m.prev[first]
         /\ pv[pos] = m.prev[last]
         /\ \A x \in Nodes : x # pos /\ x # last /\ x # first => pv[x] = m.prev[x]
    <3>1. first # pos /\ first # last /\ first \in Nodes
      BY <1>2, <2>1
    <3> QED
      BY <1>2, <2>1, <2>2, <2>7, <2>11, <3>1 DEF Pointers
  <2>13. /\ nx \in [Nodes -> Pointers]
         /\ nx[m.prev[last]] = pos /\ nx[m.prev[first]] = last /\ nx[m.prev[pos]] = first
         /\ \A x \in Nodes : x \notin {m.prev[last], m.prev[first], m.prev[pos]} => nx[x] = m.next[x]
    <3>1. /\ m.prev[last] # m.prev[first] /\ m.prev[last] # m.prev[pos]
          /\ m.prev[first] # m.prev[pos]
          /\ m.prev[last] \in Nodes /\ m.prev[first] \in Nodes /\ m.prev[pos] \in Nodes
      BY <1>2, <2>1, <2>2
    <3> QED
      BY <1>2, <2>1, <2>6, <3>1 DEF Pointers
  <2>14. Moves(m.next, m.prev, nx, pv, m.live, pos, first, last)
    BY <1>2, <2>12, <2>13 DEF Moves
  <2>15. Rings(nx, pv, m.live, E, o1)
    BY <1>1, <1>5, <2>14, RingsMoved
  <2>16. n.next = nx /\ n.prev = pv /\ n.live = m.live /\ n \in Memories
    BY <1>2, <2>9, <2>12, <2>13 DEF Memories
  <2> QED
    BY <1>3, <2>14, <2>15, <2>16 DEF Whole
<1> QED
  BY <1>4, <1>5
-----------------------------------------------------------------------------
(***************************************************************************)
(* Loops that insert and erase.  An operator may make of the memory m one  *)
(* with the same end nodes, at most n nodes and owners as Confined says.   *)
(***************************************************************************)
Becomes(m, E, o, m1, A, n) ==
  \E o1 : Whole(m1, E, o1) /\ Confined(m, o, m1, o1, A) /\ Cardinality(m1.live) <= n

LEMMA ConfinedThen ==
  ASSUME NEW m, NEW o, NEW m1, NEW o1, NEW m2, NEW o2, NEW A,
         Confined(m, o, m1, o1, A), Confined(m1, o1, m2, o2, A)
  PROVE  Confined(m, o, m2, o2, A)
BY DEF Confined

LEMMA WholeFacts ==
  ASSUME NEW m, NEW E, NEW o, Whole(m, E, o)
  PROVE  /\ m \in Memories /\ Rings(m.next, m.prev, m.live, E, o)
         /\ m.live \in SUBSET Nodes /\ IsFiniteSet(m.live) /\ Cardinality(m.live) \in Nat
         /\ E \in SUBSET m.live /\ o \in [m.live -> E] /\ \A e \in E : o[e] = e
         /\ \A x \in m.live : /\ m.next[x] \in m.live /\ m.prev[x] \in m.live
                              /\ o[m.next[x]] = o[x] /\ o[m.prev[x]] = o[x]
                              /\ m.prev[m.next[x]] = x /\ m.next[m.prev[x]] = x
<1>1. m \in Memories /\ Rings(m.next, m.prev, m.live, E, o)
  BY DEF Whole
<1>2. m.live \in SUBSET Nodes /\ IsFiniteSet(m.live) /\ Cardinality(m.live) \in Nat
  BY <1>1, Fields
<1>3. E \in SUBSET m.live /\ o \in [m.live -> E] /\ \A e \in E : o[e] = e
  BY <1>1 DEF Rings, Owned
<1>4. \A x \in m.live : /\ m.next[x] \in m.live /\ m.prev[x] \in m.live
                        /\ o[m.next[x]] = o[x] /\ o[m.prev[x]] = o[x]
  BY <1>1, OwnerBefore
<1>5. \A x \in m.live : m.prev[m.next[x]] = x /\ m.next[m.prev[x]] = x
  BY <1>1 DEF Rings, Mutual
<1> QED
  BY <1>1, <1>2, <1>3, <1>4, <1>5

LEMMA InsertBecomes ==
  ASSUME NEW m, NEW E, NEW o, Whole(m, E, o), Cardinality(m.live) < Cardinality(Nodes),
         NEW pos \in m.live, NEW v \in Values \cup {Null}
  PROVE  \E o1 : /\ Whole(Insert(m, pos, v), E, o1)
                 /\ Confined(m, o, Insert(m, pos, v), o1, {o[pos]})
                 /\ Cardinality(Insert(m, pos, v).live) = Cardinality(m.live) + 1
                 /\ \A x \in m.live : x \in Insert(m, pos, v).live /\ o1[x] = o[x]
<1>1. PICK t : t = Fresh(m)
  OBVIOUS
<1>2. PICK o1 : o1 = [x \in m.live \cup {t} |-> IF x = t THEN o[pos] ELSE o[x]]
  OBVIOUS
<1>3. PICK n : n = Insert(m, pos, v)
  OBVIOUS
<1>4. /\ Whole(n, E, o1) /\ n.live = m.live \cup {t} /\ t \in Nodes \ m.live
      /\ Cardinality(n.live) = Cardinality(m.live) + 1
  <2>1. /\ Whole(Insert(m, pos, v), E, o1)
        /\ Insert(m, pos, v).live = m.live \cup {t} /\ t \in Nodes \ m.live
        /\ Cardinality(Insert(m, pos, v).live) = Cardinality(m.live) + 1
    BY <1>1, <1>2, InsertWhole
  <2> QED
    BY <1>3, <2>1
<1>5. \A x \in m.live : x \in n.live /\ o1[x] = o[x]
  BY <1>2, <1>4
<1>6. Confined(m, o, n, o1, {o[pos]})
  BY <1>2, <1>4 DEF Confined
<1> QED
  BY <1>3, <1>4, <1>5, <1>6

LEMMA InsertManyBecomes ==
  ASSUME NEW m, NEW E, NEW o, Whole(m, E, o), NEW pos \in m.live, NEW count \in Nat,
         Cardinality(m.live) + count <= Cardinality(Nodes), NEW v \in Values \cup {Null}
  PROVE  Becomes(m, E, o, InsertMany(m, pos, count, v), {o[pos]}, Cardinality(m.live) + count)
<1>1. PICK turn : turn = [k \in Memories |-> Insert(k, pos, v)]
  OBVIOUS
<1>2. InsertMany(m, pos, count, v) = Loop(turn, m, count)
  BY <1>1 DEF InsertMany
<1>3. m.live \in SUBSET Nodes /\ m \in Memories /\ Cardinality(m.live) \in Nat
  BY WholeFacts
<1>4. Cardinality(Nodes) \in Nat
  BY FiniteNodes
<1> DEFINE Goes(k, i) == \E o1 : /\ Whole(k, E, o1) /\ Confined(m, o, k, o1, {o[pos]})
                                 /\ pos \in k.live /\ o1[pos] = o[pos]
                                 /\ Cardinality(k.live) = Cardinality(m.live) + i
<1>5. PICK J : J = [i \in 0..count |-> {k \in Memories : Goes(k, i)}]
  OBVIOUS
<1>6. m \in J[0]
  <2>1. Confined(m, o, m, o, {o[pos]})
    BY DEF Confined
  <2>2. Goes(m, 0)
    BY <1>3, <2>1
  <2>3. 0 \in 0..count
    OBVIOUS
  <2> HIDE DEF Goes
  <2> QED
    BY <1>3, <1>5, <2>2, <2>3
<1>7. ASSUME NEW i \in 0..(count - 1), NEW k \in J[i] PROVE turn[k] \in J[i + 1]
  <2>1. i \in 0..count /\ i + 1 \in 0..count
    OBVIOUS
  <2>2. k \in Memories /\ Goes(k, i)
    BY <1>5, <2>1
  <2>3. PICK o1 : /\ Whole(k, E, o1) /\ Confined(m, o, k, o1, {o[pos]})
                  /\ pos \in k.live /\ o1[pos] = o[pos]
                  /\ Cardinality(k.live) = Cardinality(m.live) + i
    BY <2>2
  <2>4. Cardinality(k.live) < Cardinality(Nodes)
    BY <1>3, <1>4, <2>3
  <2>5. PICK n : n = Insert(k, pos, v)
    OBVIOUS
  <2>6. PICK o2 : /\ Whole(n, E, o2) /\ Confined(k, o1, n, o2, {o1[pos]})
                  /\ Cardinality(n.live) = Cardinality(k.live) + 1
                  /\ \A x \in k.live : x \in n.live /\ o2[x] = o1[x]
    <3>1. PICK o2 : /\ Whole(Insert(k, pos, v), E, o2)
                    /\ Confined(k, o1, Insert(k, pos, v), o2, {o1[pos]})
                    /\ Cardinality(Insert(k, pos, v).live) = Cardinality(k.live) + 1
                    /\ \A x \in k.live : x \in Insert(k, pos, v).live /\ o2[x] = o1[x]
      BY <2>3, <2>4, InsertBecomes
    <3> QED
      BY <2>5, <3>1
  <2>7. Confined(m, o, n, o2, {o[pos]})
    BY <2>3, <2>6, ConfinedThen
  <2>8. n \in Memories
    BY <2>6 DEF Whole
  <2>9. Cardinality(n.live) = Cardinality(m.live) + (i + 1)
    BY <1>3, <2>3, <2>6
  <2>10. Goes(n, i + 1)
    BY <2>3, <2>6, <2>7, <2>9
  <2>11. turn[k] = n
    BY <1>1, <2>2, <2>5
  <2> HIDE DEF Goes
  <2> QED
    BY <1>5, <2>1, <2>8, <2>10, <2>11
<1>8. Loop(turn, m, count) \in J[count]
  <2> HIDE DEF Goes
  <2> QED
    BY <1>6, <1>7, LoopCounts
<1>9. Goes(Loop(turn, m, count), count)
  <2> HIDE DEF Goes
  <2> QED
    BY <1>5, <1>8
<1> QED
  BY <1>2, <1>3, <1>9 DEF Becomes

(* The nodes R from first to last in a memory.                             *)
Stretch(m, E, o, R, first, last) ==
  Whole(m, E, o) /\ Span(m.next, m.live, E, o, R, first, last)

LEMMA StretchFacts ==
  ASSUME NEW m, NEW E, NEW o, NEW R, NEW first, NEW last, Stretch(m, E, o, R, first, last)
  PROVE  /\ R \in SUBSET (m.live \ E) /\ first \in m.live /\ last \in m.live \ R
         /\ first \in Nodes /\ last \in Nodes
         /\ IsFiniteSet(R) /\ Cardinality(R) \in Nat /\ Cardinality(R) <= Cardinality(m.live)
         /\ (first = last <=> Cardinality(R) = 0) /\ (first = last <=> R = {})
         /\ o[first] = o[last]
<1>1. /\ R \in SUBSET (m.live \ E) /\ first \in m.live /\ last \in m.live \ R
      /\ first = last <=> R = {}
      /\ R # {} => first \in R
      /\ \A x \in R : o[x] = o[last]
  BY DEF Stretch, Span
<1>2. m.live \in SUBSET Nodes /\ IsFiniteSet(m.live)
  BY WholeFacts DEF Stretch
<1>3. R \in SUBSET m.live
  BY <1>1
<1>4. IsFiniteSet(R) /\ Cardinality(R) <= Cardinality(m.live)
  BY <1>2, <1>3, FS_Subset
<1>5. Cardinality(R) \in Nat /\ (Cardinality(R) = 0 <=> R = {})
  BY <1>4, FS_CardinalityType, FS_EmptySet
<1> QED
  BY <1>1, <1>2, <1>4, <1>5

LeadsOn(m, E, o, R, first, last) ==
  /\ first \in R /\ first \in m.live \ E
  /\ Cardinality(R \ {first}) = Cardinality(R) - 1 /\ Cardinality(R) > 0
  /\ Stretch(m, E, o, R \ {first}, m.next[first], last)
  /\ m.prev[first] \notin R /\ m.next[first] # first /\ m.next[first] \in Nodes

LEMMA StretchOnward ==
  ASSUME NEW m, NEW E, NEW o, NEW R, NEW first, NEW last, Stretch(m, E, o, R, first, last),
         first # last
  PROVE  LeadsOn(m, E, o, R, first, last)
<1>1. Rings(m.next, m.prev, m.live, E, o) /\ Span(m.next, m.live, E, o, R, first, last)
  BY WholeFacts DEF Stretch
<1>2. /\ Span(m.next, m.live, E, o, R \ {first}, m.next[first], last)
      /\ first \in R /\ m.next[first] # first /\ m.prev[first] \notin R
  BY <1>1, SpanShorter
<1>3. Stretch(m, E, o, R \ {first}, m.next[first], last)
  BY <1>2 DEF Stretch
<1>4. /\ IsFiniteSet(R) /\ Cardinality(R) \in Nat /\ Cardinality(R) # 0
      /\ R \in SUBSET (m.live \ E)
  BY StretchFacts
<1>5. Cardinality(R \ {first}) = Cardinality(R) - 1
  BY <1>2, <1>4, FS_RemoveElement
<1>6. m.next[first] \in Nodes
  BY <1>3, StretchFacts
<1> QED
  BY <1>2, <1>3, <1>4, <1>5, <1>6 DEF LeadsOn

(* A node is put before pos, in another ring than the nodes from first to  *)
(* last.                                                                   *)
Inserted(m, E, o, pos, n, o1) ==
  /\ Whole(n, E, o1) /\ Confined(m, o, n, o1, {o[pos]})
  /\ Cardinality(n.live) = Cardinality(m.live) + 1
  /\ \A x \in m.live : x \in n.live /\ o1[x] = o[x]

LEMMA StretchAfterInsert ==
  ASSUME NEW m, NEW E, NEW o, NEW R, NEW first, NEW last, Stretch(m, E, o, R, first, last),
         Cardinality(m.live) < Cardinality(Nodes),
         NEW pos \in m.live, NEW v \in Values \cup {Null}, o[pos] # o[last],
         NEW n, n = Insert(m, pos, v)
  PROVE  \E o1 : /\ Inserted(m, E, o, pos, n, o1)
                 /\ Stretch(n, E, o1, R, first, last)
<1>0. Whole(m, E, o) /\ Span(m.next, m.live, E, o, R, first, last)
  BY DEF Stretch
<1>1. PICK t : t = Fresh(m)
  OBVIOUS
<1>2. PICK o1 : o1 = [x \in m.live \cup {t} |-> IF x = t THEN o[pos] ELSE o[x]]
  OBVIOUS
<1>3. /\ Whole(n, E, o1)
      /\ n.live = m.live \cup {t} /\ t \in Nodes \ m.live
      /\ n.next[t] = pos /\ n.next[m.prev[pos]] = t
      /\ \A x \in m.live : x # m.prev[pos] => n.next[x] = m.next[x]
      /\ Cardinality(n.live) = Cardinality(m.live) + 1
  <2>1. Whole(m, E, o) /\ Cardinality(m.live) < Cardinality(Nodes)
    BY <1>0
  <2>2. pos \in m.live /\ v \in Values \cup {Null} /\ t = Fresh(m)
    BY <1>1
  <2>3. o1 = [x \in m.live \cup {t} |-> IF x = t THEN o[pos] ELSE o[x]]
    BY <1>2
  <2>4. /\ Whole(Insert(m, pos, v), E, o1)
        /\ Insert(m, pos, v).live = m.live \cup {t} /\ t \in Nodes \ m.live
        /\ Insert(m, pos, v).next[t] = pos /\ Insert(m, pos, v).next[m.prev[pos]] = t
        /\ \A x \in m.live : x # m.prev[pos] => Insert(m, pos, v).next[x] = m.next[x]
        /\ Cardinality(Insert(m, pos, v).live) = Cardinality(m.live) + 1
    BY ONLY <2>1, <2>2, <2>3, InsertWhole
  <2>5. n = Insert(m, pos, v)
    OBVIOUS
  <2> QED
    BY ONLY <2>4, <2>5
<1>4. m.prev[pos] \in m.live /\ o[m.prev[pos]] = o[pos]
  BY <1>0, WholeFacts
<1>5. /\ R \in SUBSET (m.live \ E)
      /\ first \in m.live /\ last \in m.live \ R
      /\ first = last <=> R = {}
      /\ R # {} => first \in R
      /\ \A x \in R : m.next[x] \in R \cup {last} /\ o[x] = o[last]
      /\ \A x \in m.live \ R : m.next[x] \in R => m.next[x] = first
  BY <1>0 DEF Span
<1>6. pos \notin R /\ m.prev[pos] \notin R
  BY <1>4, <1>5
<1>7. \A x \in R : n.next[x] = m.next[x]
  BY <1>3, <1>5, <1>6
<1>8. \A x \in R : n.next[x] \in R \cup {last} /\ o1[x] = o1[last]
  BY <1>2, <1>3, <1>5, <1>7
<1>9. \A x \in n.live \ R : n.next[x] \in R => n.next[x] = first
  BY <1>3, <1>5, <1>6
<1>10. R \in SUBSET (n.live \ E) /\ first \in n.live /\ last \in n.live \ R
  BY <1>3, <1>5
<1>11. Stretch(n, E, o1, R, first, last)
  BY <1>3, <1>5, <1>8, <1>9, <1>10 DEF Span, Stretch
<1>12. Inserted(m, E, o, pos, n, o1)
  BY <1>2, <1>3 DEF Inserted, Confined
<1> QED
  BY <1>11, <1>12

(* Nodes up to last go before pos: k are left.                             *)
Copying(m, E, o, pos, last, n, c, k, o1, R) ==
  /\ c \in Cursors /\ Stretch(c.m, E, o1, R, c.at, last) /\ Confined(m, o, c.m, o1, {o[pos]})
  /\ pos \in c.m.live /\ o1[pos] = o[pos] /\ o1[last] = o[last]
  /\ Cardinality(R) = k /\ Cardinality(c.m.live) + k <= n

LEMMA CopyingTurn ==
  ASSUME NEW m, NEW E, NEW o, NEW pos, NEW last, o[pos] # o[last],
         NEW n \in Nat, n <= Cardinality(Nodes), NEW c, NEW k \in Nat, c.at # last,
         NEW o1, NEW R, Copying(m, E, o, pos, last, n, c, k, o1, R),
         NEW j, j = Insert(c.m, pos, c.m.data[c.at]),
         NEW d, d = [m |-> j, at |-> j.next[c.at]]
  PROVE  k > 0 /\ \E o2, T : Copying(m, E, o, pos, last, n, d, k - 1, o2, T)
<1>0. /\ c \in Cursors /\ Stretch(c.m, E, o1, R, c.at, last)
      /\ Confined(m, o, c.m, o1, {o[pos]})
      /\ pos \in c.m.live /\ o1[pos] = o[pos] /\ o1[last] = o[last]
      /\ Cardinality(R) = k /\ Cardinality(c.m.live) + k <= n
  BY DEF Copying
<1>1. c.m \in Memories /\ Cardinality(c.m.live) \in Nat /\ c.at \in Nodes
  <2>1. c.m \in Memories /\ c.at \in Nodes
    BY <1>0 DEF Cursors
  <2> QED
    BY <2>1, Fields
<1>2. PICK v : v = c.m.data[c.at]
  OBVIOUS
<1>3. v \in Values \cup {Null}
  <2>1. c.m.data \in [Nodes -> Values \cup {Null}]
    BY <1>1, Fields
  <2> QED
    BY <1>1, <1>2, <2>1
<1>4. Cardinality(R) > 0 /\ last \in c.m.live
  BY <1>0, StretchOnward, StretchFacts DEF LeadsOn
<1>5. Cardinality(c.m.live) < Cardinality(Nodes)
  <2>1. Cardinality(Nodes) \in Nat
    BY FiniteNodes
  <2> QED
    BY <1>0, <1>1, <1>4, <2>1
<1>6. PICK o2 : Inserted(c.m, E, o1, pos, j, o2) /\ Stretch(j, E, o2, R, c.at, last)
  <2>1. o1[pos] # o1[last] /\ j = Insert(c.m, pos, v)
    BY <1>0, <1>2
  <2> QED
    BY <1>0, <1>3, <1>5, <2>1, StretchAfterInsert
<1>7. /\ Stretch(j, E, o2, R \ {c.at}, j.next[c.at], last)
      /\ Cardinality(R \ {c.at}) = Cardinality(R) - 1 /\ j.next[c.at] \in Nodes
  BY <1>6, StretchOnward DEF LeadsOn
<1>8. /\ Confined(c.m, o1, j, o2, {o1[pos]}) /\ j \in Memories
      /\ Cardinality(j.live) = Cardinality(c.m.live) + 1
      /\ \A x \in c.m.live : x \in j.live /\ o2[x] = o1[x]
  BY <1>6 DEF Inserted, Whole
<1>9. Confined(m, o, j, o2, {o[pos]})
  BY <1>0, <1>8, ConfinedThen
<1>10. d.m = j /\ d.at = j.next[c.at] /\ d \in Cursors
  BY <1>7, <1>8 DEF Cursors
<1>11. pos \in j.live /\ o2[pos] = o[pos] /\ o2[last] = o[last]
  BY <1>0, <1>4, <1>8
<1>12. Cardinality(R \ {c.at}) = k - 1 /\ Cardinality(j.live) + (k - 1) <= n
  <2>1. /\ Cardinality(c.m.live) \in Nat /\ Cardinality(R) = k
        /\ Cardinality(c.m.live) + k <= n
        /\ Cardinality(j.live) = Cardinality(c.m.live) + 1
        /\ Cardinality(R \ {c.at}) = Cardinality(R) - 1
    BY <1>0, <1>1, <1>7, <1>8
  <2> QED
    BY <2>1
<1>13. Copying(m, E, o, pos, last, n, d, k - 1, o2, R \ {c.at})
  BY <1>7, <1>9, <1>10, <1>11, <1>12 DEF Copying
<1> QED
  BY <1>0, <1>4, <1>13

LEMMA InsertRangeBecomes ==
  ASSUME NEW m, NEW E, NEW o, NEW R, NEW first, NEW last, Stretch(m, E, o, R, first, last),
         NEW pos \in m.live, o[pos] # o[last], NEW n \in Nat, n <= Cardinality(Nodes),
         Cardinality(m.live) + Cardinality(R) <= n
  PROVE  Becomes(m, E, o, InsertRange(m, pos, first, last), {o[pos]}, n)
<1>1. PICK turn : turn = [c \in Cursors |->
          IF c.at = last THEN c
          ELSE LET k == Insert(c.m, pos, c.m.data[c.at]) IN [m |-> k, at |-> k.next[c.at]]]
  OBVIOUS
<1>2. PICK s : s = [m |-> m, at |-> first]
  OBVIOUS
<1>3. PICK z : z = Cardinality(m.live)
  OBVIOUS
<1>4. InsertRange(m, pos, first, last) = Loop(turn, s, z).m
  BY <1>1, <1>2, <1>3 DEF InsertRange, Rounds
<1>5. m \in Memories /\ z \in Nat /\ first \in Nodes /\ Cardinality(R) \in 0..z
  <2>1. m \in Memories /\ z \in Nat
    BY <1>3, WholeFacts DEF Stretch
  <2> QED
    BY <1>3, <2>1, StretchFacts
<1>6. PICK J : J = [k \in 0..z |-> {c \in Cursors : \E o1, T : Copying(m, E, o, pos, last, n, c, k, o1, T)}]
  OBVIOUS
<1>7. s \in J[Cardinality(R)]
  <2>1. Confined(m, o, m, o, {o[pos]})
    BY DEF Confined
  <2>2. s \in Cursors /\ s.m = m /\ s.at = first
    BY <1>2, <1>5 DEF Cursors
  <2>3. Copying(m, E, o, pos, last, n, s, Cardinality(R), o, R)
    BY <2>1, <2>2 DEF Copying
  <2> QED
    BY <1>5, <1>6, <2>2, <2>3
<1>8. ASSUME NEW k \in 0..z, NEW c \in J[k]
      PROVE  turn[c] = c \/ (k > 0 /\ turn[c] \in J[k - 1])
  <2>1. PICK o1, T : c \in Cursors /\ Copying(m, E, o, pos, last, n, c, k, o1, T)
    BY <1>6
  <2> SUFFICES ASSUME c.at # last PROVE k > 0 /\ turn[c] \in J[k - 1]
    BY <1>1, <2>1
  <2>2. PICK j : j = Insert(c.m, pos, c.m.data[c.at])
    OBVIOUS
  <2>3. PICK d : d = [m |-> j, at |-> j.next[c.at]]
    OBVIOUS
  <2>4. k > 0 /\ \E o2, S : Copying(m, E, o, pos, last, n, d, k - 1, o2, S)
    <3>1. k \in Nat
      OBVIOUS
    <3> QED
      BY <2>1, <2>2, <2>3, <3>1, CopyingTurn
  <2>5. turn[c] = d
    BY <1>1, <2>1, <2>2, <2>3
  <2>6. d \in Cursors /\ k - 1 \in 0..z
    BY <1>5, <2>4 DEF Copying
  <2> QED
    BY <1>6, <2>4, <2>5, <2>6
<1>9. PICK c : c = Loop(turn, s, z)
  OBVIOUS
<1>10. \E k \in 0..Cardinality(R) : c \in J[k]
  BY <1>5, <1>7, <1>8, <1>9, LoopEnds
<1>11. PICK k \in 0..Cardinality(R) : c \in J[k]
  BY <1>10
<1>12. k \in 0..z /\ k \in Nat
  BY <1>5
<1>13. PICK o1, T : Copying(m, E, o, pos, last, n, c, k, o1, T)
  BY <1>6, <1>11, <1>12
<1>14. Whole(c.m, E, o1) /\ Confined(m, o, c.m, o1, {o[pos]}) /\ Cardinality(c.m.live) + k <= n
  BY <1>13 DEF Copying, Stretch
<1>15. Cardinality(c.m.live) <= n
  BY <1>12, <1>14, WholeFacts
<1> QED
  BY <1>4, <1>9, <1>14, <1>15 DEF Becomes
-----------------------------------------------------------------------------
(***************************************************************************)
(* Loops that erase.                                                       *)
(***************************************************************************)
Erasing(m, E, o, last, n, c, k, o1, R) ==
  /\ c \in Cursors /\ Stretch(c.m, E, o1, R, c.at, last) /\ Confined(m, o, c.m, o1, {})
  /\ Cardinality(R) = k /\ Cardinality(c.m.live) <= n

(* The first node goes.                                                    *)
Erased(m, E, o, R, first, last, n, o1) ==
  /\ Stretch(n, E, o1, R \ {first}, m.next[first], last)
  /\ Confined(m, o, n, o1, {})
  /\ n.live = m.live \ {first} /\ Cardinality(n.live) = Cardinality(m.live) - 1

LEMMA StretchAfterErase ==
  ASSUME NEW m, NEW E, NEW o, NEW R, NEW first, NEW last, Stretch(m, E, o, R, first, last),
         first # last
  PROVE  \E o1 : Erased(m, E, o, R, first, last, Erase(m, first), o1)
<1>0. PICK n : n = Erase(m, first)
  OBVIOUS
<1>1. /\ first \in R /\ first \in m.live \ E
      /\ Stretch(m, E, o, R \ {first}, m.next[first], last)
      /\ m.prev[first] \notin R /\ m.next[first] # first
  <2>1. LeadsOn(m, E, o, R, first, last)
    BY StretchOnward
  <2> QED
    BY <2>1 DEF LeadsOn
<1>2. Whole(m, E, o)
  BY DEF Stretch
<1>3. PICK o1 : o1 = [y \in m.live \ {first} |-> o[y]]
  OBVIOUS
<1>4. /\ Whole(n, E, o1) /\ n.live = m.live \ {first}
      /\ n.next[m.prev[first]] = m.next[first]
      /\ \A y \in m.live \ {first} : y # m.prev[first] => n.next[y] = m.next[y]
      /\ Cardinality(n.live) = Cardinality(m.live) - 1
  BY <1>0, <1>1, <1>2, <1>3, EraseWhole
<1>5. PICK S : S = R \ {first}
  OBVIOUS
<1>6. PICK f : f = m.next[first]
  OBVIOUS
<1>7. /\ S \in SUBSET (m.live \ E)
      /\ f \in m.live /\ last \in m.live \ S
      /\ f = last <=> S = {}
      /\ S # {} => f \in S
      /\ \A x \in S : m.next[x] \in S \cup {last} /\ o[x] = o[last]
      /\ \A x \in m.live \ S : m.next[x] \in S => m.next[x] = f
  BY <1>1, <1>5, <1>6 DEF Stretch, Span
<1>8. first \notin S /\ m.prev[first] \notin S /\ f # first /\ last # first
  BY <1>1, <1>5, <1>6
<1>9. \A x \in S : n.next[x] \in S \cup {last} /\ o1[x] = o1[last]
  BY <1>3, <1>4, <1>7, <1>8
<1>10. \A x \in n.live \ S : n.next[x] \in S => n.next[x] = f
  BY <1>4, <1>6, <1>7, <1>8
<1>11. S \in SUBSET (n.live \ E) /\ f \in n.live /\ last \in n.live \ S
  BY <1>4, <1>7, <1>8
<1>12. Stretch(n, E, o1, S, f, last)
  BY <1>4, <1>7, <1>9, <1>10, <1>11 DEF Stretch, Span
<1>13. Confined(m, o, n, o1, {})
  BY <1>3, <1>4 DEF Confined
<1>14. Erased(m, E, o, R, first, last, n, o1)
  BY <1>4, <1>5, <1>6, <1>12, <1>13 DEF Erased
<1> QED
  BY <1>0, <1>14

LEMMA ErasingTurn ==
  ASSUME NEW m, NEW E, NEW o, NEW last, NEW n \in Nat, NEW c, NEW k \in Nat, c.at # last,
         NEW o1, NEW R, Erasing(m, E, o, last, n, c, k, o1, R),
         NEW d, d = [m |-> Erase(c.m, c.at), at |-> c.m.next[c.at]]
  PROVE  k > 0 /\ \E o2, T : Erasing(m, E, o, last, n, d, k - 1, o2, T)
<1>0. PICK w, x : w = c.m /\ x = c.at
  OBVIOUS
<1>1. /\ Stretch(w, E, o1, R, x, last) /\ Confined(m, o, w, o1, {})
      /\ Cardinality(R) = k /\ Cardinality(w.live) <= n /\ x # last
  BY <1>0 DEF Erasing
<1>2. Cardinality(w.live) \in Nat
  BY <1>1, WholeFacts DEF Stretch
<1>3. PICK j : j = Erase(w, x)
  OBVIOUS
<1>4. PICK o2 : /\ Stretch(j, E, o2, R \ {x}, w.next[x], last)
                /\ Confined(w, o1, j, o2, {})
                /\ Cardinality(j.live) = Cardinality(w.live) - 1
  <2>1. Stretch(w, E, o1, R, x, last) /\ x # last
    BY <1>1
  <2>2. PICK o2 : Erased(w, E, o1, R, x, last, j, o2)
    BY <1>3, <2>1, StretchAfterErase
  <2> QED
    BY <2>2 DEF Erased
<1>5. /\ Cardinality(R \ {x}) = Cardinality(R) - 1 /\ Cardinality(R) > 0
      /\ w.next[x] \in Nodes
  BY <1>1, StretchOnward DEF LeadsOn
<1>6. d.m = j /\ d.at = w.next[x] /\ d \in Cursors
  <2>1. j \in Memories
    BY <1>4 DEF Stretch, Whole
  <2> QED
    BY <1>0, <1>3, <1>5, <2>1 DEF Cursors
<1>7. Confined(m, o, j, o2, {})
  BY <1>1, <1>4, ConfinedThen
<1>8. Cardinality(R \ {x}) = k - 1 /\ Cardinality(j.live) <= n /\ k > 0
  BY <1>1, <1>2, <1>4, <1>5
<1>9. Erasing(m, E, o, last, n, d, k - 1, o2, R \ {x})
  BY <1>4, <1>6, <1>7, <1>8 DEF Erasing
<1> QED
  BY <1>8, <1>9

LEMMA EraseRangeBecomes ==
  ASSUME NEW m, NEW E, NEW o, NEW R, NEW first, NEW last, Stretch(m, E, o, R, first, last)
  PROVE  Becomes(m, E, o, EraseRange(m, first, last), {}, Cardinality(m.live))
<1>1. PICK turn : turn = [c \in Cursors |->
          IF c.at = last THEN c ELSE [m |-> Erase(c.m, c.at), at |-> c.m.next[c.at]]]
  OBVIOUS
<1>2. PICK s : s = [m |-> m, at |-> first]
  OBVIOUS
<1>3. PICK z : z = Cardinality(m.live)
  OBVIOUS
<1>4. EraseRange(m, first, last) = Loop(turn, s, z).m
  BY <1>1, <1>2, <1>3 DEF EraseRange, Rounds
<1>5. m \in Memories /\ z \in Nat /\ first \in Nodes /\ Cardinality(R) \in 0..z
  <2>1. m \in Memories /\ z \in Nat
    BY <1>3, WholeFacts DEF Stretch
  <2> QED
    BY <1>3, <2>1, StretchFacts
<1>6. PICK J : J = [k \in 0..z |-> {c \in Cursors : \E o1, T : Erasing(m, E, o, last, z, c, k, o1, T)}]
  OBVIOUS
<1>7. s \in J[Cardinality(R)]
  <2>1. Confined(m, o, m, o, {})
    BY DEF Confined
  <2>2. s \in Cursors /\ s.m = m /\ s.at = first
    BY <1>2, <1>5 DEF Cursors
  <2>3. Erasing(m, E, o, last, z, s, Cardinality(R), o, R)
    BY <1>3, <1>5, <2>1, <2>2 DEF Erasing
  <2> QED
    BY <1>5, <1>6, <2>2, <2>3
<1>8. ASSUME NEW k \in 0..z, NEW c \in J[k]
      PROVE  turn[c] = c \/ (k > 0 /\ turn[c] \in J[k - 1])
  <2>1. PICK o1, T : c \in Cursors /\ Erasing(m, E, o, last, z, c, k, o1, T)
    BY <1>6
  <2> SUFFICES ASSUME c.at # last PROVE k > 0 /\ turn[c] \in J[k - 1]
    BY <1>1, <2>1
  <2>2. PICK d : d = [m |-> Erase(c.m, c.at), at |-> c.m.next[c.at]]
    OBVIOUS
  <2>3. k > 0 /\ \E o2, S : Erasing(m, E, o, last, z, d, k - 1, o2, S)
    <3>1. k \in Nat
      OBVIOUS
    <3> QED
      BY <1>5, <2>1, <2>2, <3>1, ErasingTurn
  <2>4. turn[c] = d
    BY <1>1, <2>1, <2>2
  <2>5. d \in Cursors /\ k - 1 \in 0..z
    BY <1>5, <2>3 DEF Erasing
  <2> QED
    BY <1>6, <2>3, <2>4, <2>5
<1>9. PICK c : c = Loop(turn, s, z)
  OBVIOUS
<1>10. \E k \in 0..Cardinality(R) : c \in J[k]
  BY <1>5, <1>7, <1>8, <1>9, LoopEnds
<1>11. PICK k \in 0..Cardinality(R) : c \in J[k]
  BY <1>10
<1>12. k \in 0..z
  BY <1>5
<1>13. PICK o1, T : Erasing(m, E, o, last, z, c, k, o1, T)
  BY <1>6, <1>11, <1>12
<1>14. Whole(c.m, E, o1) /\ Confined(m, o, c.m, o1, {}) /\ Cardinality(c.m.live) <= z
  BY <1>13 DEF Erasing, Stretch
<1> QED
  BY <1>3, <1>4, <1>9, <1>14 DEF Becomes
-----------------------------------------------------------------------------
(***************************************************************************)
(* list_clear and list_destroy: the nodes of a list are freed from the     *)
(* first on, and no link is mended before all are gone.                    *)
(***************************************************************************)
Clearing(m, E, o, e, c, k, R) ==
  /\ c \in Cursors /\ Stretch(m, E, o, R, c.at, e) /\ R \in SUBSET Values0(m.live, o, e)
  /\ Cardinality(R) = k
  /\ c.m.live = m.live \ (Values0(m.live, o, e) \ R)
  /\ \A x \in c.m.live : c.m.next[x] = m.next[x] /\ c.m.prev[x] = m.prev[x]

LEMMA FreedFields ==
  ASSUME NEW m \in Memories, NEW x \in Nodes, NEW n, n = Freed(m, x)
  PROVE  /\ n \in Memories /\ n.live = m.live \ {x}
         /\ \A y \in Nodes : y # x => n.next[y] = m.next[y] /\ n.prev[y] = m.prev[y]
<1>1. /\ m.next \in [Nodes -> Pointers] /\ m.prev \in [Nodes -> Pointers]
      /\ m.data \in [Nodes -> Values \cup {Null}] /\ m.live \in SUBSET Nodes
  BY Fields
<1>2. n = [next |-> [m.next EXCEPT ![x] = Nowhere], prev |-> [m.prev EXCEPT ![x] = Nowhere],
           data |-> [m.data EXCEPT ![x] = Null], live |-> m.live \ {x}]
  BY DEF Freed
<1>3. n \in Memories
  BY <1>1, <1>2 DEF Memories, Pointers
<1>4. /\ n.next = [m.next EXCEPT ![x] = Nowhere] /\ n.prev = [m.prev EXCEPT ![x] = Nowhere]
      /\ n.live = m.live \ {x}
  BY <1>2
<1> QED
  BY <1>1, <1>3, <1>4

LEMMA ClearingTurn ==
  ASSUME NEW m, NEW E, NEW o, NEW e, NEW c, NEW k \in Nat, c.at # e,
         NEW R, Clearing(m, E, o, e, c, k, R),
         NEW d, d = [m |-> Freed(c.m, c.at), at |-> c.m.next[c.at]]
  PROVE  k > 0 /\ d # c /\ \E T : Clearing(m, E, o, e, d, k - 1, T)
<1>0. PICK w, x : w = c.m /\ x = c.at
  OBVIOUS
<1>1. /\ Stretch(m, E, o, R, x, e) /\ R \in SUBSET Values0(m.live, o, e)
      /\ Cardinality(R) = k /\ w \in Memories /\ x \in Nodes /\ x # e
      /\ w.live = m.live \ (Values0(m.live, o, e) \ R)
      /\ \A y \in w.live : w.next[y] = m.next[y] /\ w.prev[y] = m.prev[y]
  BY <1>0 DEF Clearing, Cursors
<1>2. LeadsOn(m, E, o, R, x, e)
  BY <1>1, StretchOnward
<1>3. /\ x \in R /\ Cardinality(R \ {x}) = Cardinality(R) - 1 /\ Cardinality(R) > 0
      /\ Stretch(m, E, o, R \ {x}, m.next[x], e) /\ m.next[x] \in Nodes
  BY <1>2 DEF LeadsOn
<1>4. x \in w.live
  BY <1>1, <1>3 DEF Values0, RingOf
<1>5. PICK j : j = Freed(w, x)
  OBVIOUS
<1>6. /\ j \in Memories /\ j.live = w.live \ {x}
      /\ \A y \in Nodes : y # x => j.next[y] = w.next[y] /\ j.prev[y] = w.prev[y]
  BY <1>1, <1>5, FreedFields
<1>7. d.m = j /\ d.at = m.next[x] /\ d \in Cursors
  <2>1. d.m = j /\ d.at = m.next[x]
    BY <1>0, <1>1, <1>4, <1>5
  <2> QED
    BY <1>3, <1>6, <2>1 DEF Cursors
<1>8. d # c
  BY <1>0, <1>4, <1>6, <1>7
<1>9. j.live = m.live \ (Values0(m.live, o, e) \ (R \ {x}))
  BY <1>1, <1>3, <1>6
<1>10. \A y \in j.live : j.next[y] = m.next[y] /\ j.prev[y] = m.prev[y]
  <2>1. w.live \in SUBSET Nodes
    BY <1>1, Fields
  <2> QED
    BY <1>1, <1>6, <2>1
<1>11. R \ {x} \in SUBSET Values0(m.live, o, e) /\ Cardinality(R \ {x}) = k - 1 /\ k > 0
  BY <1>1, <1>3
<1>12. Clearing(m, E, o, e, d, k - 1, R \ {x})
  BY <1>3, <1>7, <1>9, <1>10, <1>11 DEF Clearing
<1> QED
  BY <1>8, <1>11, <1>12

Cleared(m, E, o, e, n, o1) ==
  /\ Whole(n, E, o1)
  /\ n.live = m.live \ Values0(m.live, o, e)
  /\ o1 = [x \in n.live |-> o[x]]

LEMMA WholeStretch ==
  ASSUME NEW m, NEW E, NEW o, Whole(m, E, o), NEW e \in E
  PROVE  Stretch(m, E, o, Values0(m.live, o, e), m.next[e], e)
<1>1. Rings(m.next, m.prev, m.live, E, o)
  BY DEF Whole
<1>2. Span(m.next, m.live, E, o, Values0(m.live, o, e), m.next[e], e)
  BY <1>1, WholeSpan
<1> QED
  BY <1>2 DEF Stretch

Mended(m, e) == [m EXCEPT !.next[e] = e, !.prev[e] = e]

LEMMA ClearedAll ==
  ASSUME NEW m, NEW E, NEW o, NEW e \in E, Whole(m, E, o), NEW c, NEW k,
         Clearing(m, E, o, e, c, k, {}),
         NEW n, n = Mended(c.m, e)
  PROVE  \E o1 : Cleared(m, E, o, e, n, o1)
<1>0. PICK w : w = c.m
  OBVIOUS
<1>1. /\ w \in Memories /\ w.live = m.live \ Values0(m.live, o, e)
      /\ \A x \in w.live : w.next[x] = m.next[x] /\ w.prev[x] = m.prev[x]
  BY <1>0 DEF Clearing, Cursors
<1>2. /\ w.next \in [Nodes -> Pointers] /\ w.prev \in [Nodes -> Pointers]
      /\ w.data \in [Nodes -> Values \cup {Null}] /\ w.live \in SUBSET Nodes
  BY <1>1, Fields
<1>3. e \in w.live /\ e \in Nodes
  BY <1>1, WholeFacts DEF Values0
<1>4. w = [next |-> w.next, prev |-> w.prev, data |-> w.data, live |-> w.live]
  BY <1>1 DEF Memories
<1>5. n = [next |-> [w.next EXCEPT ![e] = e], prev |-> [w.prev EXCEPT ![e] = e],
           data |-> w.data, live |-> w.live]
  BY <1>0, <1>4 DEF Mended
<1>6. /\ n.next = [w.next EXCEPT ![e] = e] /\ n.prev = [w.prev EXCEPT ![e] = e]
      /\ n.live = w.live /\ n \in Memories
  <2>1. PICK nx : nx = [w.next EXCEPT ![e] = e]
    OBVIOUS
  <2>2. PICK pv : pv = [w.prev EXCEPT ![e] = e]
    OBVIOUS
  <2>3. nx \in [Nodes -> Pointers] /\ pv \in [Nodes -> Pointers]
    BY <1>2, <1>3, <2>1, <2>2 DEF Pointers
  <2>4. n = [next |-> nx, prev |-> pv, data |-> w.data, live |-> w.live]
    BY <1>5, <2>1, <2>2
  <2>5. n.next = nx /\ n.prev = pv /\ n.live = w.live
    BY <2>4
  <2>6. n \in Memories
    BY <1>2, <2>3, <2>4 DEF Memories
  <2> QED
    BY <2>1, <2>2, <2>5, <2>6
<1>7. /\ n.next[e] = e /\ \A x \in w.live : x # e => n.next[x] = m.next[x]
      /\ n.prev[e] = e /\ \A x \in w.live : x # e => n.prev[x] = m.prev[x]
  BY <1>1, <1>2, <1>3, <1>6
<1>8. PICK o1 : o1 = [x \in w.live |-> o[x]]
  OBVIOUS
<1>9. Rings(n.next, n.prev, w.live, E, o1)
  <2>1. Rings(m.next, m.prev, m.live, E, o)
    BY DEF Whole
  <2>2. StandsAlone(m.next, m.prev, n.next, n.prev, w.live \ {e}, e)
    BY <1>7 DEF StandsAlone
  <2> QED
    BY <1>1, <1>8, <2>1, <2>2, RingsCleared
<1>10. Cleared(m, E, o, e, n, o1)
  BY <1>1, <1>6, <1>8, <1>9 DEF Cleared, Whole
<1> QED
  BY <1>10

LEMMA ClearCleared ==
  ASSUME NEW m, NEW E, NEW o, Whole(m, E, o), NEW e \in E
  PROVE  \E o1 : Cleared(m, E, o, e, Clear(m, e), o1)
<1>1. PICK turn : turn = [c \in Cursors |->
          IF c.at = e THEN c ELSE [m |-> Freed(c.m, c.at), at |-> c.m.next[c.at]]]
  OBVIOUS
<1>2. PICK s : s = [m |-> m, at |-> m.next[e]]
  OBVIOUS
<1>3. PICK z : z = Cardinality(m.live)
  OBVIOUS
<1>4. PICK c : c = Loop(turn, s, z)
  OBVIOUS
<1>5. Clear(m, e) = Mended(c.m, e)
  BY <1>1, <1>2, <1>3, <1>4 DEF Clear, Rounds, Begin, Mended
<1>6. PICK R : R = Values0(m.live, o, e)
  OBVIOUS
<1>7. Stretch(m, E, o, R, m.next[e], e)
  BY <1>6, WholeStretch
<1>8. m \in Memories /\ z \in Nat /\ m.next[e] \in Nodes /\ Cardinality(R) \in 0..z
  <2>1. m \in Memories /\ z \in Nat
    BY <1>3, WholeFacts
  <2>2. m.next[e] \in Nodes /\ Cardinality(R) \in Nat /\ Cardinality(R) <= z
    BY <1>3, <1>7, StretchFacts
  <2> QED
    BY <2>1, <2>2
<1>9. PICK J : J = [k \in 0..z |-> {d \in Cursors : \E T : Clearing(m, E, o, e, d, k, T)}]
  OBVIOUS
<1>10. s \in J[Cardinality(R)]
  <2>1. s \in Cursors /\ s.m = m /\ s.at = m.next[e]
    BY <1>2, <1>8 DEF Cursors
  <2>2. m.live = m.live \ (R \ R)
    OBVIOUS
  <2>3. Clearing(m, E, o, e, s, Cardinality(R), R)
    BY <1>6, <1>7, <2>1, <2>2 DEF Clearing
  <2> QED
    BY <1>8, <1>9, <2>1, <2>3
<1>11. ASSUME NEW k \in 0..z, NEW d \in J[k]
       PROVE  turn[d] = d \/ (k > 0 /\ turn[d] \in J[k - 1])
  <2>1. PICK T : d \in Cursors /\ Clearing(m, E, o, e, d, k, T)
    BY <1>9
  <2> SUFFICES ASSUME d.at # e PROVE k > 0 /\ turn[d] \in J[k - 1]
    BY <1>1, <2>1
  <2>2. PICK f : f = [m |-> Freed(d.m, d.at), at |-> d.m.next[d.at]]
    OBVIOUS
  <2>3. k > 0 /\ \E S : Clearing(m, E, o, e, f, k - 1, S)
    <3>1. k \in Nat
      OBVIOUS
    <3> QED
      BY <2>1, <2>2, <3>1, ClearingTurn
  <2>4. turn[d] = f
    BY <1>1, <2>1, <2>2
  <2>5. f \in Cursors /\ k - 1 \in 0..z
    BY <1>8, <2>3 DEF Clearing
  <2> QED
    BY <1>9, <2>3, <2>4, <2>5
<1>12. \E k \in 0..Cardinality(R) : c \in J[k] /\ turn[c] = c
  BY <1>4, <1>8, <1>10, <1>11, LoopEnds
<1>13. PICK k \in 0..Cardinality(R) : c \in J[k] /\ turn[c] = c
  BY <1>12
<1>14. k \in 0..z /\ k \in Nat
  BY <1>8
<1>15. PICK T : c \in Cursors /\ Clearing(m, E, o, e, c, k, T)
  BY <1>9, <1>13, <1>14
<1>16. c.at = e
  <2> SUFFICES ASSUME c.at # e PROVE FALSE
    OBVIOUS
  <2>1. PICK f : f = [m |-> Freed(c.m, c.at), at |-> c.m.next[c.at]]
    OBVIOUS
  <2>2. f # c
    BY <1>14, <1>15, <2>1, ClearingTurn
  <2>3. turn[c] = f
    BY <1>1, <1>15, <2>1
  <2> QED
    BY <1>13, <2>2, <2>3
<1>17. Clearing(m, E, o, e, c, k, {})
  <2>1. Stretch(m, E, o, T, e, e)
    BY <1>15, <1>16 DEF Clearing
  <2>2. T = {}
    BY <2>1, StretchFacts
  <2> QED
    BY <1>15, <2>2
<1> QED
  BY <1>5, <1>17, ClearedAll

LEMMA ClearBecomes ==
  ASSUME NEW m, NEW E, NEW o, Whole(m, E, o), NEW e \in E
  PROVE  Becomes(m, E, o, Clear(m, e), {}, Cardinality(m.live))
<1>1. PICK n : n = Clear(m, e)
  OBVIOUS
<1>2. PICK o1 : Cleared(m, E, o, e, n, o1)
  BY <1>1, ClearCleared
<1>3. Whole(n, E, o1) /\ n.live \in SUBSET m.live /\ Confined(m, o, n, o1, {})
  BY <1>2 DEF Cleared, Confined
<1>4. Cardinality(n.live) <= Cardinality(m.live)
  BY <1>3, WholeFacts, FS_Subset
<1> QED
  BY <1>1, <1>3, <1>4 DEF Becomes

Removed(m, E, o, e, n, o1) ==
  /\ Whole(n, E \ {e}, o1)
  /\ n.live = m.live \ RingOf(m.live, o, e) /\ Cardinality(n.live) <= Cardinality(m.live) - 1
  /\ o1 = [x \in n.live |-> o[x]]

LEMMA DestroyedRemoved ==
  ASSUME NEW m, NEW E, NEW o, Whole(m, E, o), NEW e \in E
  PROVE  \E o1 : Removed(m, E, o, e, Destroyed(m, e), o1)
<1>1. PICK w : w = Clear(m, e)
  OBVIOUS
<1>2. PICK o1 : Cleared(m, E, o, e, w, o1)
  BY <1>1, ClearCleared
<1>3. /\ Whole(w, E, o1) /\ w.live = m.live \ Values0(m.live, o, e)
      /\ o1 = [x \in w.live |-> o[x]]
  BY <1>2 DEF Cleared
<1>4. PICK n : n = Destroyed(m, e)
  OBVIOUS
<1>5. n = Freed(w, e)
  BY <1>1, <1>4 DEF Destroyed
<1>6. w \in Memories /\ e \in w.live /\ w.live \in SUBSET Nodes /\ Rings(w.next, w.prev, w.live, E, o1)
  <2>1. Whole(w, E, o1)
    BY <1>3
  <2>2. w.live \in SUBSET Nodes /\ E \in SUBSET w.live
    BY <2>1, WholeFacts
  <2> QED
    BY <2>1, <2>2 DEF Whole
<1>7. e \in Nodes
  BY <1>6
<1>8. /\ n \in Memories /\ n.live = w.live \ {e}
      /\ \A x \in w.live \ {e} : n.next[x] = w.next[x] /\ n.prev[x] = w.prev[x]
  <2>1. /\ n \in Memories /\ n.live = w.live \ {e}
        /\ \A x \in Nodes : x # e => n.next[x] = w.next[x] /\ n.prev[x] = w.prev[x]
    BY <1>5, <1>6, <1>7, FreedFields
  <2> QED
    BY <1>6, <2>1
<1>9. Values0(w.live, o1, e) = {}
  BY <1>3 DEF Values0, RingOf
<1>10. PICK o2 : o2 = [x \in w.live \ {e} |-> o1[x]]
  OBVIOUS
<1>11. Rings(n.next, n.prev, w.live \ {e}, E \ {e}, o2)
  <2>1. /\ \A x \in w.live \ {e} : n.next[x] = w.next[x]
        /\ \A x \in w.live \ {e} : n.prev[x] = w.prev[x]
    BY <1>8
  <2> QED
    BY <1>6, <1>9, <1>10, <2>1, RingsWithout
<1>12. Whole(n, E \ {e}, o2)
  BY <1>8, <1>11 DEF Whole
<1>13. e \in m.live /\ o[e] = e /\ IsFiniteSet(m.live) /\ Cardinality(m.live) \in Nat
  BY WholeFacts
<1>14. n.live = m.live \ RingOf(m.live, o, e)
  BY <1>3, <1>8, <1>13 DEF Values0, RingOf
<1>15. Cardinality(n.live) <= Cardinality(m.live) - 1
  <2>1. n.live \in SUBSET (m.live \ {e})
    BY <1>8, <1>14
  <2>2. IsFiniteSet(m.live \ {e}) /\ Cardinality(m.live \ {e}) = Cardinality(m.live) - 1
    BY <1>13, FS_RemoveElement
  <2> QED
    BY <2>1, <2>2, FS_Subset
<1>16. o2 = [x \in n.live |-> o[x]]
  <2>1. \A x \in w.live \ {e} : o1[x] = o[x]
    BY <1>3
  <2>2. o2 = [x \in w.live \ {e} |-> o[x]]
    BY <1>10, <2>1
  <2> QED
    BY <1>8, <2>2
<1>17. Removed(m, E, o, e, n, o2)
  BY <1>12, <1>14, <1>15, <1>16 DEF Removed
<1> QED
  BY <1>4, <1>17
-----------------------------------------------------------------------------
(***************************************************************************)
(* list_assign, list_assign2 and list_resize1 walk over the values there   *)
(* are, then insert what is missing or erase what is left.                 *)
(***************************************************************************)
LEMMA BecomesMore ==
  ASSUME NEW m, NEW E, NEW o, NEW m1, NEW m2, NEW A, NEW B, NEW n \in Int, NEW p \in Int,
         Becomes(m1, E, o, m2, A, n), m1.live = m.live, A \subseteq B, n <= p
  PROVE  Becomes(m, E, o, m2, B, p)
<1>1. PICK o1 : Whole(m2, E, o1) /\ Confined(m1, o, m2, o1, A) /\ Cardinality(m2.live) <= n
  BY DEF Becomes
<1>2. Confined(m, o, m2, o1, B)
  BY <1>1 DEF Confined
<1>3. Cardinality(m2.live) <= p
  BY <1>1, WholeFacts
<1> QED
  BY <1>1, <1>2, <1>3 DEF Becomes

Counted == [m : Memories, at : Nodes, count : Nat]

Assigning(m, E, o, e, count, c, k, R) ==
  /\ c \in Counted /\ Stretch(c.m, E, o, R, c.at, e) /\ c.m.live = m.live
  /\ Cardinality(R) = k
  /\ k + count = Cardinality(Values0(m.live, o, e)) + c.count

Overwritten(m, x, v) == [m EXCEPT !.data[x] = v]

LEMMA DataStretch ==
  ASSUME NEW m, NEW E, NEW o, NEW R, NEW first, NEW last, Stretch(m, E, o, R, first, last),
         NEW x \in Nodes, NEW v \in Values \cup {Null},
         NEW n, n = Overwritten(m, x, v)
  PROVE  Stretch(n, E, o, R, first, last) /\ n.live = m.live /\ n.next = m.next
<1>1. Whole(m, E, o)
  BY DEF Stretch
<1>2. Whole(n, E, o) /\ n.next = m.next /\ n.live = m.live
  <2>1. n = [m EXCEPT !.data[x] = v]
    BY DEF Overwritten
  <2> QED
    BY <1>1, <2>1, DataWhole
<1> QED
  BY <1>2 DEF Stretch

LEMMA AssigningTurn ==
  ASSUME NEW m, NEW E, NEW o, NEW e, NEW count \in Nat, NEW v \in Values \cup {Null},
         NEW c, NEW k \in Nat, c.at # e, c.count # 0,
         Cardinality(Values0(m.live, o, e)) \in Nat,
         NEW R, Assigning(m, E, o, e, count, c, k, R),
         NEW j, j = Overwritten(c.m, c.at, v),
         NEW d, d = [m |-> j, at |-> c.m.next[c.at], count |-> c.count - 1]
  PROVE  k > 0 /\ d # c /\ \E T : Assigning(m, E, o, e, count, d, k - 1, T)
<1>0. PICK w, x, p : w = c.m /\ x = c.at /\ p = c.count
  OBVIOUS
<1>1. /\ Stretch(w, E, o, R, x, e) /\ w.live = m.live
      /\ Cardinality(R) = k /\ w \in Memories /\ x \in Nodes /\ x # e
      /\ p \in Nat /\ p # 0
      /\ k + count = Cardinality(Values0(m.live, o, e)) + p
  BY <1>0 DEF Assigning, Counted
<1>2. j = Overwritten(w, x, v)
  BY <1>0
<1>3. Stretch(j, E, o, R, x, e) /\ j.live = w.live /\ j.next = w.next
  BY <1>1, <1>2, DataStretch
<1>4. LeadsOn(j, E, o, R, x, e)
  BY <1>1, <1>3, StretchOnward
<1>5. /\ Cardinality(R \ {x}) = k - 1 /\ k > 0 /\ Stretch(j, E, o, R \ {x}, j.next[x], e)
      /\ j.next[x] \in Nodes
  BY <1>1, <1>4 DEF LeadsOn
<1>6. d.m = j /\ d.at = j.next[x] /\ d.count = p - 1
  BY <1>0, <1>3
<1>7. d \in Counted
  <2>1. j \in Memories /\ p - 1 \in Nat
    BY <1>1, <1>3 DEF Stretch, Whole
  <2>2. d = [m |-> j, at |-> j.next[x], count |-> p - 1]
    BY <1>0, <1>3
  <2> QED
    BY <1>5, <2>1, <2>2 DEF Counted
<1>8. d # c
  BY <1>0, <1>1, <1>6
<1>9. (k - 1) + count = Cardinality(Values0(m.live, o, e)) + (p - 1)
  BY <1>1
<1>10. Assigning(m, E, o, e, count, d, k - 1, R \ {x})
  BY <1>1, <1>3, <1>5, <1>6, <1>7, <1>9 DEF Assigning
<1> QED
  BY <1>5, <1>8, <1>10

(* What Assign and Resize end with: the values there are count one less    *)
(* than there should be, or they are the first count of them.              *)
LEMMA AssignEnds ==
  ASSUME NEW m, NEW E, NEW o, Whole(m, E, o), NEW e \in E, NEW count \in Nat,
         NEW v \in Values \cup {Null}, NEW n \in Nat, n <= Cardinality(Nodes),
         Cardinality(m.live) <= n,
         Cardinality(m.live) + count - Cardinality(Values0(m.live, o, e)) <= n,
         Cardinality(Values0(m.live, o, e)) \in Nat,
         NEW w, NEW x, NEW p \in Nat, NEW R, Stretch(w, E, o, R, x, e), w.live = m.live,
         Cardinality(R) + count = Cardinality(Values0(m.live, o, e)) + p,
         x = e \/ p = 0
  PROVE  Becomes(m, E, o, IF p > 0 THEN InsertMany(w, e, p, v) ELSE EraseRange(w, x, e), {e}, n)
<1>1. Whole(w, E, o) /\ Cardinality(R) \in Nat /\ (x = e <=> Cardinality(R) = 0)
  <2>1. Cardinality(R) \in Nat /\ (x = e <=> Cardinality(R) = 0)
    BY StretchFacts
  <2> QED
    BY <2>1 DEF Stretch
<1>2. e \in w.live /\ o[e] = e /\ Cardinality(w.live) \in Nat
  BY <1>1, WholeFacts
<1>3. CASE p > 0
  <2>1. Cardinality(R) = 0
    BY <1>1, <1>3
  <2>2. Cardinality(w.live) + p <= n
    BY <1>2, <2>1
  <2>3. Cardinality(w.live) + p <= Cardinality(Nodes)
    <3>1. Cardinality(Nodes) \in Nat
      BY FiniteNodes
    <3> QED
      BY <1>2, <2>2, <3>1
  <2>4. Becomes(w, E, o, InsertMany(w, e, p, v), {o[e]}, Cardinality(w.live) + p)
    BY <1>1, <1>2, <2>3, InsertManyBecomes
  <2>5. Cardinality(w.live) + p \in Int /\ {o[e]} \subseteq {e}
    BY <1>2
  <2>6. Becomes(m, E, o, InsertMany(w, e, p, v), {e}, n)
    BY <2>2, <2>4, <2>5, BecomesMore
  <2> QED
    BY <1>3, <2>6
<1>4. CASE ~ p > 0
  <2>1. Becomes(w, E, o, EraseRange(w, x, e), {}, Cardinality(w.live))
    BY EraseRangeBecomes
  <2>2. Becomes(m, E, o, EraseRange(w, x, e), {e}, n)
    <3>1. Cardinality(w.live) <= n /\ {} \subseteq {e} /\ Cardinality(w.live) \in Int
      BY <1>2
    <3> QED
      BY <2>1, <3>1, BecomesMore
  <2> QED
    BY <1>4, <2>2
<1> QED
  BY <1>3, <1>4

LEMMA ValuesCounted ==
  ASSUME NEW m, NEW E, NEW o, Whole(m, E, o), NEW e \in E
  PROVE  /\ Cardinality(Values0(m.live, o, e)) \in Nat
         /\ Cardinality(Values0(m.live, o, e)) <= Cardinality(m.live)
         /\ m.next[e] \in Nodes
<1>1. Stretch(m, E, o, Values0(m.live, o, e), m.next[e], e)
  BY WholeStretch
<1> QED
  BY <1>1, StretchFacts

LEMMA AssignBecomes ==
  ASSUME NEW m, NEW E, NEW o, Whole(m, E, o), NEW e \in E, NEW count \in Nat,
         NEW v \in Values \cup {Null}, NEW n \in Nat, n <= Cardinality(Nodes),
         Cardinality(m.live) <= n,
         Cardinality(m.live) + count - Cardinality(Values0(m.live, o, e)) <= n
  PROVE  Becomes(m, E, o, Assign(m, e, count, v), {e}, n)
<1>1. PICK turn : turn = [c \in Counted |->
                   IF c.at = e \/ c.count = 0 THEN c
                   ELSE [m |-> [c.m EXCEPT !.data[c.at] = v], at |-> c.m.next[c.at],
                         count |-> c.count - 1]]
  OBVIOUS
<1>2. PICK s : s = [m |-> m, at |-> m.next[e], count |-> count]
  OBVIOUS
<1>3. PICK z : z = Cardinality(m.live)
  OBVIOUS
<1>4. PICK c : c = Loop(turn, s, z)
  OBVIOUS
<1>5. Assign(m, e, count, v) =
        IF c.count > 0 THEN InsertMany(c.m, e, c.count, v) ELSE EraseRange(c.m, c.at, e)
  BY <1>1, <1>2, <1>3, <1>4 DEF Assign, Rounds, Begin, Counted
<1>6. PICK V : V = Values0(m.live, o, e)
  OBVIOUS
<1>7. /\ m \in Memories /\ z \in Nat /\ m.next[e] \in Nodes /\ Cardinality(V) \in 0..z
      /\ Cardinality(V) \in Nat
  <2>1. m \in Memories /\ z \in Nat
    BY <1>3, WholeFacts
  <2>2. m.next[e] \in Nodes /\ Cardinality(V) \in Nat /\ Cardinality(V) <= z
    BY <1>3, <1>6, ValuesCounted
  <2> QED
    BY <2>1, <2>2
<1>8. PICK J : J = [k \in 0..z |-> {d \in Counted : \E T : Assigning(m, E, o, e, count, d, k, T)}]
  OBVIOUS
<1>9. s \in J[Cardinality(V)]
  <2>1. s \in Counted /\ s.m = m /\ s.at = m.next[e] /\ s.count = count
    BY <1>2, <1>7 DEF Counted
  <2>2. Stretch(m, E, o, V, m.next[e], e)
    BY <1>6, WholeStretch
  <2>3. Assigning(m, E, o, e, count, s, Cardinality(V), V)
    BY <1>6, <2>1, <2>2 DEF Assigning
  <2> QED
    BY <1>7, <1>8, <2>1, <2>3
<1>10. ASSUME NEW k \in 0..z, NEW d \in J[k], d.at # e, d.count # 0
       PROVE  k > 0 /\ turn[d] \in J[k - 1] /\ turn[d] # d
  <2>1. PICK T : d \in Counted /\ Assigning(m, E, o, e, count, d, k, T)
    BY <1>8, <1>10
  <2>2. PICK j : j = Overwritten(d.m, d.at, v)
    OBVIOUS
  <2>3. PICK f : f = [m |-> j, at |-> d.m.next[d.at], count |-> d.count - 1]
    OBVIOUS
  <2>4. k > 0 /\ f # d /\ \E S : Assigning(m, E, o, e, count, f, k - 1, S)
    <3>1. k \in Nat /\ Cardinality(Values0(m.live, o, e)) \in Nat
      BY <1>6, <1>7
    <3> QED
      BY <1>10, <2>1, <2>2, <2>3, <3>1, AssigningTurn
  <2>5. turn[d] = f
    BY <1>1, <1>10, <2>1, <2>2, <2>3 DEF Overwritten
  <2>6. f \in Counted /\ k - 1 \in 0..z
    BY <1>7, <2>4 DEF Assigning
  <2> QED
    BY <1>8, <2>4, <2>5, <2>6
<1>11. ASSUME NEW k \in 0..z, NEW d \in J[k]
       PROVE  turn[d] = d \/ (k > 0 /\ turn[d] \in J[k - 1])
  <2>1. d \in Counted
    BY <1>8
  <2>2. (d.at = e \/ d.count = 0) => turn[d] = d
    BY <1>1, <2>1
  <2> QED
    BY <1>10, <2>2
<1>12. \E k \in 0..Cardinality(V) : c \in J[k] /\ turn[c] = c
  BY <1>4, <1>7, <1>9, <1>11, LoopEnds
<1>13. PICK k \in 0..Cardinality(V) : c \in J[k] /\ turn[c] = c
  BY <1>12
<1>14. k \in 0..z
  BY <1>7
<1>15. PICK T : c \in Counted /\ Assigning(m, E, o, e, count, c, k, T)
  BY <1>8, <1>13, <1>14
<1>16. c.at = e \/ c.count = 0
  BY <1>10, <1>13, <1>14
<1>17. PICK w, x, p : w = c.m /\ x = c.at /\ p = c.count
  OBVIOUS
<1>18. /\ Stretch(w, E, o, T, x, e) /\ w.live = m.live /\ p \in Nat /\ (x = e \/ p = 0)
       /\ Cardinality(T) + count = Cardinality(V) + p
  BY <1>6, <1>15, <1>16, <1>17 DEF Assigning, Counted
<1>19. Becomes(m, E, o, IF p > 0 THEN InsertMany(w, e, p, v) ELSE EraseRange(w, x, e), {e}, n)
  BY <1>6, <1>7, <1>18, AssignEnds
<1> QED
  BY <1>5, <1>17, <1>19
Walked == [at : Nodes, count : Nat]

Walking(m, E, o, e, count, c, k, R) ==
  /\ c \in Walked /\ Stretch(m, E, o, R, c.at, e)
  /\ Cardinality(R) = k
  /\ k + count = Cardinality(Values0(m.live, o, e)) + c.count

LEMMA WalkingTurn ==
  ASSUME NEW m, NEW E, NEW o, NEW e, NEW count \in Nat,
         NEW c, NEW k \in Nat, c.at # e, c.count # 0,
         Cardinality(Values0(m.live, o, e)) \in Nat,
         NEW R, Walking(m, E, o, e, count, c, k, R),
         NEW d, d = [at |-> m.next[c.at], count |-> c.count - 1]
  PROVE  k > 0 /\ d # c /\ \E T : Walking(m, E, o, e, count, d, k - 1, T)
<1>0. PICK x, p : x = c.at /\ p = c.count
  OBVIOUS
<1>1. /\ Stretch(m, E, o, R, x, e)
      /\ Cardinality(R) = k /\ x \in Nodes /\ x # e
      /\ p \in Nat /\ p # 0
      /\ k + count = Cardinality(Values0(m.live, o, e)) + p
  BY <1>0 DEF Walking, Walked
<1>4. LeadsOn(m, E, o, R, x, e)
  BY <1>1, StretchOnward
<1>5. /\ Cardinality(R \ {x}) = k - 1 /\ k > 0 /\ Stretch(m, E, o, R \ {x}, m.next[x], e)
      /\ m.next[x] \in Nodes
  BY <1>1, <1>4 DEF LeadsOn
<1>6. d.at = m.next[x] /\ d.count = p - 1
  BY <1>0
<1>7. d \in Walked
  <2>1. p - 1 \in Nat
    BY <1>1
  <2>2. d = [at |-> m.next[x], count |-> p - 1]
    BY <1>0
  <2> QED
    BY <1>5, <2>1, <2>2 DEF Walked
<1>8. d # c
  BY <1>0, <1>1, <1>6
<1>9. (k - 1) + count = Cardinality(Values0(m.live, o, e)) + (p - 1)
  BY <1>1
<1>10. Walking(m, E, o, e, count, d, k - 1, R \ {x})
  BY <1>1, <1>5, <1>6, <1>7, <1>9 DEF Walking
<1> QED
  BY <1>5, <1>8, <1>10

LEMMA ResizeBecomes ==
  ASSUME NEW m, NEW E, NEW o, Whole(m, E, o), NEW e \in E, NEW count \in Nat,
         NEW v \in Values \cup {Null}, NEW n \in Nat, n <= Cardinality(Nodes),
         Cardinality(m.live) <= n,
         Cardinality(m.live) + count - Cardinality(Values0(m.live, o, e)) <= n
  PROVE  Becomes(m, E, o, Resize(m, e, count, v), {e}, n)
<1>1. PICK turn : turn = [c \in Walked |->
                   IF c.at = e \/ c.count = 0 THEN c
                   ELSE [at |-> m.next[c.at], count |-> c.count - 1]]
  OBVIOUS
<1>2. PICK s : s = [at |-> m.next[e], count |-> count]
  OBVIOUS
<1>3. PICK z : z = Cardinality(m.live)
  OBVIOUS
<1>4. PICK c : c = Loop(turn, s, z)
  OBVIOUS
<1>5. Resize(m, e, count, v) =
        IF c.count = 0 THEN EraseRange(m, c.at, e) ELSE InsertMany(m, e, c.count, v)
  BY <1>1, <1>2, <1>3, <1>4 DEF Resize, Rounds, Begin, Walked
<1>6. PICK V : V = Values0(m.live, o, e)
  OBVIOUS
<1>7. /\ m \in Memories /\ z \in Nat /\ m.next[e] \in Nodes /\ Cardinality(V) \in 0..z
      /\ Cardinality(V) \in Nat
  <2>1. m \in Memories /\ z \in Nat
    BY <1>3, WholeFacts
  <2>2. m.next[e] \in Nodes /\ Cardinality(V) \in Nat /\ Cardinality(V) <= z
    BY <1>3, <1>6, ValuesCounted
  <2> QED
    BY <2>1, <2>2
<1>8. PICK J : J = [k \in 0..z |-> {d \in Walked : \E T : Walking(m, E, o, e, count, d, k, T)}]
  OBVIOUS
<1>9. s \in J[Cardinality(V)]
  <2>1. s \in Walked /\ s.at = m.next[e] /\ s.count = count
    BY <1>2, <1>7 DEF Walked
  <2>2. Stretch(m, E, o, V, m.next[e], e)
    BY <1>6, WholeStretch
  <2>3. Walking(m, E, o, e, count, s, Cardinality(V), V)
    BY <1>6, <2>1, <2>2 DEF Walking
  <2> QED
    BY <1>7, <1>8, <2>1, <2>3
<1>10. ASSUME NEW k \in 0..z, NEW d \in J[k], d.at # e, d.count # 0
       PROVE  k > 0 /\ turn[d] \in J[k - 1] /\ turn[d] # d
  <2>1. PICK T : d \in Walked /\ Walking(m, E, o, e, count, d, k, T)
    BY <1>8, <1>10
  <2>3. PICK f : f = [at |-> m.next[d.at], count |-> d.count - 1]
    OBVIOUS
  <2>4. k > 0 /\ f # d /\ \E S : Walking(m, E, o, e, count, f, k - 1, S)
    <3>1. k \in Nat /\ Cardinality(Values0(m.live, o, e)) \in Nat
      BY <1>6, <1>7
    <3> QED
      BY <1>10, <2>1, <2>3, <3>1, WalkingTurn
  <2>5. turn[d] = f
    BY <1>1, <1>10, <2>1, <2>3
  <2>6. f \in Walked /\ k - 1 \in 0..z
    BY <1>7, <2>4 DEF Walking
  <2> QED
    BY <1>8, <2>4, <2>5, <2>6
<1>11. ASSUME NEW k \in 0..z, NEW d \in J[k]
       PROVE  turn[d] = d \/ (k > 0 /\ turn[d] \in J[k - 1])
  <2>1. d \in Walked
    BY <1>8
  <2>2. (d.at = e \/ d.count = 0) => turn[d] = d
    BY <1>1, <2>1
  <2> QED
    BY <1>10, <2>2
<1>12. \E k \in 0..Cardinality(V) : c \in J[k] /\ turn[c] = c
  BY <1>4, <1>7, <1>9, <1>11, LoopEnds
<1>13. PICK k \in 0..Cardinality(V) : c \in J[k] /\ turn[c] = c
  BY <1>12
<1>14. k \in 0..z
  BY <1>7
<1>15. PICK T : c \in Walked /\ Walking(m, E, o, e, count, c, k, T)
  BY <1>8, <1>13, <1>14
<1>16. c.at = e \/ c.count = 0
  BY <1>10, <1>13, <1>14
<1>17. PICK x, p : x = c.at /\ p = c.count
  OBVIOUS
<1>18. /\ Stretch(m, E, o, T, x, e) /\ p \in Nat /\ (x = e \/ p = 0)
       /\ Cardinality(T) + count = Cardinality(V) + p
  BY <1>6, <1>15, <1>16, <1>17 DEF Walking, Walked
<1>19. Becomes(m, E, o, IF p > 0 THEN InsertMany(m, e, p, v) ELSE EraseRange(m, x, e), {e}, n)
  BY <1>6, <1>7, <1>18, AssignEnds
<1>20. (IF p > 0 THEN InsertMany(m, e, p, v) ELSE EraseRange(m, x, e))
       = IF p = 0 THEN EraseRange(m, x, e) ELSE InsertMany(m, e, p, v)
  BY <1>18
<1> QED
  BY <1>5, <1>17, <1>19, <1>20

(* list_assign2: R are the values to copy, T those still to be copied, V   *)
(* the values of the list that are not overwritten yet.                    *)
Pairing(m, E, o, e, R, last, c, k, V, T) ==
  /\ c \in Pairs /\ Stretch(c.m, E, o, V, c.at, e) /\ Stretch(c.m, E, o, T, c.from, last)
  /\ c.m.live = m.live /\ Cardinality(V) = k
  /\ k + Cardinality(R) = Cardinality(Values0(m.live, o, e)) + Cardinality(T)

LEMMA PairingTurn ==
  ASSUME NEW m, NEW E, NEW o, NEW e, NEW R, NEW last, Cardinality(R) \in Nat,
         NEW c, NEW k \in Nat, c.at # e, c.from # last,
         Cardinality(Values0(m.live, o, e)) \in Nat,
         NEW V, NEW T, Pairing(m, E, o, e, R, last, c, k, V, T),
         NEW j, j = Overwritten(c.m, c.at, c.m.data[c.from]),
         NEW d, d = [m |-> j, at |-> c.m.next[c.at], from |-> c.m.next[c.from]]
  PROVE  k > 0 /\ d # c /\ \E V1, T1 : Pairing(m, E, o, e, R, last, d, k - 1, V1, T1)
<1>0. PICK w, x, y : w = c.m /\ x = c.at /\ y = c.from
  OBVIOUS
<1>1. /\ Stretch(w, E, o, V, x, e) /\ Stretch(w, E, o, T, y, last) /\ w.live = m.live
      /\ Cardinality(V) = k /\ w \in Memories /\ x \in Nodes /\ x # e
      /\ y \in Nodes /\ y # last
      /\ k + Cardinality(R) = Cardinality(Values0(m.live, o, e)) + Cardinality(T)
  BY <1>0 DEF Pairing, Pairs
<1>2. PICK v : v = w.data[y]
  OBVIOUS
<1>3. v \in Values \cup {Null}
  <2>1. w.data \in [Nodes -> Values \cup {Null}]
    BY <1>1, Fields
  <2> QED
    BY <1>1, <1>2, <2>1
<1>4. j = Overwritten(w, x, v)
  BY <1>0, <1>2
<1>5. Stretch(j, E, o, V, x, e) /\ j.live = w.live /\ j.next = w.next
  BY <1>1, <1>3, <1>4, DataStretch
<1>6. Stretch(j, E, o, T, y, last)
  BY <1>1, <1>3, <1>4, DataStretch
<1>7. LeadsOn(j, E, o, V, x, e) /\ LeadsOn(j, E, o, T, y, last)
  BY <1>1, <1>5, <1>6, StretchOnward
<1>8. /\ Cardinality(V \ {x}) = k - 1 /\ k > 0 /\ Stretch(j, E, o, V \ {x}, j.next[x], e)
      /\ j.next[x] \in Nodes
  BY <1>1, <1>7 DEF LeadsOn
<1>9. /\ Cardinality(T \ {y}) = Cardinality(T) - 1
      /\ Stretch(j, E, o, T \ {y}, j.next[y], last) /\ j.next[y] \in Nodes /\ j.next[y] # y
  BY <1>1, <1>7 DEF LeadsOn
<1>10. d.m = j /\ d.at = j.next[x] /\ d.from = j.next[y]
  BY <1>0, <1>5
<1>11. d \in Pairs
  <2>1. j \in Memories
    BY <1>5 DEF Stretch, Whole
  <2>2. PICK a1, b1 : a1 = j.next[x] /\ b1 = j.next[y]
    OBVIOUS
  <2>3. d = [m |-> j, at |-> a1, from |-> b1]
    BY <1>0, <1>5, <2>2
  <2>4. a1 \in Nodes /\ b1 \in Nodes
    BY <1>8, <1>9, <2>2
  <2> QED
    BY <2>1, <2>3, <2>4 DEF Pairs
<1>12. d # c
  BY <1>0, <1>9, <1>10
<1>13. (k - 1) + Cardinality(R) = Cardinality(Values0(m.live, o, e)) + Cardinality(T \ {y})
  <2>1. Cardinality(T) \in Nat
    BY <1>6, StretchFacts
  <2>2. PICK r, p, q, q1 : /\ r = Cardinality(R) /\ p = Cardinality(Values0(m.live, o, e))
                           /\ q = Cardinality(T) /\ q1 = Cardinality(T \ {y})
    OBVIOUS
  <2>3. r \in Nat /\ p \in Nat /\ q \in Nat /\ k + r = p + q /\ q1 = q - 1
    BY <1>1, <1>9, <2>1, <2>2
  <2>4. (k - 1) + r = p + q1
    BY ONLY k \in Nat, <2>3
  <2> QED
    BY <2>2, <2>4
<1>14. Pairing(m, E, o, e, R, last, d, k - 1, V \ {x}, T \ {y})
  BY <1>1, <1>5, <1>8, <1>9, <1>10, <1>11, <1>13 DEF Pairing
<1> QED
  BY <1>8, <1>12, <1>14

LEMMA AssignRangeBecomes ==
  ASSUME NEW m, NEW E, NEW o, Whole(m, E, o), NEW e \in E,
         NEW R, NEW first, NEW last, Stretch(m, E, o, R, first, last), o[last] # e,
         NEW n \in Nat, n <= Cardinality(Nodes), Cardinality(m.live) <= n,
         Cardinality(m.live) + Cardinality(R) - Cardinality(Values0(m.live, o, e)) <= n
  PROVE  Becomes(m, E, o, AssignRange(m, e, first, last), {e}, n)
<1>1. PICK turn : turn = [c \in Pairs |->
                   IF c.at = e \/ c.from = last THEN c
                   ELSE [m |-> [c.m EXCEPT !.data[c.at] = c.m.data[c.from]],
                         at |-> c.m.next[c.at], from |-> c.m.next[c.from]]]
  OBVIOUS
<1>2. PICK s : s = [m |-> m, at |-> m.next[e], from |-> first]
  OBVIOUS
<1>3. PICK z : z = Cardinality(m.live)
  OBVIOUS
<1>4. PICK c : c = Loop(turn, s, z)
  OBVIOUS
<1>5. AssignRange(m, e, first, last) =
        IF c.from = last THEN EraseRange(c.m, c.at, e) ELSE InsertRange(c.m, e, c.from, last)
  BY <1>1, <1>2, <1>3, <1>4 DEF AssignRange, Rounds, Begin
<1>6. PICK V : V = Values0(m.live, o, e)
  OBVIOUS
<1>7. /\ m \in Memories /\ z \in Nat /\ m.next[e] \in Nodes /\ Cardinality(V) \in 0..z
      /\ Cardinality(V) \in Nat /\ Cardinality(R) \in Nat /\ first \in Nodes
  <2>1. m \in Memories /\ z \in Nat
    BY <1>3, WholeFacts
  <2>2. m.next[e] \in Nodes /\ Cardinality(V) \in Nat /\ Cardinality(V) <= z
    BY <1>3, <1>6, ValuesCounted
  <2>3. Cardinality(R) \in Nat /\ first \in Nodes
    BY StretchFacts
  <2> QED
    BY <2>1, <2>2, <2>3
<1>8. PICK J : J = [k \in 0..z |->
                      {d \in Pairs : \E V1, T : Pairing(m, E, o, e, R, last, d, k, V1, T)}]
  OBVIOUS
<1>9. s \in J[Cardinality(V)]
  <2>1. s \in Pairs /\ s.m = m /\ s.at = m.next[e] /\ s.from = first
    BY <1>2, <1>7 DEF Pairs
  <2>2. Stretch(m, E, o, V, m.next[e], e)
    BY <1>6, WholeStretch
  <2>3. Pairing(m, E, o, e, R, last, s, Cardinality(V), V, R)
    BY <1>6, <2>1, <2>2 DEF Pairing
  <2> QED
    BY <1>7, <1>8, <2>1, <2>3
<1>10. ASSUME NEW k \in 0..z, NEW d \in J[k], d.at # e, d.from # last
       PROVE  k > 0 /\ turn[d] \in J[k - 1] /\ turn[d] # d
  <2>1. PICK V1, T : d \in Pairs /\ Pairing(m, E, o, e, R, last, d, k, V1, T)
    BY <1>8, <1>10
  <2>2. PICK j : j = Overwritten(d.m, d.at, d.m.data[d.from])
    OBVIOUS
  <2>3. PICK f : f = [m |-> j, at |-> d.m.next[d.at], from |-> d.m.next[d.from]]
    OBVIOUS
  <2>4. k > 0 /\ f # d /\ \E V2, T2 : Pairing(m, E, o, e, R, last, f, k - 1, V2, T2)
    <3>1. k \in Nat /\ Cardinality(Values0(m.live, o, e)) \in Nat
      BY <1>6, <1>7
    <3> QED
      BY <1>7, <1>10, <2>1, <2>2, <2>3, <3>1, PairingTurn
  <2>5. turn[d] = f
    BY <1>1, <1>10, <2>1, <2>2, <2>3 DEF Overwritten
  <2>6. f \in Pairs /\ k - 1 \in 0..z
    BY <1>7, <2>4 DEF Pairing
  <2> QED
    BY <1>8, <2>4, <2>5, <2>6
<1>11. ASSUME NEW k \in 0..z, NEW d \in J[k]
       PROVE  turn[d] = d \/ (k > 0 /\ turn[d] \in J[k - 1])
  <2>1. d \in Pairs
    BY <1>8
  <2>2. (d.at = e \/ d.from = last) => turn[d] = d
    BY <1>1, <2>1
  <2> QED
    BY <1>10, <2>2
<1>12. \E k \in 0..Cardinality(V) : c \in J[k] /\ turn[c] = c
  BY <1>4, <1>7, <1>9, <1>11, LoopEnds
<1>13. PICK k \in 0..Cardinality(V) : c \in J[k] /\ turn[c] = c
  BY <1>12
<1>14. k \in 0..z
  BY <1>7
<1>15. PICK V1, T : c \in Pairs /\ Pairing(m, E, o, e, R, last, c, k, V1, T)
  BY <1>8, <1>13, <1>14
<1>16. c.at = e \/ c.from = last
  BY <1>10, <1>13, <1>14
<1>17. PICK w, x, y : w = c.m /\ x = c.at /\ y = c.from
  OBVIOUS
<1>18. /\ Stretch(w, E, o, V1, x, e) /\ Stretch(w, E, o, T, y, last) /\ w.live = m.live
       /\ (x = e \/ y = last)
       /\ Cardinality(V1) + Cardinality(R) = Cardinality(V) + Cardinality(T)
  BY <1>6, <1>15, <1>16, <1>17 DEF Pairing, Pairs
<1>19. Whole(w, E, o)
  BY <1>18 DEF Stretch
<1>20. /\ Cardinality(w.live) \in Nat /\ Cardinality(w.live) = z /\ z <= n
       /\ e \in w.live /\ o[e] = e
  <2>1. /\ Cardinality(w.live) \in Nat /\ E \in SUBSET w.live /\ \A f \in E : o[f] = f
    BY <1>19, WholeFacts
  <2> QED
    BY <1>3, <1>18, <2>1
<1>21. CASE y = last
  <2>1. Becomes(w, E, o, EraseRange(w, x, e), {}, Cardinality(w.live))
    BY <1>18, EraseRangeBecomes
  <2>2. Cardinality(w.live) <= n /\ {} \subseteq {e} /\ Cardinality(w.live) \in Int /\ n \in Int
    BY <1>20
  <2>3. Becomes(m, E, o, EraseRange(w, x, e), {e}, n)
    BY <1>18, <2>1, <2>2, BecomesMore
  <2> QED
    BY <1>5, <1>17, <1>21, <2>3
<1>22. CASE y # last
  <2>1. x = e /\ Cardinality(V1) = 0
    <3>1. x = e
      BY <1>18, <1>22
    <3>2. x = e <=> Cardinality(V1) = 0
      BY <1>18, StretchFacts
    <3> QED
      BY <3>1, <3>2
  <2>2. Cardinality(T) \in Nat
    BY <1>18, StretchFacts
  <2>3. Cardinality(w.live) + Cardinality(T) <= n
    BY <1>3, <1>6, <1>7, <1>18, <1>20, <2>1, <2>2
  <2>4. o[e] # o[last]
    BY <1>20
  <2>5. Becomes(w, E, o, InsertRange(w, e, y, last), {o[e]}, n)
    BY <1>18, <1>20, <2>3, <2>4, InsertRangeBecomes
  <2>6. {o[e]} \subseteq {e} /\ n \in Int /\ n <= n
    BY <1>20
  <2>7. Becomes(m, E, o, InsertRange(w, e, y, last), {e}, n)
    BY <1>18, <2>5, <2>6, BecomesMore
  <2> QED
    BY <1>5, <1>17, <1>22, <2>7
<1> QED
  BY <1>21, <1>22
-----------------------------------------------------------------------------
(***************************************************************************)
(* The functions built on transfer.  The nodes R now belong to the ring of *)
(* pos.                                                                    *)
(***************************************************************************)
Moved(m, E, o, R, pos, n, o1) ==
  /\ Whole(n, E, o1) /\ n.live = m.live
  /\ o1 = [x \in m.live |-> IF x \in R THEN o[pos] ELSE o[x]]

LEMMA TransferMoved ==
  ASSUME NEW m, NEW E, NEW o, NEW R, NEW first, NEW last, Stretch(m, E, o, R, first, last),
         R # {}, NEW pos \in m.live \ R
  PROVE  \E o1 : Moved(m, E, o, R, pos, Transfer(m, pos, first, last), o1)
<1>1. PICK o1 : o1 = [x \in m.live |-> IF x \in R THEN o[pos] ELSE o[x]]
  OBVIOUS
<1>2. Whole(m, E, o) /\ Span(m.next, m.live, E, o, R, first, last)
  BY DEF Stretch
<1>3. /\ Whole(Transfer(m, pos, first, last), E, o1)
      /\ Transfer(m, pos, first, last).live = m.live
  BY <1>1, <1>2, TransferWhole
<1>4. Moved(m, E, o, R, pos, Transfer(m, pos, first, last), o1)
  BY <1>1, <1>3 DEF Moved
<1> QED
  BY <1>4

LEMMA MovedBecomes ==
  ASSUME NEW m, NEW E, NEW o, NEW R, NEW pos, NEW n, NEW o1, Moved(m, E, o, R, pos, n, o1)
  PROVE  Becomes(m, E, o, n, {o[pos]}, Cardinality(m.live))
<1>1. Whole(n, E, o1)
  BY DEF Moved
<1>2. /\ n.live = m.live /\ o1 = [x \in m.live |-> IF x \in R THEN o[pos] ELSE o[x]]
  BY DEF Moved
<1>3. Cardinality(n.live) \in Nat
  BY <1>1, WholeFacts
<1>4. Confined(m, o, n, o1, {o[pos]})
  BY <1>2 DEF Confined
<1> QED
  BY <1>1, <1>2, <1>3, <1>4 DEF Becomes

LEMMA SameBecomes ==
  ASSUME NEW m, NEW E, NEW o, Whole(m, E, o), NEW A
  PROVE  Becomes(m, E, o, m, A, Cardinality(m.live))
<1>1. Confined(m, o, m, o, A) /\ Cardinality(m.live) \in Nat
  BY WholeFacts DEF Confined
<1> QED
  BY <1>1 DEF Becomes

LEMMA Splice2Becomes ==
  ASSUME NEW m, NEW E, NEW o, NEW R, NEW first, NEW last, Stretch(m, E, o, R, first, last),
         NEW pos \in m.live, first = last \/ pos \notin R
  PROVE  Becomes(m, E, o, Splice2(m, pos, first, last), {o[pos]}, Cardinality(m.live))
<1>1. Whole(m, E, o) /\ (first = last <=> R = {})
  <2>1. first = last <=> R = {}
    BY StretchFacts
  <2> QED
    BY <2>1 DEF Stretch
<1>2. CASE first = last
  BY <1>1, <1>2, SameBecomes DEF Splice2
<1>3. CASE first # last
  <2>1. PICK o1 : Moved(m, E, o, R, pos, Transfer(m, pos, first, last), o1)
    BY <1>1, <1>3, TransferMoved
  <2>2. Splice2(m, pos, first, last) = Transfer(m, pos, first, last)
    BY <1>3 DEF Splice2
  <2> QED
    BY <2>1, <2>2, MovedBecomes
<1> QED
  BY <1>2, <1>3

LEMMA SpliceBecomes ==
  ASSUME NEW m, NEW E, NEW o, Whole(m, E, o), NEW e \in E, NEW pos \in m.live, o[pos] # e
  PROVE  Becomes(m, E, o, Splice(m, pos, e), {o[pos]}, Cardinality(m.live))
<1>1. Stretch(m, E, o, Values0(m.live, o, e), m.next[e], e)
  BY WholeStretch
<1>2. pos \notin Values0(m.live, o, e)
  BY DEF Values0, RingOf
<1>3. Becomes(m, E, o, Splice2(m, pos, m.next[e], e), {o[pos]}, Cardinality(m.live))
  BY <1>1, <1>2, Splice2Becomes
<1>4. Splice(m, pos, e) = Splice2(m, pos, m.next[e], e)
  BY DEF Splice, Splice2, Empty, Begin
<1> QED
  BY <1>3, <1>4

LEMMA NodeStretch ==
  ASSUME NEW m, NEW E, NEW o, Whole(m, E, o), NEW x \in m.live \ E
  PROVE  Stretch(m, E, o, {x}, x, m.next[x])
<1>1. Rings(m.next, m.prev, m.live, E, o)
  BY DEF Whole
<1>2. Span(m.next, m.live, E, o, {x}, x, m.next[x])
  BY <1>1, NodeSpan
<1> QED
  BY <1>2 DEF Stretch

LEMMA Splice1Becomes ==
  ASSUME NEW m, NEW E, NEW o, Whole(m, E, o), NEW x \in m.live \ E, NEW pos \in m.live
  PROVE  Becomes(m, E, o, Splice1(m, pos, x), {o[pos]}, Cardinality(m.live))
<1>1. Stretch(m, E, o, {x}, x, m.next[x])
  BY NodeStretch
<1>2. CASE pos = x \/ pos = m.next[x]
  BY <1>2, SameBecomes DEF Splice1
<1>3. CASE ~(pos = x \/ pos = m.next[x])
  <2>1. PICK o1 : Moved(m, E, o, {x}, pos, Transfer(m, pos, x, m.next[x]), o1)
    <3>1. pos \in m.live \ {x} /\ {x} # {}
      BY <1>3
    <3> QED
      BY <1>1, <3>1, TransferMoved
  <2>2. Splice1(m, pos, x) = Transfer(m, pos, x, m.next[x])
    BY <1>3 DEF Splice1
  <2> QED
    BY <2>1, <2>2, MovedBecomes
<1> QED
  BY <1>2, <1>3
-----------------------------------------------------------------------------
(***************************************************************************)
(* list_remove erases some of the nodes it walks over.                     *)
(***************************************************************************)
LEMMA KeepingTurn ==
  ASSUME NEW m, NEW E, NEW o, NEW last, NEW n \in Nat, NEW c, NEW k \in Nat, c.at # last,
         NEW o1, NEW R, Erasing(m, E, o, last, n, c, k, o1, R),
         NEW d, d = [m |-> c.m, at |-> c.m.next[c.at]]
  PROVE  k > 0 /\ \E o2, T : Erasing(m, E, o, last, n, d, k - 1, o2, T)
<1>0. PICK w, x : w = c.m /\ x = c.at
  OBVIOUS
<1>1. /\ Stretch(w, E, o1, R, x, last) /\ Confined(m, o, w, o1, {}) /\ x # last
      /\ Cardinality(R) = k /\ Cardinality(w.live) <= n /\ w \in Memories
  BY <1>0 DEF Erasing, Cursors
<1>2. LeadsOn(w, E, o1, R, x, last)
  BY <1>1, StretchOnward
<1>3. /\ Cardinality(R \ {x}) = k - 1 /\ k > 0 /\ Stretch(w, E, o1, R \ {x}, w.next[x], last)
      /\ w.next[x] \in Nodes
  BY <1>1, <1>2 DEF LeadsOn
<1>4. d.m = w /\ d.at = w.next[x] /\ d \in Cursors
  BY <1>0, <1>1, <1>3 DEF Cursors
<1>5. Erasing(m, E, o, last, n, d, k - 1, o1, R \ {x})
  BY <1>1, <1>3, <1>4 DEF Erasing
<1> QED
  BY <1>3, <1>5

LEMMA RemoveBecomes ==
  ASSUME NEW m, NEW E, NEW o, Whole(m, E, o), NEW e \in E, NEW doomed
  PROVE  Becomes(m, E, o, Remove(m, e, doomed), {}, Cardinality(m.live))
<1>1. PICK turn : turn = [c \in Cursors |->
          IF c.at = e THEN c
          ELSE [m |-> IF c.m.data[c.at] \in doomed THEN Erase(c.m, c.at) ELSE c.m,
                at |-> c.m.next[c.at]]]
  OBVIOUS
<1>2. PICK s : s = [m |-> m, at |-> m.next[e]]
  OBVIOUS
<1>3. PICK z : z = Cardinality(m.live)
  OBVIOUS
<1>4. Remove(m, e, doomed) = Loop(turn, s, z).m
  BY <1>1, <1>2, <1>3 DEF Remove, Rounds, Begin
<1>0. PICK R : R = Values0(m.live, o, e)
  OBVIOUS
<1>5. m \in Memories /\ z \in Nat /\ m.next[e] \in Nodes /\ Cardinality(R) \in 0..z
  <2>1. m \in Memories /\ z \in Nat
    BY <1>3, WholeFacts
  <2> QED
    BY <1>0, <1>3, <2>1, ValuesCounted
<1>6. PICK J : J = [k \in 0..z |-> {c \in Cursors : \E o1, T : Erasing(m, E, o, e, z, c, k, o1, T)}]
  OBVIOUS
<1>7. s \in J[Cardinality(R)]
  <2>1. Confined(m, o, m, o, {})
    BY DEF Confined
  <2>2. s \in Cursors /\ s.m = m /\ s.at = m.next[e]
    BY <1>2, <1>5 DEF Cursors
  <2>3. Stretch(m, E, o, R, m.next[e], e)
    BY <1>0, WholeStretch
  <2>4. Erasing(m, E, o, e, z, s, Cardinality(R), o, R)
    BY <1>3, <1>5, <2>1, <2>2, <2>3 DEF Erasing
  <2> QED
    BY <1>5, <1>6, <2>2, <2>4
<1>8. ASSUME NEW k \in 0..z, NEW c \in J[k]
      PROVE  turn[c] = c \/ (k > 0 /\ turn[c] \in J[k - 1])
  <2>1. PICK o1, T : c \in Cursors /\ Erasing(m, E, o, e, z, c, k, o1, T)
    BY <1>6
  <2> SUFFICES ASSUME c.at # e PROVE k > 0 /\ turn[c] \in J[k - 1]
    BY <1>1, <2>1
  <2>0. k \in Nat
    OBVIOUS
  <2>2. PICK d : d = [m |-> Erase(c.m, c.at), at |-> c.m.next[c.at]]
    OBVIOUS
  <2>3. k > 0 /\ \E o2, S : Erasing(m, E, o, e, z, d, k - 1, o2, S)
    BY <1>5, <2>0, <2>1, <2>2, ErasingTurn
  <2>4. PICK f : f = [m |-> c.m, at |-> c.m.next[c.at]]
    OBVIOUS
  <2>5. k > 0 /\ \E o2, S : Erasing(m, E, o, e, z, f, k - 1, o2, S)
    BY <1>5, <2>0, <2>1, <2>4, KeepingTurn
  <2>6. turn[c] = d \/ turn[c] = f
    BY <1>1, <2>1, <2>2, <2>4
  <2>7. d \in Cursors /\ f \in Cursors /\ k - 1 \in 0..z
    BY <1>5, <2>3, <2>5 DEF Erasing
  <2> QED
    BY <1>6, <2>3, <2>5, <2>6, <2>7
<1>9. PICK c : c = Loop(turn, s, z)
  OBVIOUS
<1>10. \E k \in 0..Cardinality(R) : c \in J[k]
  BY <1>5, <1>7, <1>8, <1>9, LoopEnds
<1>11. PICK k \in 0..Cardinality(R) : c \in J[k]
  BY <1>10
<1>12. k \in 0..z
  BY <1>5
<1>13. PICK o1, T : Erasing(m, E, o, e, z, c, k, o1, T)
  BY <1>6, <1>11, <1>12
<1>14. Whole(c.m, E, o1) /\ Confined(m, o, c.m, o1, {}) /\ Cardinality(c.m.live) <= z
  BY <1>13 DEF Erasing, Stretch
<1> QED
  BY <1>3, <1>4, <1>9, <1>14 DEF Becomes
-----------------------------------------------------------------------------
(***************************************************************************)
(* list_unique: the loop is at a node whose next one it may erase.         *)
(***************************************************************************)
Sifting(m, E, o, e, n, c, k, o1, R) ==
  /\ c \in Cursors /\ c.at \in c.m.live /\ Stretch(c.m, E, o1, R, c.m.next[c.at], e)
  /\ Confined(m, o, c.m, o1, {}) /\ Cardinality(R) = k /\ Cardinality(c.m.live) <= n

LEMMA SiftingTurn ==
  ASSUME NEW m, NEW E, NEW o, NEW e, NEW n \in Nat, NEW c, NEW k \in Nat,
         c.m.next[c.at] # e, NEW withEnd,
         NEW o1, NEW R, Sifting(m, E, o, e, n, c, k, o1, R),
         NEW d, d = UniqueTurn(c, e, withEnd)
  PROVE  k > 0 /\ \E o2, T : Sifting(m, E, o, e, n, d, k - 1, o2, T)
<1>0. PICK w, x, y : w = c.m /\ x = c.at /\ y = w.next[x]
  OBVIOUS
<1>1. /\ Stretch(w, E, o1, R, y, e) /\ Confined(m, o, w, o1, {}) /\ y # e
      /\ Cardinality(R) = k /\ Cardinality(w.live) <= n /\ w \in Memories
      /\ x \in w.live /\ x \in Nodes /\ c = [m |-> w, at |-> x]
  BY <1>0 DEF Sifting, Cursors
<1>2. LeadsOn(w, E, o1, R, y, e)
  BY <1>1, StretchOnward
<1>3. /\ Cardinality(R \ {y}) = k - 1 /\ k > 0 /\ Stretch(w, E, o1, R \ {y}, w.next[y], e)
      /\ w.next[y] \in Nodes /\ y \in R /\ y \in w.live \ E /\ w.prev[y] \notin R
  BY <1>1, <1>2 DEF LeadsOn
<1>4. Whole(w, E, o1)
  BY <1>1 DEF Stretch
<1>5. w.prev[y] = x /\ x # y /\ Cardinality(w.live) \in Nat
  <2>1. Cardinality(w.live) \in Nat /\ \A v \in w.live : w.prev[w.next[v]] = v
    BY <1>4, WholeFacts
  <2>2. w.prev[y] = x
    BY <1>0, <1>1, <2>1
  <2> QED
    BY <1>3, <2>1, <2>2
<1>6. PICK p : p = [m |-> Erase(w, y), at |-> x]
  OBVIOUS
<1>7. PICK q : q = [m |-> w, at |-> y]
  OBVIOUS
<1>8. d = p \/ d = q
  <2>1. d = [c EXCEPT !.m = Erase(w, y)] \/ d = [c EXCEPT !.at = y]
    BY <1>0, <1>1 DEF UniqueTurn
  <2> QED
    BY <1>1, <1>6, <1>7, <2>1
<1>9. \E o2, T : Sifting(m, E, o, e, n, p, k - 1, o2, T)
  <2>1. PICK o2 : Erased(w, E, o1, R, y, e, Erase(w, y), o2)
    BY <1>1, StretchAfterErase
  <2>2. PICK j : j = Erase(w, y)
    OBVIOUS
  <2>3. /\ Stretch(j, E, o2, R \ {y}, w.next[y], e) /\ Confined(w, o1, j, o2, {})
        /\ j.live = w.live \ {y} /\ Cardinality(j.live) = Cardinality(w.live) - 1
    BY <2>1, <2>2 DEF Erased
  <2>4. j.next[x] = w.next[y]
    <3>1. Erase(w, y).next[w.prev[y]] = w.next[y]
      <4>1. PICK o3 : o3 = [z \in w.live \ {y} |-> o1[z]]
        OBVIOUS
      <4> QED
        BY <1>3, <1>4, <4>1, EraseWhole
    <3> QED
      BY <1>5, <2>2, <3>1
  <2>5. j \in Memories
    BY <2>3 DEF Stretch, Whole
  <2>6. p \in Cursors /\ p.m = j /\ p.at = x
    BY <1>1, <1>6, <2>2, <2>5 DEF Cursors
  <2>7. Confined(m, o, j, o2, {})
    BY <1>1, <2>3, ConfinedThen
  <2>8. Cardinality(j.live) <= n /\ x \in j.live
    BY <1>1, <1>5, <2>3
  <2>9. Sifting(m, E, o, e, n, p, k - 1, o2, R \ {y})
    BY <1>3, <2>3, <2>4, <2>6, <2>7, <2>8 DEF Sifting
  <2> QED
    BY <2>9
<1>10. Sifting(m, E, o, e, n, q, k - 1, o1, R \ {y})
  <2>1. y \in Nodes /\ y \in w.live
    BY <1>3, <1>4, WholeFacts
  <2>2. q \in Cursors /\ q.m = w /\ q.at = y
    BY <1>1, <1>7, <2>1 DEF Cursors
  <2> QED
    BY <1>1, <1>3, <2>1, <2>2 DEF Sifting
<1> QED
  BY <1>3, <1>8, <1>9, <1>10

LEMMA UniqueBecomes ==
  ASSUME NEW m, NEW E, NEW o, Whole(m, E, o), NEW e \in E, NEW withEnd
  PROVE  Becomes(m, E, o, Unique(m, e, withEnd), {}, Cardinality(m.live))
<1>1. CASE Empty(m, e)
  BY <1>1, SameBecomes DEF Unique
<1>2. CASE ~Empty(m, e)
  <2>1. PICK turn : turn = [c \in Cursors |-> UniqueTurn(c, e, withEnd)]
    OBVIOUS
  <2>2. PICK b, R, z : b = m.next[e] /\ R = Values0(m.live, o, e) /\ z = Cardinality(m.live)
    OBVIOUS
  <2>3. PICK s : s = [m |-> m, at |-> b]
    OBVIOUS
  <2>4. Unique(m, e, withEnd) = Loop(turn, s, z).m
    BY <1>2, <2>1, <2>2, <2>3 DEF Unique, Rounds, Begin
  <2>5. m \in Memories /\ z \in Nat
    BY <2>2, WholeFacts
  <2>6. b \in Nodes /\ Cardinality(R) \in Nat /\ Cardinality(R) <= z
    BY <2>2, ValuesCounted
  <2>7. b # e
    BY <1>2, <2>2 DEF Empty
  <2>8. Stretch(m, E, o, R, b, e)
    BY <2>2, WholeStretch
  <2>9. LeadsOn(m, E, o, R, b, e)
    BY <2>7, <2>8, StretchOnward
  <2>10. /\ Stretch(m, E, o, R \ {b}, m.next[b], e) /\ Cardinality(R \ {b}) = Cardinality(R) - 1
         /\ Cardinality(R) > 0 /\ b \in m.live
    BY <2>9 DEF LeadsOn
  <2>11. PICK J : J = [k \in 0..z |->
                         {c \in Cursors : \E o1, T : Sifting(m, E, o, e, z, c, k, o1, T)}]
    OBVIOUS
  <2>12. PICK k0 : k0 = Cardinality(R) - 1
    OBVIOUS
  <2>13. k0 \in 0..z
    BY <2>5, <2>6, <2>10, <2>12
  <2>14. s \in J[k0]
    <3>1. Confined(m, o, m, o, {})
      BY DEF Confined
    <3>2. s \in Cursors /\ s.m = m /\ s.at = b
      BY <2>3, <2>5, <2>6 DEF Cursors
    <3>3. Cardinality(m.live) <= z
      BY <2>2, <2>5
    <3>4. Sifting(m, E, o, e, z, s, k0, o, R \ {b})
      BY <2>10, <2>12, <3>1, <3>2, <3>3 DEF Sifting
    <3> QED
      BY <2>11, <2>13, <3>2, <3>4
  <2>15. ASSUME NEW k \in 0..z, NEW c \in J[k]
         PROVE  turn[c] = c \/ (k > 0 /\ turn[c] \in J[k - 1])
    <3>1. PICK o1, T : c \in Cursors /\ Sifting(m, E, o, e, z, c, k, o1, T)
      BY <2>11
    <3>2. PICK d : d = UniqueTurn(c, e, withEnd)
      OBVIOUS
    <3>3. turn[c] = d
      BY <2>1, <3>1, <3>2
    <3>4. CASE c.m.next[c.at] = e
      BY <3>2, <3>3, <3>4 DEF UniqueTurn
    <3>5. CASE c.m.next[c.at] # e
      <4>1. k \in Nat
        OBVIOUS
      <4>2. k > 0 /\ \E o2, S : Sifting(m, E, o, e, z, d, k - 1, o2, S)
        BY <2>5, <3>1, <3>2, <3>5, <4>1, SiftingTurn
      <4>3. d \in Cursors /\ k - 1 \in 0..z
        BY <2>5, <4>2 DEF Sifting
      <4> QED
        BY <2>11, <3>3, <4>2, <4>3
    <3> QED
      BY <3>4, <3>5
  <2>16. PICK c : c = Loop(turn, s, z)
    OBVIOUS
  <2>17. \E k \in 0..k0 : c \in J[k]
    BY <2>5, <2>13, <2>14, <2>15, <2>16, LoopEnds
  <2>18. PICK k \in 0..k0 : c \in J[k]
    BY <2>17
  <2>19. k \in 0..z
    BY <2>5, <2>13
  <2>20. PICK o1, T : Sifting(m, E, o, e, z, c, k, o1, T)
    BY <2>11, <2>18, <2>19
  <2>21. Whole(c.m, E, o1) /\ Confined(m, o, c.m, o1, {}) /\ Cardinality(c.m.live) <= z
    BY <2>20 DEF Sifting, Stretch
  <2> QED
    BY <2>2, <2>4, <2>16, <2>21 DEF Becomes
<1> QED
  BY <1>1, <1>2
-----------------------------------------------------------------------------
(***************************************************************************)
(* list_reverse: the links of the nodes R are not swapped yet.             *)
(***************************************************************************)
Turning(m, E, o, e, c, k, R) ==
  /\ c \in Cursors /\ Stretch(m, E, o, R, c.at, e) /\ Cardinality(R) = k
  /\ R \in SUBSET Values0(m.live, o, e)
  /\ c.m.live = m.live
  /\ \A x \in m.live :
       /\ c.m.next[x] = IF o[x] = e /\ x \notin R THEN m.prev[x] ELSE m.next[x]
       /\ c.m.prev[x] = IF o[x] = e /\ x \notin R THEN m.next[x] ELSE m.prev[x]

Swapped(m, x) == [m EXCEPT !.next[x] = m.prev[x], !.prev[x] = m.next[x]]

LEMMA SwappedFields ==
  ASSUME NEW m \in Memories, NEW x \in Nodes, NEW n, n = Swapped(m, x)
  PROVE  /\ n \in Memories /\ n.live = m.live
         /\ n.next[x] = m.prev[x] /\ n.prev[x] = m.next[x]
         /\ \A y \in Nodes : y # x => n.next[y] = m.next[y] /\ n.prev[y] = m.prev[y]
<1>1. /\ m.next \in [Nodes -> Pointers] /\ m.prev \in [Nodes -> Pointers]
      /\ m.data \in [Nodes -> Values \cup {Null}] /\ m.live \in SUBSET Nodes
  BY Fields
<1>2. PICK a, b : a = [m.next EXCEPT ![x] = m.prev[x]] /\ b = [m.prev EXCEPT ![x] = m.next[x]]
  OBVIOUS
<1>3. /\ a \in [Nodes -> Pointers] /\ b \in [Nodes -> Pointers]
      /\ a[x] = m.prev[x] /\ b[x] = m.next[x]
      /\ \A y \in Nodes : y # x => a[y] = m.next[y] /\ b[y] = m.prev[y]
  BY <1>1, <1>2
<1>4. n = [next |-> a, prev |-> b, data |-> m.data, live |-> m.live]
  BY <1>2 DEF Swapped, Memories
<1>5. n \in Memories
  BY <1>1, <1>3, <1>4 DEF Memories
<1> QED
  BY <1>3, <1>4, <1>5

LEMMA TurningTurn ==
  ASSUME NEW m, NEW E, NEW o, NEW e, Whole(m, E, o), NEW c, NEW k \in Nat, c.at # e,
         NEW R, Turning(m, E, o, e, c, k, R),
         NEW d, d = ReverseTurn(c)
  PROVE  k > 0 /\ d # c /\ \E T : Turning(m, E, o, e, d, k - 1, T)
<1>0. PICK w, x : w = c.m /\ x = c.at
  OBVIOUS
<1>1. /\ Stretch(m, E, o, R, x, e) /\ x # e /\ Cardinality(R) = k
      /\ w \in Memories /\ x \in Nodes /\ w.live = m.live /\ R \in SUBSET Values0(m.live, o, e)
      /\ \A y \in m.live :
           /\ w.next[y] = IF o[y] = e /\ y \notin R THEN m.prev[y] ELSE m.next[y]
           /\ w.prev[y] = IF o[y] = e /\ y \notin R THEN m.next[y] ELSE m.prev[y]
  BY <1>0 DEF Turning, Cursors
<1>2. LeadsOn(m, E, o, R, x, e)
  BY <1>1, StretchOnward
<1>3. /\ Cardinality(R \ {x}) = k - 1 /\ k > 0 /\ Stretch(m, E, o, R \ {x}, m.next[x], e)
      /\ x \in R /\ x \in m.live /\ m.next[x] \in Nodes /\ m.next[x] # x
  BY <1>1, <1>2 DEF LeadsOn
<1>4. PICK n : n = Swapped(w, x)
  OBVIOUS
<1>5. /\ n \in Memories /\ n.live = w.live /\ n.next[x] = w.prev[x] /\ n.prev[x] = w.next[x]
      /\ \A y \in Nodes : y # x => n.next[y] = w.next[y] /\ n.prev[y] = w.prev[y]
  BY <1>1, <1>4, SwappedFields
<1>6. m.live \in SUBSET Nodes
  BY WholeFacts
<1>7. o[x] = e
  BY <1>1, <1>3 DEF Values0, RingOf
<1>8. w.next[x] = m.next[x] /\ w.prev[x] = m.prev[x]
  BY <1>1, <1>3
<1>9. ASSUME NEW y \in m.live
      PROVE  /\ n.next[y] = IF o[y] = e /\ y \notin R \ {x} THEN m.prev[y] ELSE m.next[y]
             /\ n.prev[y] = IF o[y] = e /\ y \notin R \ {x} THEN m.next[y] ELSE m.prev[y]
  <2>1. CASE y = x
    BY <1>5, <1>7, <1>8, <2>1
  <2>2. CASE y # x
    BY <1>1, <1>5, <1>6, <2>2
  <2> QED
    BY <2>1, <2>2
<1>10. d = [m |-> n, at |-> n.prev[x]]
  BY <1>0, <1>4 DEF ReverseTurn, Swapped
<1>11. n.prev[x] = m.next[x]
  BY <1>5, <1>8
<1>12. d \in Cursors /\ d.m = n /\ d.at = m.next[x]
  BY <1>3, <1>5, <1>10, <1>11 DEF Cursors
<1>13. Turning(m, E, o, e, d, k - 1, R \ {x})
  BY <1>1, <1>3, <1>5, <1>9, <1>12 DEF Turning
<1>14. d # c
  BY <1>0, <1>3, <1>12
<1> QED
  BY <1>3, <1>13, <1>14

LEMMA TurningStart ==
  ASSUME NEW m, NEW E, NEW o, NEW e \in E, Whole(m, E, o),
         NEW d, d = ReverseTurn([m |-> m, at |-> e]),
         NEW R, R = Values0(m.live, o, e)
  PROVE  d \in Cursors /\ Turning(m, E, o, e, d, Cardinality(R), R)
<1>1. /\ m \in Memories /\ m.live \in SUBSET Nodes /\ E \in SUBSET m.live
      /\ \A f \in E : o[f] = f
  BY WholeFacts
<1>2. PICK n : n = Swapped(m, e)
  OBVIOUS
<1>3. /\ n \in Memories /\ n.live = m.live /\ n.next[e] = m.prev[e] /\ n.prev[e] = m.next[e]
      /\ \A y \in Nodes : y # e => n.next[y] = m.next[y] /\ n.prev[y] = m.prev[y]
  <2>1. e \in Nodes
    BY <1>1
  <2> QED
    BY <1>1, <1>2, <2>1, SwappedFields
<1>4. d = [m |-> n, at |-> n.prev[e]]
  BY <1>2 DEF ReverseTurn, Swapped
<1>5. m.next[e] \in Nodes
  BY ValuesCounted
<1>6. d \in Cursors /\ d.m = n /\ d.at = m.next[e]
  BY <1>3, <1>4, <1>5 DEF Cursors
<1>7. Stretch(m, E, o, R, m.next[e], e)
  BY WholeStretch
<1>8. R = {x \in m.live : o[x] = e /\ x # e}
  BY DEF Values0, RingOf
<1>9. ASSUME NEW y \in m.live
      PROVE  /\ n.next[y] = IF o[y] = e /\ y \notin R THEN m.prev[y] ELSE m.next[y]
             /\ n.prev[y] = IF o[y] = e /\ y \notin R THEN m.next[y] ELSE m.prev[y]
  <2>1. CASE y = e
    BY <1>1, <1>3, <1>8, <2>1
  <2>2. CASE y # e
    BY <1>1, <1>3, <1>8, <2>2
  <2> QED
    BY <2>1, <2>2
<1> QED
  BY <1>3, <1>6, <1>7, <1>9 DEF Turning

LEMMA ReversedBecomes ==
  ASSUME NEW m, NEW E, NEW o, Whole(m, E, o), NEW e \in E
  PROVE  Becomes(m, E, o, Reversed(m, e), {}, Cardinality(m.live))
<1>1. PICK turn : turn = [c \in Cursors |-> IF c.at = e THEN c ELSE ReverseTurn(c)]
  OBVIOUS
<1>2. PICK s, R, z : /\ s = ReverseTurn([m |-> m, at |-> e])
                     /\ R = Values0(m.live, o, e) /\ z = Cardinality(m.live)
  OBVIOUS
<1>3. Reversed(m, e) = Loop(turn, s, z).m
  BY <1>1, <1>2 DEF Reversed, Rounds
<1>4. z \in Nat /\ Cardinality(R) \in 0..z /\ m \in Memories /\ m.live \in SUBSET Nodes
  <2>1. z \in Nat /\ m \in Memories /\ m.live \in SUBSET Nodes
    BY <1>2, WholeFacts
  <2>2. Cardinality(R) \in Nat /\ Cardinality(R) <= z
    BY <1>2, ValuesCounted
  <2> QED
    BY <2>1, <2>2
<1>5. PICK J : J = [k \in 0..z |-> {c \in Cursors : \E T : Turning(m, E, o, e, c, k, T)}]
  OBVIOUS
<1>6. s \in J[Cardinality(R)]
  <2>1. s \in Cursors /\ Turning(m, E, o, e, s, Cardinality(R), R)
    BY <1>2, TurningStart
  <2> QED
    BY <1>4, <1>5, <2>1
<1>7. ASSUME NEW k \in 0..z, NEW c \in J[k], c.at # e
      PROVE  k > 0 /\ turn[c] \in J[k - 1] /\ turn[c] # c
  <2>1. PICK T : c \in Cursors /\ Turning(m, E, o, e, c, k, T)
    BY <1>5
  <2>2. PICK d : d = ReverseTurn(c)
    OBVIOUS
  <2>3. k > 0 /\ d # c /\ \E S : Turning(m, E, o, e, d, k - 1, S)
    <3>1. k \in Nat
      OBVIOUS
    <3> QED
      BY <1>7, <2>1, <2>2, <3>1, TurningTurn
  <2>4. turn[c] = d
    BY <1>1, <1>7, <2>1, <2>2
  <2>5. d \in Cursors /\ k - 1 \in 0..z
    BY <1>4, <2>3 DEF Turning
  <2> QED
    BY <1>5, <2>3, <2>4, <2>5
<1>8. ASSUME NEW k \in 0..z, NEW c \in J[k]
      PROVE  turn[c] = c \/ (k > 0 /\ turn[c] \in J[k - 1])
  <2>1. c \in Cursors
    BY <1>5
  <2>2. c.at = e => turn[c] = c
    BY <1>1, <2>1
  <2> QED
    BY <1>7, <2>2
<1>9. PICK c : c = Loop(turn, s, z)
  OBVIOUS
<1>10. \E k \in 0..Cardinality(R) : c \in J[k] /\ turn[c] = c
  BY <1>4, <1>6, <1>8, <1>9, LoopEnds
<1>11. PICK k \in 0..Cardinality(R) : c \in J[k] /\ turn[c] = c
  BY <1>10
<1>12. k \in 0..z
  BY <1>4
<1>13. PICK T : c \in Cursors /\ Turning(m, E, o, e, c, k, T)
  BY <1>5, <1>11, <1>12
<1>14. c.at = e
  BY <1>7, <1>11, <1>12
<1>15. PICK n : n = c.m
  OBVIOUS
<1>16. /\ Stretch(m, E, o, T, e, e) /\ n.live = m.live /\ n \in Memories
       /\ \A x \in m.live :
            /\ n.next[x] = IF o[x] = e /\ x \notin T THEN m.prev[x] ELSE m.next[x]
            /\ n.prev[x] = IF o[x] = e /\ x \notin T THEN m.next[x] ELSE m.prev[x]
  BY <1>13, <1>14, <1>15 DEF Turning, Cursors
<1>17. T = {}
  BY <1>16, StretchFacts
<1>18. Rings(m.next, m.prev, m.live, E, o)
  BY DEF Whole
<1>19. /\ \A x \in m.live : n.next[x] = IF o[x] = e THEN m.prev[x] ELSE m.next[x]
       /\ \A x \in m.live : n.prev[x] = IF o[x] = e THEN m.next[x] ELSE m.prev[x]
  BY <1>16, <1>17
<1>20. Rings(n.next, n.prev, m.live, E, o)
  BY <1>18, <1>19, RingsTurned
<1>21. Whole(n, E, o) /\ Confined(m, o, n, o, {}) /\ Cardinality(n.live) <= Cardinality(m.live)
  BY <1>2, <1>4, <1>16, <1>20 DEF Whole, Confined
<1> QED
  BY <1>3, <1>9, <1>15, <1>21 DEF Becomes
-----------------------------------------------------------------------------
(***************************************************************************)
(* list_merge: a node y of the nodes R2 goes before x, which leads on to   *)
(* the nodes R1 of another ring.                                           *)
(***************************************************************************)
Regiven(L, o, y, x, o1) == \A z \in L : o1[z] = IF z = y THEN o[x] ELSE o[z]

LEMMA SpansAfterMove ==
  ASSUME NEW nx, NEW pv, NEW L, NEW E, NEW o, Rings(nx, pv, L, E, o),
         NEW R1, NEW x, NEW a, Span(nx, L, E, o, R1, x, a),
         NEW R2, NEW y, NEW b, Span(nx, L, E, o, R2, y, b), o[a] # o[b], y # b,
         NEW nx1, NEW pv1, Moves(nx, pv, nx1, pv1, L, x, y, nx[y]),
         NEW o1, Regiven(L, o, y, x, o1)
  PROVE  /\ Span(nx1, L, E, o1, R1, x, a)
         /\ Span(nx1, L, E, o1, R2 \ {y}, nx[y], b)
<1>1. PICK T, t : T = R2 \ {y} /\ t = nx[y]
  OBVIOUS
<1>2. Span(nx, L, E, o, T, t, b) /\ y \in R2 /\ t # y /\ pv[y] \notin R2
  <2>1. /\ Span(nx, L, E, o, R2 \ {y}, nx[y], b)
        /\ y \in R2 /\ nx[y] # y /\ pv[y] \notin R2
    BY SpanShorter
  <2> QED
    BY <1>1, <2>1
<1>3. /\ R1 \in SUBSET (L \ E) /\ x \in L /\ a \in L \ R1 /\ (x = a <=> R1 = {})
      /\ (R1 # {} => x \in R1)
      /\ \A z \in R1 : nx[z] \in R1 \cup {a} /\ o[z] = o[a]
      /\ \A z \in L \ R1 : nx[z] \in R1 => nx[z] = x
  BY DEF Span
<1>4. /\ R2 \in SUBSET (L \ E) /\ y \in L /\ b \in L \ R2
      /\ \A z \in R2 : o[z] = o[b]
  BY DEF Span
<1>5. /\ T \in SUBSET (L \ E) /\ t \in L /\ b \in L \ T /\ (t = b <=> T = {})
      /\ (T # {} => t \in T)
      /\ \A z \in T : nx[z] \in T \cup {b} /\ o[z] = o[b]
      /\ \A z \in L \ T : nx[z] \in T => nx[z] = t
  BY <1>2 DEF Span
<1>6. \A z \in L : o[pv[z]] = o[z] /\ o[nx[z]] = o[z] /\ pv[z] \in L
  BY OwnerBefore
<1>7. pv[t] = y
  BY <1>1, <1>4 DEF Rings, Mutual
<1>8. o[x] = o[a] /\ o[y] = o[b] /\ o[pv[x]] = o[a] /\ o[pv[y]] = o[b] /\ o[t] = o[b]
  BY <1>1, <1>2, <1>3, <1>4, <1>6
<1>9. /\ nx1[y] = x /\ nx1[pv[y]] = t /\ nx1[pv[x]] = y
      /\ \A z \in L : z # y /\ z # pv[y] /\ z # pv[x] => nx1[z] = nx[z]
  BY <1>1, <1>7 DEF Moves
<1>10. \A z \in L : o1[z] = IF z = y THEN o[x] ELSE o[z]
  BY DEF Regiven
<1>11. Span(nx1, L, E, o1, R1, x, a)
  <2>1. R1 # {} => pv[x] \notin R1
    BY SpanEnds
  <2>2. ASSUME NEW z \in R1 PROVE nx1[z] \in R1 \cup {a} /\ o1[z] = o1[a]
    <3>1. z \in L /\ z # y /\ z # pv[y] /\ z # pv[x] /\ a # y
      BY <1>3, <1>8, <2>1, <2>2
    <3> QED
      BY <1>3, <1>9, <1>10, <2>2, <3>1
  <2>3. ASSUME NEW z \in L \ R1, nx1[z] \in R1 PROVE nx1[z] = x
    <3>1. z # pv[y] /\ z # pv[x]
      BY <1>3, <1>8, <1>9, <2>3
    <3> QED
      BY <1>3, <1>9, <2>3, <3>1
  <2> QED
    BY <1>3, <2>2, <2>3 DEF Span
<1>12. Span(nx1, L, E, o1, T, t, b)
  <2>1. ASSUME NEW z \in T PROVE nx1[z] \in T \cup {b} /\ o1[z] = o1[b]
    <3>1. z \in L /\ z # y /\ z # pv[y] /\ z # pv[x] /\ b # y
      BY <1>1, <1>2, <1>4, <1>5, <1>8, <2>1
    <3> QED
      BY <1>4, <1>5, <1>9, <1>10, <2>1, <3>1
  <2>2. ASSUME NEW z \in L \ T, nx1[z] \in T PROVE nx1[z] = t
    <3>1. z # y /\ z # pv[x]
      BY <1>1, <1>5, <1>8, <1>9, <2>2
    <3> QED
      BY <1>5, <1>9, <2>2, <3>1
  <2> QED
    BY <1>5, <2>1, <2>2 DEF Span
<1> QED
  BY <1>1, <1>11, <1>12

Joined(w, E, o, R1, x, a, R2, y, b, n, o1) ==
  /\ Moved(w, E, o, {y}, x, n, o1)
  /\ Stretch(n, E, o1, R1, x, a)
  /\ Stretch(n, E, o1, R2 \ {y}, w.next[y], b)

LEMMA StretchesJoined ==
  ASSUME NEW w, NEW E, NEW o, NEW R1, NEW x, NEW a, Stretch(w, E, o, R1, x, a),
         NEW R2, NEW y, NEW b, Stretch(w, E, o, R2, y, b), o[a] # o[b], y # b,
         NEW n, n = Transfer(w, x, y, w.next[y])
  PROVE  \E o1 : Joined(w, E, o, R1, x, a, R2, y, b, n, o1)
<1>1. PICK o1 : o1 = [z \in w.live |-> IF z \in {y} THEN o[x] ELSE o[z]]
  OBVIOUS
<1>2. /\ Whole(w, E, o) /\ Rings(w.next, w.prev, w.live, E, o)
      /\ Span(w.next, w.live, E, o, R1, x, a) /\ Span(w.next, w.live, E, o, R2, y, b)
  BY DEF Stretch, Whole
<1>3. x \in w.live /\ o[x] = o[a]
  BY StretchFacts
<1>4. LeadsOn(w, E, o, R2, y, b)
  BY StretchOnward
<1>5. y \in w.live \ E
  BY <1>4 DEF LeadsOn
<1>6. o[y] = o[b]
  BY StretchFacts
<1>7. \A z \in w.live : o[w.next[z]] = o[z]
  BY <1>2, WholeFacts
<1>8. x # y /\ x # w.next[y]
  BY <1>3, <1>5, <1>6, <1>7
<1>9. Span(w.next, w.live, E, o, {y}, y, w.next[y])
  BY <1>2, <1>5, NodeSpan
<1>10. /\ Whole(n, E, o1) /\ n.live = w.live
       /\ Moves(w.next, w.prev, n.next, n.prev, w.live, x, y, w.next[y])
  <2>1. x \in w.live \ {y} /\ {y} # {}
    BY <1>3, <1>8
  <2> QED
    BY <1>1, <1>2, <1>8, <1>9, <2>1, TransferWhole
<1>11. /\ Span(n.next, w.live, E, o1, R1, x, a)
       /\ Span(n.next, w.live, E, o1, R2 \ {y}, w.next[y], b)
  <2>1. PICK nx, pv, nx1, pv1, L : /\ nx = w.next /\ pv = w.prev /\ L = w.live
                                   /\ nx1 = n.next /\ pv1 = n.prev
    OBVIOUS
  <2>2. /\ Rings(nx, pv, L, E, o) /\ Moves(nx, pv, nx1, pv1, L, x, y, nx[y])
        /\ Span(nx, L, E, o, R1, x, a) /\ Span(nx, L, E, o, R2, y, b)
        /\ Regiven(L, o, y, x, o1)
    BY <1>1, <1>2, <1>10, <2>1 DEF Regiven
  <2>3. Span(nx1, L, E, o1, R1, x, a) /\ Span(nx1, L, E, o1, R2 \ {y}, nx[y], b)
    BY <2>2, SpansAfterMove
  <2> QED
    BY <2>1, <2>3
<1>12. Joined(w, E, o, R1, x, a, R2, y, b, n, o1)
  BY <1>1, <1>10, <1>11 DEF Joined, Moved, Stretch
<1> QED
  BY <1>12

(* The nodes R1 of the one list and R2 of the other are still to be        *)
(* compared; all other values belong to the first list.                    *)
Given(m, o, a, b, R2) ==
  [x \in m.live |-> IF x \in Values0(m.live, o, b) \ R2 THEN a ELSE o[x]]

Merging(m, E, o, a, b, c, k, R1, R2) ==
  /\ c \in Pairs /\ c.m.live = m.live
  /\ Stretch(c.m, E, Given(m, o, a, b, R2), R1, c.at, a)
  /\ Stretch(c.m, E, Given(m, o, a, b, R2), R2, c.from, b)
  /\ Cardinality(R1) + Cardinality(R2) = k

LEMMA MergingTurn ==
  ASSUME NEW m, NEW E, NEW o, Whole(m, E, o), NEW a \in E, NEW b \in E, a # b,
         NEW c, NEW k \in Nat, c.at # a, c.from # b,
         NEW R1, NEW R2, Merging(m, E, o, a, b, c, k, R1, R2),
         NEW d, d = MergeTurn(c, a, b)
  PROVE  k > 0 /\ d # c /\ \E T1, T2 : Merging(m, E, o, a, b, d, k - 1, T1, T2)
<1>0. PICK w, x, y : w = c.m /\ x = c.at /\ y = c.from
  OBVIOUS
<1>1. PICK oc : oc = Given(m, o, a, b, R2)
  OBVIOUS
<1>2. /\ Stretch(w, E, oc, R1, x, a) /\ Stretch(w, E, oc, R2, y, b) /\ w.live = m.live
      /\ Cardinality(R1) + Cardinality(R2) = k /\ w \in Memories /\ x \in Nodes /\ y \in Nodes
      /\ x # a /\ y # b /\ c = [m |-> w, at |-> x, from |-> y]
  BY <1>0, <1>1 DEF Merging, Pairs
<1>3. LeadsOn(w, E, oc, R1, x, a) /\ LeadsOn(w, E, oc, R2, y, b)
  BY <1>2, StretchOnward
<1>4. /\ Cardinality(R1 \ {x}) = Cardinality(R1) - 1 /\ Cardinality(R1) > 0
      /\ Stretch(w, E, oc, R1 \ {x}, w.next[x], a) /\ w.next[x] \in Nodes /\ w.next[x] # x
  BY <1>3 DEF LeadsOn
<1>5. /\ Cardinality(R2 \ {y}) = Cardinality(R2) - 1 /\ Cardinality(R2) > 0
      /\ y \in R2 /\ y \in w.live \ E /\ w.next[y] \in Nodes /\ w.next[y] # y
  BY <1>3 DEF LeadsOn
<1>6. Cardinality(R1) \in Nat /\ Cardinality(R2) \in Nat
  BY <1>2, StretchFacts
<1>7. /\ Whole(w, E, oc) /\ oc[x] = oc[a] /\ oc[y] = oc[b]
  <2>1. oc[x] = oc[a] /\ oc[y] = oc[b]
    BY <1>2, StretchFacts
  <2> QED
    BY <1>2, <2>1 DEF Stretch
<1>8. oc[a] = a /\ oc[b] = b
  BY <1>7, WholeFacts
<1>9. k > 0 /\ Cardinality(R1 \ {x}) + Cardinality(R2) = k - 1
      /\ Cardinality(R1) + Cardinality(R2 \ {y}) = k - 1
  BY <1>2, <1>4, <1>5, <1>6
<1>10. PICK n : n = Transfer(w, x, y, w.next[y])
  OBVIOUS
<1>11. PICK p, q : /\ p = [m |-> n, at |-> x, from |-> w.next[y]]
                   /\ q = [m |-> w, at |-> w.next[x], from |-> y]
  OBVIOUS
<1>12. d = p \/ d = q
  <2>1. \/ d = [c EXCEPT !.m = Transfer(w, x, y, w.next[y]), !.from = w.next[y]]
        \/ d = [c EXCEPT !.at = w.next[x]]
    BY <1>0, <1>2 DEF MergeTurn
  <2> QED
    BY <1>2, <1>10, <1>11, <2>1
<1>13. PICK o1 : Joined(w, E, oc, R1, x, a, R2, y, b, n, o1)
  <2>1. oc[a] # oc[b]
    BY <1>8
  <2> QED
    BY <1>2, <1>10, <2>1, StretchesJoined
<1>14. /\ Moved(w, E, oc, {y}, x, n, o1) /\ Stretch(n, E, o1, R1, x, a)
       /\ Stretch(n, E, o1, R2 \ {y}, w.next[y], b)
  BY <1>13 DEF Joined
<1>15. /\ n.live = m.live /\ n \in Memories
       /\ o1 = [z \in w.live |-> IF z \in {y} THEN oc[x] ELSE oc[z]]
  BY <1>2, <1>14 DEF Moved, Whole
<1>16. o1 = Given(m, o, a, b, R2 \ {y})
  <2>1. y \in m.live /\ o[y] = b /\ y # b
    <3>1. y \in m.live /\ oc[y] = b
      BY <1>2, <1>5, <1>7, <1>8
    <3> QED
      BY <1>1, <1>2, <3>1 DEF Given
  <2>2. y \in Values0(m.live, o, b)
    BY <2>1 DEF Values0, RingOf
  <2>3. ASSUME NEW z \in m.live
        PROVE  (IF z \in {y} THEN oc[x] ELSE oc[z])
               = IF z \in Values0(m.live, o, b) \ (R2 \ {y}) THEN a ELSE o[z]
    <3>1. oc[z] = IF z \in Values0(m.live, o, b) \ R2 THEN a ELSE o[z]
      BY <1>1 DEF Given
    <3> QED
      BY <1>5, <1>7, <1>8, <2>2, <3>1
  <2> QED
    BY <1>2, <1>15, <2>3 DEF Given
<1>17. Merging(m, E, o, a, b, p, k - 1, R1, R2 \ {y})
  <2>1. p \in Pairs /\ p.m = n /\ p.at = x /\ p.from = w.next[y]
    <3>1. PICK u : u = w.next[y]
      OBVIOUS
    <3>2. u \in Nodes /\ p = [m |-> n, at |-> x, from |-> u]
      BY <1>5, <1>11, <3>1
    <3> QED
      BY <1>2, <1>15, <3>1, <3>2 DEF Pairs
  <2> QED
    BY <1>9, <1>14, <1>15, <1>16, <2>1 DEF Merging
<1>18. Merging(m, E, o, a, b, q, k - 1, R1 \ {x}, R2)
  <2>1. q \in Pairs /\ q.m = w /\ q.at = w.next[x] /\ q.from = y
    <3>1. PICK u : u = w.next[x]
      OBVIOUS
    <3>2. u \in Nodes /\ q = [m |-> w, at |-> u, from |-> y]
      BY <1>4, <1>11, <3>1
    <3> QED
      BY <1>2, <3>1, <3>2 DEF Pairs
  <2> QED
    BY <1>1, <1>2, <1>4, <1>9, <2>1 DEF Merging
<1>19. d # c
  BY <1>2, <1>4, <1>5, <1>11, <1>12
<1> QED
  BY <1>9, <1>12, <1>17, <1>18, <1>19

LEMMA TogetherCounted ==
  ASSUME NEW S, NEW T, IsFiniteSet(S), IsFiniteSet(T), S \cap T = {}
  PROVE  IsFiniteSet(S \cup T) /\ Cardinality(S \cup T) = Cardinality(S) + Cardinality(T)
<1>1. /\ IsFiniteSet(S \cup T)
      /\ Cardinality(S \cup T) = Cardinality(S) + Cardinality(T) - Cardinality(S \cap T)
  BY FS_Union
<1>2. Cardinality(S \cap T) = 0
  BY FS_EmptySet
<1>3. Cardinality(S) \in Nat /\ Cardinality(T) \in Nat
  BY FS_CardinalityType
<1> QED
  BY <1>1, <1>2, <1>3

LEMMA TwoValues ==
  ASSUME NEW m, NEW E, NEW o, Whole(m, E, o), NEW a \in E, NEW b \in E, a # b
  PROVE  /\ Cardinality(Values0(m.live, o, a)) \in Nat
         /\ Cardinality(Values0(m.live, o, b)) \in Nat
         /\ Cardinality(Values0(m.live, o, a)) + Cardinality(Values0(m.live, o, b))
            <= Cardinality(m.live)
<1>1. PICK S, T, L : S = Values0(m.live, o, a) /\ T = Values0(m.live, o, b) /\ L = m.live
  OBVIOUS
<1>2. IsFiniteSet(L)
  BY <1>1, WholeFacts
<1>3. S \subseteq L /\ T \subseteq L /\ S \cap T = {}
  BY <1>1 DEF Values0, RingOf
<1>4. /\ IsFiniteSet(S) /\ IsFiniteSet(T)
  BY <1>2, <1>3, FS_Subset
<1>5. Cardinality(S \cup T) = Cardinality(S) + Cardinality(T)
  BY <1>3, <1>4, TogetherCounted
<1>6. S \cup T \subseteq L
  BY <1>3
<1>7. Cardinality(S \cup T) <= Cardinality(L)
  BY <1>2, <1>6, FS_Subset
<1> QED
  BY <1>1, <1>4, <1>5, <1>7, FS_CardinalityType

Merged(m, E, o, a, b, n, o1) ==
  Whole(n, E, o1) /\ n.live = m.live /\ o1 = Given(m, o, a, b, {})

LEMMA MergingStart ==
  ASSUME NEW m, NEW E, NEW o, Whole(m, E, o), NEW a \in E, NEW b \in E,
         NEW R1, NEW R2, R1 = Values0(m.live, o, a), R2 = Values0(m.live, o, b),
         NEW s, s = [m |-> m, at |-> m.next[a], from |-> m.next[b]]
  PROVE  s \in Pairs /\ Merging(m, E, o, a, b, s, Cardinality(R1) + Cardinality(R2), R1, R2)
<1>1. Stretch(m, E, o, R1, m.next[a], a) /\ Stretch(m, E, o, R2, m.next[b], b)
  BY WholeStretch
<1>2. m \in Memories /\ o \in [m.live -> E]
  BY WholeFacts
<1>3. Given(m, o, a, b, R2) = o
  BY <1>2 DEF Given
<1>4. PICK x, y : x = m.next[a] /\ y = m.next[b]
  OBVIOUS
<1>5. x \in Nodes /\ y \in Nodes
  BY <1>4, ValuesCounted
<1>6. s \in Pairs /\ s.m = m /\ s.at = x /\ s.from = y
  BY <1>2, <1>4, <1>5 DEF Pairs
<1> QED
  BY <1>1, <1>3, <1>4, <1>6 DEF Merging

LEMMA MergingEnds ==
  ASSUME NEW m, NEW E, NEW o, Whole(m, E, o), NEW a \in E, NEW b \in E, a # b,
         NEW c, NEW k, NEW R1, NEW R2, Merging(m, E, o, a, b, c, k, R1, R2),
         c.at = a \/ c.from = b,
         NEW n, n = IF c.from = b THEN c.m ELSE Transfer(c.m, a, c.from, b)
  PROVE  \E o1 : Merged(m, E, o, a, b, n, o1)
<1>1. PICK w, y, oc : w = c.m /\ y = c.from /\ oc = Given(m, o, a, b, R2)
  OBVIOUS
<1>2. Stretch(w, E, oc, R2, y, b) /\ w.live = m.live
  BY <1>1 DEF Merging
<1>3. y = b <=> R2 = {}
  BY <1>2, StretchFacts
<1>4. Whole(w, E, oc)
  BY <1>2 DEF Stretch
<1>5. CASE y = b
  <2>1. n = w /\ oc = Given(m, o, a, b, {})
    BY <1>1, <1>3, <1>5
  <2> QED
    BY <1>2, <1>4, <2>1 DEF Merged
<1>6. CASE y # b
  <2>1. n = Transfer(w, a, y, b)
    BY <1>1, <1>6
  <2>2. a \in w.live /\ oc[a] = a /\ oc[b] = b
    BY <1>4, WholeFacts
  <2>3. \A x \in R2 : x \in w.live /\ oc[x] = b /\ x \notin E
    <3>1. Span(w.next, w.live, E, oc, R2, y, b)
      BY <1>2 DEF Stretch
    <3> QED
      BY <2>2, <3>1 DEF Span
  <2>4. a \in w.live \ R2 /\ R2 # {}
    BY <1>3, <1>6, <2>2, <2>3
  <2>5. PICK o1 : Moved(w, E, oc, R2, a, n, o1)
    BY <1>2, <2>1, <2>4, TransferMoved
  <2>6. /\ Whole(n, E, o1) /\ n.live = w.live
        /\ o1 = [x \in w.live |-> IF x \in R2 THEN oc[a] ELSE oc[x]]
    BY <2>5 DEF Moved
  <2>7. ASSUME NEW x \in m.live
        PROVE  (IF x \in R2 THEN oc[a] ELSE oc[x])
               = IF x \in Values0(m.live, o, b) \ {} THEN a ELSE o[x]
    <3>1. oc[x] = IF x \in Values0(m.live, o, b) \ R2 THEN a ELSE o[x]
      BY <1>1 DEF Given
    <3>2. x \in R2 => x \in Values0(m.live, o, b)
      <4> SUFFICES ASSUME x \in R2 PROVE x \in Values0(m.live, o, b)
        OBVIOUS
      <4>1. o[x] = b /\ x # b
        BY <2>3, <3>1
      <4> QED
        BY <4>1 DEF Values0, RingOf
    <3> QED
      BY <2>2, <3>1, <3>2
  <2>8. o1 = Given(m, o, a, b, {})
    BY <1>2, <2>6, <2>7 DEF Given
  <2> QED
    BY <1>2, <2>6, <2>8 DEF Merged
<1> QED
  BY <1>5, <1>6

LEMMA MergeMerged ==
  ASSUME NEW m, NEW E, NEW o, Whole(m, E, o), NEW a \in E, NEW b \in E, a # b
  PROVE  \E o1 : Merged(m, E, o, a, b, Merge(m, a, b), o1)
<1>1. PICK turn : turn = [c \in Pairs |-> MergeTurn(c, a, b)]
  OBVIOUS
<1>2. PICK s, z : /\ s = [m |-> m, at |-> m.next[a], from |-> m.next[b]]
                  /\ z = Cardinality(m.live)
  OBVIOUS
<1>3. PICK c : c = Loop(turn, s, z)
  OBVIOUS
<1>4. Merge(m, a, b) = IF c.from = b THEN c.m ELSE Transfer(c.m, a, c.from, b)
  BY <1>1, <1>2, <1>3 DEF Merge, Rounds, Begin
<1>5. PICK R1, R2 : R1 = Values0(m.live, o, a) /\ R2 = Values0(m.live, o, b)
  OBVIOUS
<1>6. PICK k0 : k0 = Cardinality(R1) + Cardinality(R2)
  OBVIOUS
<1>7. z \in Nat /\ k0 \in 0..z
  <2>1. z \in Nat
    BY <1>2, WholeFacts
  <2>2. Cardinality(R1) \in Nat /\ Cardinality(R2) \in Nat /\ k0 <= z
    BY <1>2, <1>5, <1>6, TwoValues
  <2> QED
    BY <1>6, <2>1, <2>2
<1>8. PICK J : J = [k \in 0..z |->
                      {d \in Pairs : \E T1, T2 : Merging(m, E, o, a, b, d, k, T1, T2)}]
  OBVIOUS
<1>9. s \in J[k0]
  <2>1. s \in Pairs /\ Merging(m, E, o, a, b, s, k0, R1, R2)
    BY <1>2, <1>5, <1>6, MergingStart
  <2> QED
    BY <1>7, <1>8, <2>1
<1>10. ASSUME NEW k \in 0..z, NEW d \in J[k], d.at # a, d.from # b
       PROVE  k > 0 /\ turn[d] \in J[k - 1] /\ turn[d] # d
  <2>1. PICK T1, T2 : d \in Pairs /\ Merging(m, E, o, a, b, d, k, T1, T2)
    BY <1>8
  <2>2. PICK f : f = MergeTurn(d, a, b)
    OBVIOUS
  <2>3. k > 0 /\ f # d /\ \E S1, S2 : Merging(m, E, o, a, b, f, k - 1, S1, S2)
    <3>1. k \in Nat
      OBVIOUS
    <3> QED
      BY <1>10, <2>1, <2>2, <3>1, MergingTurn
  <2>4. turn[d] = f
    BY <1>1, <2>1, <2>2
  <2>5. f \in Pairs /\ k - 1 \in 0..z
    BY <1>7, <2>3 DEF Merging
  <2> QED
    BY <1>8, <2>3, <2>4, <2>5
<1>11. ASSUME NEW k \in 0..z, NEW d \in J[k]
       PROVE  turn[d] = d \/ (k > 0 /\ turn[d] \in J[k - 1])
  <2>1. d \in Pairs
    BY <1>8
  <2>2. d.at = a \/ d.from = b => turn[d] = d
    BY <1>1, <2>1 DEF MergeTurn
  <2> QED
    BY <1>10, <2>2
<1>12. \E k \in 0..k0 : c \in J[k] /\ turn[c] = c
  BY <1>3, <1>7, <1>9, <1>11, LoopEnds
<1>13. PICK k \in 0..k0 : c \in J[k] /\ turn[c] = c
  BY <1>12
<1>14. k \in 0..z
  BY <1>7
<1>15. PICK T1, T2 : Merging(m, E, o, a, b, c, k, T1, T2)
  BY <1>8, <1>13, <1>14
<1>16. c.at = a \/ c.from = b
  BY <1>10, <1>13, <1>14
<1> QED
  BY <1>4, <1>15, <1>16, MergingEnds

LEMMA MergedBecomes ==
  ASSUME NEW m, NEW E, NEW o, NEW a, NEW b, NEW n, NEW o1, Merged(m, E, o, a, b, n, o1)
  PROVE  Becomes(m, E, o, n, {a}, Cardinality(m.live))
<1>1. Whole(n, E, o1) /\ n.live = m.live /\ o1 = Given(m, o, a, b, {})
  BY DEF Merged
<1>2. Cardinality(n.live) \in Nat
  BY <1>1, WholeFacts
<1>3. Confined(m, o, n, o1, {a})
  BY <1>1 DEF Confined, Given
<1> QED
  BY <1>1, <1>2, <1>3 DEF Becomes
-----------------------------------------------------------------------------
(***************************************************************************)
(* The sorts.  F is what does not change while they run: the end nodes E,  *)
(* T of them new ones for carry and counter[], e the one of the list; the  *)
(* nodes L, V of them the values of the list; the owners o at first.       *)
(***************************************************************************)
LEMMA DoubledGrows ==
  /\ Doubled[0] = 1
  /\ \A k \in Nat : /\ Doubled[k] \in Nat /\ Doubled[k] >= 1
                    /\ Doubled[k + 1] = Doubled[k] + Doubled[k]
<1>1. PICK g : g = [x \in Nat |-> 2 * x]
  OBVIOUS
<1>2. g \in [Nat -> Nat] /\ \A x \in Nat : g[x] = 2 * x
  BY <1>1
<1>3. PICK f \in [Nat -> Nat] : f[0] = 1 /\ \A k \in Nat : f[k + 1] = g[f[k]]
  <2>1. PICK S, a : S = Nat /\ a = 1
    OBVIOUS
  <2>2. a \in S /\ g \in [S -> S]
    BY <1>2, <2>1
  <2>3. \E f \in [Nat -> S] : f[0] = a /\ \A k \in Nat : f[k + 1] = g[f[k]]
    BY <2>2, Iterates
  <2> QED
    BY <2>1, <2>3
<1>4. ASSUME NEW k \in Nat PROVE f[k] = IF k = 0 THEN 1 ELSE 2 * f[k - 1]
  <2>1. CASE k = 0
    BY <1>3, <2>1
  <2>2. CASE k # 0
    <3>1. k - 1 \in Nat /\ (k - 1) + 1 = k
      BY <2>2
    <3> QED
      BY <1>2, <1>3, <2>2, <3>1
  <2> QED
    BY <2>1, <2>2
<1>5. f = [k \in Nat |-> f[k]]
  BY <1>3
<1>6. f = [k \in Nat |-> IF k = 0 THEN 1 ELSE 2 * f[k - 1]]
  BY <1>4, <1>5
<1>7. Doubled = CHOOSE h : h = [k \in Nat |-> IF k = 0 THEN 1 ELSE 2 * h[k - 1]]
  BY DEF Doubled
<1>8. Doubled = [k \in Nat |-> IF k = 0 THEN 1 ELSE 2 * Doubled[k - 1]]
  BY <1>6, <1>7
<1>9. Doubled[0] = 1
  BY <1>8
<1>10. ASSUME NEW k \in Nat PROVE Doubled[k + 1] = 2 * Doubled[k]
  <2>1. k + 1 \in Nat /\ k + 1 # 0 /\ (k + 1) - 1 = k
    OBVIOUS
  <2> QED
    BY <1>8, <2>1
<1>11. PICK U : U = {k \in Nat : Doubled[k] \in Nat /\ Doubled[k] >= 1}
  OBVIOUS
<1>12. 0 \in U
  BY <1>9, <1>11
<1>13. \A k \in Nat : k \in U => k + 1 \in U
  <2> SUFFICES ASSUME NEW k \in Nat, k \in U PROVE k + 1 \in U
    OBVIOUS
  <2>1. Doubled[k] \in Nat /\ Doubled[k] >= 1 /\ Doubled[k + 1] = 2 * Doubled[k]
    BY <1>10, <1>11
  <2>2. Doubled[k + 1] \in Nat /\ Doubled[k + 1] >= 1
    BY <2>1
  <2> QED
    BY <1>11, <2>2
<1>14. \A k \in Nat : k \in U
  BY <1>12, <1>13, AllNaturals
<1> QED
  BY <1>9, <1>10, <1>11, <1>14

Ends(F) == F.T \cup {F.e}

Framed(F) ==
  /\ F.T \subseteq F.E /\ F.e \in F.E \ F.T /\ F.E \subseteq F.L
  /\ F.V \subseteq F.L \ F.E /\ IsFiniteSet(F.V) /\ Cardinality(F.V) < Doubled[Counters]
  /\ \A x \in F.L \ F.V : x \notin F.E => F.o[x] \notin Ends(F)

(* Values of the list stay in the lists of the sort, and only they do.     *)
Holds(F, m, o) ==
  /\ Whole(m, F.E, o) /\ m.live = F.L
  /\ \A x \in F.L : IF x \in F.V THEN o[x] \in Ends(F) ELSE o[x] = F.o[x]

Held(F, o, t) == {x \in F.V : o[x] = t}

LEMMA HeldFacts ==
  ASSUME NEW F, Framed(F), NEW m, NEW o, Holds(F, m, o), NEW t, t \in Ends(F)
  PROVE  /\ t \in F.E /\ Values0(m.live, o, t) = Held(F, o, t)
         /\ IsFiniteSet(Held(F, o, t)) /\ Cardinality(Held(F, o, t)) \in Nat
         /\ Cardinality(Held(F, o, t)) < Doubled[Counters]
         /\ Empty(m, t) <=> Held(F, o, t) = {}
<1>1. PICK E, T, L, V, e, ob : E = F.E /\ T = F.T /\ L = F.L /\ V = F.V /\ e = F.e /\ ob = F.o
  OBVIOUS
<1>2. PICK H : H = Held(F, o, t)
  OBVIOUS
<1>3. /\ T \subseteq E /\ e \in E \ T /\ E \subseteq L /\ V \subseteq L \ E
      /\ IsFiniteSet(V) /\ Cardinality(V) < Doubled[Counters]
      /\ \A x \in L \ V : x \notin E => ob[x] \notin T \cup {e}
  BY <1>1 DEF Framed, Ends
<1>4. /\ Whole(m, E, o) /\ m.live = L
      /\ \A x \in L : IF x \in V THEN o[x] \in T \cup {e} ELSE o[x] = ob[x]
  BY <1>1 DEF Holds, Ends
<1>5. t \in T \cup {e} /\ t \in E
  BY <1>1, <1>3 DEF Ends
<1>6. \A f \in E : o[f] = f
  BY <1>4, WholeFacts
<1>7. H = {x \in V : o[x] = t}
  BY <1>1, <1>2 DEF Held
<1>8. Values0(m.live, o, t) = {x \in L : o[x] = t /\ x # t}
  BY <1>4 DEF Values0, RingOf
<1>9. Values0(m.live, o, t) = H
  BY <1>3, <1>4, <1>5, <1>6, <1>7, <1>8
<1>10. IsFiniteSet(H) /\ Cardinality(H) \in Nat /\ Cardinality(H) <= Cardinality(V)
  BY <1>3, <1>7, FS_Subset, FS_CardinalityType
<1>11. Cardinality(H) < Doubled[Counters]
  <2>1. Doubled[Counters] \in Nat /\ Cardinality(V) \in Nat
    BY <1>3, DoubledGrows, FS_CardinalityType, ListAssumption
  <2> QED
    BY <1>3, <1>10, <2>1
<1>12. Rings(m.next, m.prev, m.live, E, o)
  BY <1>4, WholeFacts
<1>13. m.next[t] = t <=> H = {}
  BY <1>5, <1>9, <1>12, AloneIsEmpty
<1> QED
  BY <1>1, <1>2, <1>5, <1>9, <1>10, <1>11, <1>13 DEF Empty

(* All that b holds goes to a.                                             *)
Poured(F, o, a, b, o1) ==
  /\ Cardinality(Held(F, o1, a)) = Cardinality(Held(F, o, a)) + Cardinality(Held(F, o, b))
  /\ Held(F, o1, b) = {}
  /\ \A t \in Ends(F) : t # a /\ t # b => Held(F, o1, t) = Held(F, o, t)

LEMMA SortMerge ==
  ASSUME NEW F, Framed(F), NEW m, NEW o, Holds(F, m, o), NEW a \in F.T, NEW b \in F.T, a # b,
         NEW n, n = Merge(m, a, b)
  PROVE  \E o1 : Holds(F, n, o1) /\ Poured(F, o, a, b, o1)
<1>1. a \in Ends(F) /\ b \in Ends(F)
  BY DEF Ends
<1>2. /\ a \in F.E /\ b \in F.E /\ Values0(m.live, o, b) = Held(F, o, b)
      /\ IsFiniteSet(Held(F, o, a)) /\ IsFiniteSet(Held(F, o, b))
  BY <1>1, HeldFacts
<1>3. /\ Whole(m, F.E, o) /\ m.live = F.L
      /\ \A x \in F.L : IF x \in F.V THEN o[x] \in Ends(F) ELSE o[x] = F.o[x]
  BY DEF Holds
<1>4. PICK o1 : Merged(m, F.E, o, a, b, n, o1)
  BY <1>2, <1>3, MergeMerged
<1>5. Whole(n, F.E, o1) /\ n.live = F.L /\ o1 = Given(m, o, a, b, {})
  BY <1>3, <1>4 DEF Merged
<1>6. \A x \in F.L : o1[x] = IF x \in Held(F, o, b) THEN a ELSE o[x]
  BY <1>2, <1>3, <1>5 DEF Given
<1>7. Holds(F, n, o1)
  BY <1>1, <1>3, <1>5, <1>6 DEF Holds, Held
<1>8. F.V \subseteq F.L
  BY DEF Framed
<1>9. Held(F, o1, a) = Held(F, o, a) \cup Held(F, o, b)
  BY <1>6, <1>8 DEF Held
<1>10. Held(F, o, a) \cap Held(F, o, b) = {}
  BY DEF Held
<1>11. Cardinality(Held(F, o1, a)) = Cardinality(Held(F, o, a)) + Cardinality(Held(F, o, b))
  BY <1>2, <1>9, <1>10, TogetherCounted
<1>12. Held(F, o1, b) = {}
  BY <1>6, <1>8 DEF Held
<1>13. ASSUME NEW t \in Ends(F), t # a, t # b PROVE Held(F, o1, t) = Held(F, o, t)
  BY <1>6, <1>8, <1>13 DEF Held
<1> QED
  BY <1>7, <1>11, <1>12, <1>13 DEF Poured

(* The first value of the list goes to a, which is empty.                  *)
Taken(F, o, a, x, o1) ==
  /\ Cardinality(Held(F, o1, a)) = 1
  /\ x \in Held(F, o, F.e) /\ Held(F, o1, F.e) = Held(F, o, F.e) \ {x}
  /\ \A t \in Ends(F) : t # a /\ t # F.e => Held(F, o1, t) = Held(F, o, t)

LEMMA SortTake ==
  ASSUME NEW F, Framed(F), NEW m, NEW o, Holds(F, m, o), NEW a \in F.T, Held(F, o, a) = {},
         Held(F, o, F.e) # {}, NEW n, n = Splice1(m, Begin(m, a), Begin(m, F.e))
  PROVE  \E o1 : Holds(F, n, o1) /\ Taken(F, o, a, m.next[F.e], o1)
<1>1. a \in Ends(F) /\ F.e \in Ends(F) /\ a # F.e
  BY DEF Ends, Framed
<1>2. a \in F.E /\ (Empty(m, a) <=> Held(F, o, a) = {})
  BY <1>1, HeldFacts
<1>3. /\ F.e \in F.E /\ Values0(m.live, o, F.e) = Held(F, o, F.e)
      /\ IsFiniteSet(Held(F, o, F.e)) /\ (Empty(m, F.e) <=> Held(F, o, F.e) = {})
  BY <1>1, HeldFacts
<1>4. /\ Whole(m, F.E, o) /\ m.live = F.L
      /\ \A y \in F.L : IF y \in F.V THEN o[y] \in Ends(F) ELSE o[y] = F.o[y]
  BY DEF Holds
<1>5. PICK x, e : x = m.next[e] /\ e = F.e
  OBVIOUS
<1>6. m.next[a] = a /\ x # e
  BY <1>2, <1>3, <1>5 DEF Empty
<1>7. /\ F.E \subseteq m.live /\ \A f \in F.E : o[f] = f
      /\ \A y \in m.live : m.next[y] \in m.live /\ o[m.next[y]] = o[y]
  BY <1>4, WholeFacts
<1>8. x \in m.live /\ o[x] = e /\ o[m.next[x]] = e /\ o[a] = a
  BY <1>2, <1>3, <1>5, <1>7
<1>9. x \in Held(F, o, e)
  <2>1. x \in Values0(m.live, o, e)
    BY <1>6, <1>8 DEF Values0, RingOf
  <2> QED
    BY <1>3, <1>5, <2>1
<1>10. x \in F.V /\ x \notin F.E
  BY <1>9 DEF Held, Framed
<1>11. n = Transfer(m, a, x, m.next[x])
  <2>1. a # x /\ a # m.next[x]
    BY <1>1, <1>5, <1>8
  <2> QED
    BY <1>5, <1>6, <2>1 DEF Splice1, Begin
<1>12. PICK o1 : Moved(m, F.E, o, {x}, a, n, o1)
  <2>1. Stretch(m, F.E, o, {x}, x, m.next[x])
    BY <1>4, <1>8, <1>10, NodeStretch
  <2>2. a \in m.live \ {x} /\ {x} # {}
    BY <1>2, <1>7, <1>10
  <2> QED
    BY <1>11, <2>1, <2>2, TransferMoved
<1>13. Whole(n, F.E, o1) /\ n.live = F.L /\ \A y \in F.L : o1[y] = IF y = x THEN a ELSE o[y]
  BY <1>4, <1>8, <1>12 DEF Moved
<1>14. Holds(F, n, o1)
  BY <1>1, <1>4, <1>10, <1>13 DEF Holds
<1>15. F.V \subseteq F.L
  BY DEF Framed
<1>16. Held(F, o1, a) = {x}
  BY <1>10, <1>13, <1>15 DEF Held
<1>17. Held(F, o1, e) = Held(F, o, e) \ {x}
  BY <1>1, <1>5, <1>8, <1>10, <1>13, <1>15 DEF Held
<1>18. Cardinality(Held(F, o1, a)) = 1
  BY <1>16, FS_Singleton
<1>19. ASSUME NEW t \in Ends(F), t # a, t # e PROVE Held(F, o1, t) = Held(F, o, t)
  BY <1>8, <1>13, <1>15, <1>19 DEF Held
<1>20. Taken(F, o, a, x, o1)
  BY <1>5, <1>9, <1>17, <1>18, <1>19 DEF Taken
<1> QED
  BY <1>5, <1>14, <1>20
-----------------------------------------------------------------------------
(* The end nodes of carry and of the counters are those of T.              *)
Spread(F, carry, counter) ==
  /\ counter \in Seq(Nodes) /\ Len(counter) = Counters
  /\ carry \in Nodes /\ carry \in F.T
  /\ \A i \in 1..Counters : counter[i] \in F.T /\ counter[i] # carry
  /\ \A i, j \in 1..Counters : counter[i] = counter[j] => i = j
  /\ \A t \in F.T : t = carry \/ \E i \in 1..Counters : t = counter[i]

LEMMA SpreadSwapped ==
  ASSUME NEW F, NEW c, NEW cs, Spread(F, c, cs), NEW i \in 1..Counters,
         NEW ds, ds = [cs EXCEPT ![i] = c]
  PROVE  /\ Spread(F, cs[i], ds) /\ ds[i] = c
         /\ \A j \in 1..Counters : j # i => ds[j] = cs[j]
<1>1. /\ cs \in Seq(Nodes) /\ Len(cs) = Counters /\ c \in Nodes /\ c \in F.T
      /\ \A k \in 1..Counters : cs[k] \in F.T /\ cs[k] # c
      /\ \A k, j \in 1..Counters : cs[k] = cs[j] => k = j
      /\ \A t \in F.T : t = c \/ \E k \in 1..Counters : t = cs[k]
  BY DEF Spread
<1>2. DOMAIN cs = 1..Counters
  BY <1>1
<1>3. ds \in Seq(Nodes) /\ Len(ds) = Counters
  BY <1>1, <1>2
<1>4. ds[i] = c /\ \A j \in 1..Counters : j # i => ds[j] = cs[j]
  BY <1>2
<1>5. cs[i] \in Nodes /\ cs[i] \in F.T
  BY <1>1, <1>2
<1>6. \A k \in 1..Counters : ds[k] \in F.T /\ ds[k] # cs[i]
  BY <1>1, <1>4
<1>7. \A k, j \in 1..Counters : ds[k] = ds[j] => k = j
  BY <1>1, <1>4
<1>8. ASSUME NEW t \in F.T PROVE t = cs[i] \/ \E k \in 1..Counters : t = ds[k]
  BY <1>1, <1>4
<1> QED
  BY <1>3, <1>4, <1>5, <1>6, <1>7, <1>8 DEF Spread

(* Counter j holds nothing or 2^(j-1) values, and nothing from fill on.    *)
Filled(F, o, counter, fill) ==
  \A j \in 1..Counters :
    \/ Held(F, o, counter[j]) = {}
    \/ j <= fill /\ Cardinality(Held(F, o, counter[j])) = Doubled[j - 1]

(* H are the values still in the list.                                     *)
Sorting(F, s, o, H) ==
  /\ s \in SortStates /\ s.list = F.e /\ s.fill \in 0..Counters
  /\ Spread(F, s.carry, s.counter) /\ Holds(F, s.m, o)
  /\ Filled(F, o, s.counter, s.fill) /\ Held(F, o, F.e) = H

Carrying(F, s, o, H, i) ==
  /\ Sorting(F, s, o, H) /\ s.i = i /\ i \in 1..(s.fill + 1)
  /\ Cardinality(Held(F, o, s.carry)) = Doubled[i - 1]

LEMMA SortStateIs ==
  ASSUME NEW s \in SortStates
  PROVE  /\ s = [m |-> s.m, list |-> s.list, carry |-> s.carry, counter |-> s.counter,
                 fill |-> s.fill, i |-> s.i]
         /\ s.m \in Memories /\ s.list \in Nodes /\ s.carry \in Nodes
         /\ s.counter \in Seq(Nodes) /\ s.fill \in Nat /\ s.i \in Nat
BY DEF SortStates

LEMMA SwapCarryIs ==
  ASSUME NEW s \in SortStates
  PROVE  SwapCarry(s) = [m |-> s.m, list |-> s.list, carry |-> s.counter[s.i],
                         counter |-> [s.counter EXCEPT ![s.i] = s.carry],
                         fill |-> s.fill, i |-> s.i]
<1>1. PICK m, l, c, cs, f, i : s = [m |-> m, list |-> l, carry |-> c, counter |-> cs,
                                    fill |-> f, i |-> i]
  BY SortStateIs
<1>2. SwapCarry(s) = [s EXCEPT !.carry = cs[i], !.counter = [cs EXCEPT ![i] = c]]
  BY <1>1 DEF SwapCarry
<1> QED
  BY <1>1, <1>2

LEMMA CarryTurnIs ==
  ASSUME NEW s \in SortStates, s.i <= s.fill, ~Empty(s.m, s.counter[s.i]),
         NEW n, n = Merge(s.m, s.counter[s.i], s.carry), n \in Memories
  PROVE  CarryTurn(s) = [m |-> n, list |-> s.list, carry |-> s.counter[s.i],
                         counter |-> [s.counter EXCEPT ![s.i] = s.carry],
                         fill |-> s.fill, i |-> s.i + 1]
<1>1. PICK r : r = [s EXCEPT !.m = n]
  OBVIOUS
<1>2. CarryTurn(s) = [SwapCarry(r) EXCEPT !.i = s.i + 1]
  BY <1>1 DEF CarryTurn
<1>3. /\ r \in SortStates /\ r.m = n /\ r.list = s.list /\ r.carry = s.carry
      /\ r.counter = s.counter /\ r.fill = s.fill /\ r.i = s.i
  BY <1>1 DEF SortStates
<1>4. SwapCarry(r) = [m |-> n, list |-> s.list, carry |-> s.counter[s.i],
                      counter |-> [s.counter EXCEPT ![s.i] = s.carry],
                      fill |-> s.fill, i |-> s.i]
  BY <1>3, SwapCarryIs
<1> QED
  BY <1>2, <1>4

LEMMA CarryingTurn ==
  ASSUME NEW F, Framed(F), NEW s, NEW o, NEW H, NEW i \in Nat, Carrying(F, s, o, H, i),
         i <= s.fill, ~Empty(s.m, s.counter[i]), NEW d, d = CarryTurn(s)
  PROVE  \E o1 : Carrying(F, d, o1, H, i + 1)
<1>1. PICK m, c, cs, f : m = s.m /\ c = s.carry /\ cs = s.counter /\ f = s.fill
  OBVIOUS
<1>2. /\ s \in SortStates /\ s.list = F.e /\ f \in 0..Counters /\ s.i = i /\ i \in 1..(f + 1)
      /\ Spread(F, c, cs) /\ Holds(F, m, o) /\ Filled(F, o, cs, f)
      /\ Held(F, o, F.e) = H /\ Cardinality(Held(F, o, c)) = Doubled[i - 1]
  BY <1>1 DEF Carrying, Sorting
<1>3. i \in 1..Counters /\ Counters \in Nat /\ i - 1 \in Nat /\ i <= f /\ (i - 1) + 1 = i
  BY <1>1, <1>2, ListAssumption
<1>4. cs[i] \in F.T /\ c \in F.T /\ cs[i] # c
  BY <1>2, <1>3 DEF Spread
<1>5. PICK n : n = Merge(m, cs[i], c)
  OBVIOUS
<1>6. PICK o1 : Holds(F, n, o1) /\ Poured(F, o, cs[i], c, o1)
  BY <1>2, <1>4, <1>5, SortMerge
<1>7. n \in Memories
  BY <1>6 DEF Holds, Whole
<1>8. PICK ds : ds = [cs EXCEPT ![i] = c]
  OBVIOUS
<1>9. d = [m |-> n, list |-> s.list, carry |-> cs[i], counter |-> ds, fill |-> f, i |-> i + 1]
  BY <1>1, <1>2, <1>3, <1>5, <1>7, <1>8, CarryTurnIs
<1>10. /\ Spread(F, cs[i], ds) /\ ds[i] = c
       /\ \A j \in 1..Counters : j # i => ds[j] = cs[j]
  <2>1. Spread(F, c, cs) /\ i \in 1..Counters
    BY <1>2, <1>3
  <2>2. /\ Spread(F, cs[i], [cs EXCEPT ![i] = c])
        /\ [cs EXCEPT ![i] = c][i] = c
        /\ \A j \in 1..Counters : j # i => [cs EXCEPT ![i] = c][j] = cs[j]
    BY ONLY <2>1, SpreadSwapped
  <2> QED
    BY <1>8, <2>2
<1>11. F.T \subseteq Ends(F) /\ F.e \in Ends(F) /\ F.e \notin F.T
  BY DEF Ends, Framed
<1>12. Held(F, o, cs[i]) # {}
  BY <1>1, <1>2, <1>4, <1>11, HeldFacts
<1>13. Cardinality(Held(F, o, cs[i])) = Doubled[i - 1]
  BY <1>2, <1>3, <1>12 DEF Filled
<1>14. Cardinality(Held(F, o1, cs[i])) = Doubled[i]
  <2>1. Cardinality(Held(F, o1, cs[i])) = Doubled[i - 1] + Doubled[i - 1]
    BY <1>2, <1>6, <1>13 DEF Poured
  <2>2. Doubled[(i - 1) + 1] = Doubled[i - 1] + Doubled[i - 1]
    BY <1>3, DoubledGrows
  <2> QED
    BY <1>3, <2>1, <2>2
<1>15. /\ Held(F, o1, c) = {}
       /\ \A t \in Ends(F) : t # cs[i] /\ t # c => Held(F, o1, t) = Held(F, o, t)
  BY <1>6 DEF Poured
<1>16. Held(F, o1, F.e) = H
  BY <1>2, <1>4, <1>11, <1>15
<1>17. Filled(F, o1, ds, f)
  <2>1. ASSUME NEW j \in 1..Counters
        PROVE  \/ Held(F, o1, ds[j]) = {}
               \/ j <= f /\ Cardinality(Held(F, o1, ds[j])) = Doubled[j - 1]
    <3>1. CASE j = i
      BY <1>10, <1>15, <3>1
    <3>2. CASE j # i
      <4>1. ds[j] = cs[j] /\ cs[j] \in F.T /\ cs[j] # c /\ cs[j] # cs[i]
        BY <1>2, <1>3, <1>10, <3>2 DEF Spread
      <4>2. Held(F, o1, ds[j]) = Held(F, o, cs[j])
        BY <1>11, <1>15, <4>1
      <4>3. \/ Held(F, o, cs[j]) = {}
            \/ j <= f /\ Cardinality(Held(F, o, cs[j])) = Doubled[j - 1]
        BY <1>2 DEF Filled
      <4> QED
        BY <4>2, <4>3
    <3> QED
      BY <3>1, <3>2
  <2> QED
    BY <2>1 DEF Filled
<1>18. d \in SortStates /\ d.m = n /\ d.list = F.e /\ d.carry = cs[i] /\ d.counter = ds
       /\ d.fill = f /\ d.i = i + 1
  <2>1. s.list \in Nodes /\ f \in Nat
    BY <1>1, <1>2, SortStateIs
  <2>2. cs[i] \in Nodes /\ ds \in Seq(Nodes)
    BY <1>10 DEF Spread
  <2>3. i + 1 \in Nat
    OBVIOUS
  <2>4. PICK a, j : a = cs[i] /\ j = i + 1
    OBVIOUS
  <2>5. d = [m |-> n, list |-> s.list, carry |-> a, counter |-> ds, fill |-> f, i |-> j]
    BY <1>9, <2>4
  <2> QED
    BY <1>2, <1>7, <2>1, <2>2, <2>3, <2>4, <2>5 DEF SortStates
<1>19. Sorting(F, d, o1, H)
  BY <1>2, <1>6, <1>10, <1>16, <1>17, <1>18 DEF Sorting
<1>20. i + 1 \in 1..(d.fill + 1) /\ (i + 1) - 1 = i
  BY <1>2, <1>3, <1>18
<1> QED
  BY <1>14, <1>18, <1>19, <1>20 DEF Carrying

Settled(s) == [SwapCarry(s) EXCEPT !.fill = IF s.i = s.fill + 1 THEN s.i ELSE s.fill]

LEMMA CarryEnds ==
  ASSUME NEW F, Framed(F), NEW s, NEW o, NEW H, NEW i \in Nat, Carrying(F, s, o, H, i),
         ~ (i <= s.fill /\ ~Empty(s.m, s.counter[i])),
         NEW d, d = Settled(s)
  PROVE  Sorting(F, d, o, H) /\ Held(F, o, d.carry) = {} /\ d.fill >= 1
<1>1. PICK m, c, cs, f : m = s.m /\ c = s.carry /\ cs = s.counter /\ f = s.fill
  OBVIOUS
<1>2. /\ s \in SortStates /\ s.list = F.e /\ f \in 0..Counters /\ s.i = i /\ i \in 1..(f + 1)
      /\ Spread(F, c, cs) /\ Holds(F, m, o) /\ Filled(F, o, cs, f)
      /\ Held(F, o, F.e) = H /\ Cardinality(Held(F, o, c)) = Doubled[i - 1]
  BY <1>1 DEF Carrying, Sorting
<1>3. F.T \subseteq Ends(F) /\ F.e \in Ends(F) /\ c \in F.T
  BY <1>2 DEF Ends, Spread
<1>4. Cardinality(Held(F, o, c)) < Doubled[Counters] /\ Held(F, o, c) # {}
  <2>1. Cardinality(Held(F, o, c)) < Doubled[Counters]
    BY <1>2, <1>3, HeldFacts
  <2>2. Doubled[i - 1] >= 1 /\ Doubled[i - 1] \in Nat
    <3>1. i - 1 \in Nat
      BY <1>2
    <3> QED
      BY <3>1, DoubledGrows
  <2> QED
    <3>1. Cardinality({}) = 0
      BY FS_EmptySet
    <3>2. Cardinality(Held(F, o, c)) # 0
      BY <1>2, <2>2
    <3> QED
      BY <2>1, <3>1, <3>2
<1>5. i \in 1..Counters
  <2>1. Counters \in Nat
    BY ListAssumption
  <2>2. i # Counters + 1
    <3> SUFFICES ASSUME i = Counters + 1 PROVE FALSE
      OBVIOUS
    <3>1. i - 1 = Counters
      BY <2>1
    <3>2. Cardinality(Held(F, o, c)) = Doubled[Counters]
      BY <1>2, <3>1
    <3>3. Doubled[Counters] \in Nat
      BY <2>1, DoubledGrows
    <3> QED
      BY <1>4, <3>2, <3>3
  <2> QED
    BY <1>2, <2>1, <2>2
<1>6. PICK ds, a, g : ds = [cs EXCEPT ![i] = c] /\ a = cs[i] /\ g = IF i = f + 1 THEN i ELSE f
  OBVIOUS
<1>7. d = [m |-> m, list |-> s.list, carry |-> a, counter |-> ds, fill |-> g, i |-> i]
  <2>1. SwapCarry(s) = [m |-> m, list |-> s.list, carry |-> a, counter |-> ds,
                        fill |-> f, i |-> i]
    BY <1>1, <1>2, <1>6, SwapCarryIs
  <2>2. d = [SwapCarry(s) EXCEPT !.fill = g]
    BY <1>1, <1>2, <1>6 DEF Settled
  <2> QED
    BY <2>1, <2>2
<1>8. /\ Spread(F, a, ds) /\ ds[i] = c /\ \A j \in 1..Counters : j # i => ds[j] = cs[j]
  <2>2. /\ Spread(F, cs[i], [cs EXCEPT ![i] = c])
        /\ [cs EXCEPT ![i] = c][i] = c
        /\ \A j \in 1..Counters : j # i => [cs EXCEPT ![i] = c][j] = cs[j]
    <3>1. Spread(F, c, cs)
      BY <1>2
    <3> QED
      BY ONLY <1>5, <3>1, SpreadSwapped
  <2> QED
    BY <1>6, <2>2
<1>9. g \in 1..Counters /\ f <= g /\ i <= g
  <2>1. f \in Int /\ i \in Int /\ Counters \in Int
    BY <1>2, <1>5, ListAssumption
  <2> QED
    BY <1>2, <1>5, <1>6, <2>1
<1>10. Held(F, o, a) = {}
  <2>1. CASE i <= f
    <3>1. Empty(m, a)
      BY <1>1, <1>6, <2>1
    <3>2. a \in Ends(F)
      BY <1>3, <1>8 DEF Spread
    <3> QED
      BY <1>2, <3>1, <3>2, HeldFacts
  <2>2. CASE ~ i <= f
    BY <1>2, <1>5, <1>6, <2>2 DEF Filled
  <2> QED
    BY <2>1, <2>2
<1>11. Filled(F, o, ds, g)
  <2>1. ASSUME NEW j \in 1..Counters
        PROVE  \/ Held(F, o, ds[j]) = {}
               \/ j <= g /\ Cardinality(Held(F, o, ds[j])) = Doubled[j - 1]
    <3>1. CASE j = i
      BY <1>2, <1>8, <1>9, <3>1
    <3>2. CASE j # i
      <4>1. \/ Held(F, o, cs[j]) = {}
            \/ j <= f /\ Cardinality(Held(F, o, cs[j])) = Doubled[j - 1]
        BY <1>2 DEF Filled
      <4>2. j <= f => j <= g
        BY <1>2, <1>9
      <4> QED
        BY <1>8, <3>2, <4>1, <4>2
    <3> QED
      BY <3>1, <3>2
  <2> QED
    BY <2>1 DEF Filled
<1>12. /\ d \in SortStates /\ d.m = m /\ d.list = F.e /\ d.carry = a /\ d.counter = ds
       /\ d.fill = g
  <2>1. m \in Memories /\ s.list \in Nodes /\ i \in Nat
    BY <1>1, <1>2, SortStateIs
  <2>2. a \in Nodes /\ ds \in Seq(Nodes)
    BY <1>8 DEF Spread
  <2>3. g \in Nat
    BY <1>9
  <2> QED
    BY <1>2, <1>7, <2>1, <2>2, <2>3 DEF SortStates
<1>13. Sorting(F, d, o, H)
  <2>1. g \in 0..Counters
    BY <1>9
  <2> QED
    BY <1>2, <1>8, <1>11, <1>12, <2>1 DEF Sorting
<1> QED
  BY <1>9, <1>10, <1>12, <1>13

LEMMA CarryUpSorts ==
  ASSUME NEW F, Framed(F), NEW s, NEW o, NEW H, Sorting(F, s, o, H),
         Cardinality(Held(F, o, s.carry)) = 1, NEW d, d = CarryUp(s)
  PROVE  \E o1 : Sorting(F, d, o1, H) /\ Held(F, o1, d.carry) = {} /\ d.fill >= 1
<1>1. PICK turn : turn = [r \in SortStates |-> CarryTurn(r)]
  OBVIOUS
<1>2. PICK s0, z : s0 = [s EXCEPT !.i = 1] /\ z = Counters
  OBVIOUS
<1>3. PICK r : r = Loop(turn, s0, z)
  OBVIOUS
<1>4. d = Settled(r)
  BY <1>1, <1>2, <1>3 DEF CarryUp, Settled
<1>5. z \in Nat
  BY <1>2, ListAssumption
<1>6. PICK J : J = [k \in 0..z |-> {q \in SortStates : \E o1 : Carrying(F, q, o1, H, z + 1 - k)}]
  OBVIOUS
<1>7. s0 \in J[z]
  <2>1. /\ s \in SortStates /\ s.list = F.e /\ s.fill \in 0..Counters
        /\ Spread(F, s.carry, s.counter) /\ Holds(F, s.m, o)
        /\ Filled(F, o, s.counter, s.fill) /\ Held(F, o, F.e) = H
    BY DEF Sorting
  <2>2. /\ s0 \in SortStates /\ s0.m = s.m /\ s0.list = s.list /\ s0.carry = s.carry
        /\ s0.counter = s.counter /\ s0.fill = s.fill /\ s0.i = 1
    BY <1>2, <2>1 DEF SortStates
  <2>3. Sorting(F, s0, o, H)
    BY <2>1, <2>2 DEF Sorting
  <2>4. 1 \in 1..(s0.fill + 1) /\ Doubled[1 - 1] = 1
    <3>1. s0.fill \in Nat /\ 1 - 1 = 0
      BY <2>1, <2>2
    <3> QED
      BY <3>1, DoubledGrows
  <2>5. Carrying(F, s0, o, H, 1)
    BY <2>2, <2>3, <2>4 DEF Carrying
  <2>6. z + 1 - z = 1 /\ z \in 0..z
    BY <1>5
  <2> QED
    BY <1>6, <2>2, <2>5, <2>6
<1>8. ASSUME NEW k \in 0..z, NEW q \in J[k],
             q.i <= q.fill, ~Empty(q.m, q.counter[q.i])
      PROVE  k > 0 /\ turn[q] \in J[k - 1] /\ turn[q] # q
  <2>1. PICK i : i = z + 1 - k
    OBVIOUS
  <2>2. PICK o1 : q \in SortStates /\ Carrying(F, q, o1, H, i)
    BY <1>6, <2>1
  <2>3. q.i = i /\ q.fill \in 0..z /\ i \in Nat
    BY <1>2, <1>5, <2>1, <2>2 DEF Carrying, Sorting
  <2>4. PICK f : f = CarryTurn(q)
    OBVIOUS
  <2>5. PICK o2 : Carrying(F, f, o2, H, i + 1)
    BY <1>8, <2>2, <2>3, <2>4, CarryingTurn
  <2>6. f \in SortStates /\ f.i = i + 1
    BY <2>5 DEF Carrying, Sorting
  <2>7. k > 0 /\ i + 1 = z + 1 - (k - 1) /\ k - 1 \in 0..z
    BY <1>5, <1>8, <2>1, <2>3
  <2>8. turn[q] = f /\ f # q
    BY <1>1, <2>2, <2>3, <2>4, <2>6
  <2> QED
    BY <1>6, <2>5, <2>6, <2>7, <2>8
<1>9. ASSUME NEW k \in 0..z, NEW q \in J[k]
      PROVE  turn[q] = q \/ (k > 0 /\ turn[q] \in J[k - 1])
  <2>1. q \in SortStates
    BY <1>6
  <2>2. ~ (q.i <= q.fill /\ ~Empty(q.m, q.counter[q.i])) => turn[q] = q
    BY <1>1, <2>1 DEF CarryTurn
  <2> QED
    BY <1>8, <2>2
<1>10. \E k \in 0..z : r \in J[k] /\ turn[r] = r
  <2>1. z \in 0..z
    BY <1>5
  <2> QED
    BY <1>3, <1>5, <1>7, <1>9, <2>1, LoopEnds
<1>11. PICK k \in 0..z : r \in J[k] /\ turn[r] = r
  BY <1>10
<1>12. PICK i : i = z + 1 - k
  OBVIOUS
<1>13. PICK o1 : Carrying(F, r, o1, H, i)
  BY <1>6, <1>11, <1>12
<1>14. i \in Nat /\ r.i = i
  BY <1>5, <1>12, <1>13 DEF Carrying
<1>15. ~ (i <= r.fill /\ ~Empty(r.m, r.counter[i]))
  BY <1>8, <1>11, <1>14
<1>16. Sorting(F, d, o1, H) /\ Held(F, o1, d.carry) = {} /\ d.fill >= 1
  BY <1>4, <1>13, <1>14, <1>15, CarryEnds
<1> QED
  BY <1>16

(* The values are handed out one by one, and end up in the counters.       *)
Distributing(F, s, o, H) ==
  /\ Sorting(F, s, o, H) /\ Held(F, o, s.carry) = {}
  /\ H = F.V \/ s.fill >= 1

LEMMA DistributingTurn ==
  ASSUME NEW F, Framed(F), NEW s, NEW o, NEW H, Distributing(F, s, o, H),
         ~Empty(s.m, F.e), NEW d, d = DistributeTurn(s)
  PROVE  \E x \in H : \E o1 : Distributing(F, d, o1, H \ {x}) /\ d # s
<1>1. PICK m, c, cs, f, l : m = s.m /\ c = s.carry /\ cs = s.counter /\ f = s.fill /\ l = s.list
  OBVIOUS
<1>2. /\ s \in SortStates /\ l = F.e /\ f \in 0..Counters
      /\ Spread(F, c, cs) /\ Holds(F, m, o) /\ Filled(F, o, cs, f)
      /\ Held(F, o, F.e) = H /\ Held(F, o, c) = {}
  BY <1>1 DEF Distributing, Sorting
<1>3. c \in F.T /\ F.e \in Ends(F) /\ F.e # c
  BY <1>2 DEF Spread, Ends, Framed
<1>4. Held(F, o, F.e) # {}
  BY <1>1, <1>2, <1>3, HeldFacts
<1>5. PICK n : n = Splice1(m, Begin(m, c), Begin(m, F.e))
  OBVIOUS
<1>6. PICK x : x = m.next[F.e]
  OBVIOUS
<1>7. PICK o1 : Holds(F, n, o1) /\ Taken(F, o, c, x, o1)
  BY <1>2, <1>3, <1>4, <1>5, <1>6, SortTake
<1>8. PICK r : r = [s EXCEPT !.m = n]
  OBVIOUS
<1>9. d = CarryUp(r)
  BY <1>1, <1>2, <1>5, <1>8 DEF DistributeTurn
<1>10. n \in Memories
  BY <1>7 DEF Holds, Whole
<1>11. /\ r \in SortStates /\ r.m = n /\ r.list = F.e /\ r.carry = c /\ r.counter = cs
       /\ r.fill = f
  BY <1>1, <1>2, <1>8, <1>10 DEF SortStates
<1>12. /\ Cardinality(Held(F, o1, c)) = 1 /\ x \in H /\ Held(F, o1, F.e) = H \ {x}
       /\ \A t \in Ends(F) : t # c /\ t # F.e => Held(F, o1, t) = Held(F, o, t)
  BY <1>2, <1>7 DEF Taken
<1>13. Filled(F, o1, cs, f)
  <2>1. ASSUME NEW j \in 1..Counters PROVE Held(F, o1, cs[j]) = Held(F, o, cs[j])
    <3>1. cs[j] \in F.T /\ cs[j] # c
      BY <1>2 DEF Spread
    <3>2. cs[j] \in Ends(F) /\ cs[j] # F.e
      BY <3>1 DEF Ends, Framed
    <3> QED
      BY <1>12, <3>1, <3>2
  <2> QED
    BY <1>2, <2>1 DEF Filled
<1>14. Sorting(F, r, o1, H \ {x})
  BY <1>2, <1>7, <1>11, <1>12, <1>13 DEF Sorting
<1>15. PICK o2 : Sorting(F, d, o2, H \ {x}) /\ Held(F, o2, d.carry) = {} /\ d.fill >= 1
  <2>1. Cardinality(Held(F, o1, r.carry)) = 1
    BY <1>11, <1>12
  <2> QED
    BY <1>9, <1>14, <2>1, CarryUpSorts
<1>16. Distributing(F, d, o2, H \ {x})
  BY <1>15 DEF Distributing
<1>17. d # s
  <2> SUFFICES ASSUME d = s PROVE FALSE
    OBVIOUS
  <2>1. Holds(F, m, o2) /\ Held(F, o2, F.e) = H \ {x}
    BY <1>1, <1>15 DEF Sorting
  <2>2. Whole(m, F.E, o2) /\ F.e \in F.E
    BY <2>1 DEF Holds, Framed
  <2>3. o2[x] = F.e
    <3>1. /\ \A y \in m.live : o2[m.next[y]] = o2[y]
          /\ F.E \in SUBSET m.live /\ \A y \in F.E : o2[y] = y
      BY <2>2, WholeFacts
    <3> QED
      BY <1>6, <2>2, <3>1
  <2>4. x \in F.V
    BY <1>2, <1>12 DEF Held
  <2>5. x \in Held(F, o2, F.e)
    BY <2>3, <2>4 DEF Held
  <2> QED
    BY <2>1, <2>5
<1> QED
  BY <1>12, <1>16, <1>17

LEMMA DistributeSorts ==
  ASSUME NEW F, Framed(F), NEW s, NEW o, Distributing(F, s, o, F.V), F.V # {},
         NEW d, d = Distribute(s)
  PROVE  \E o1 : Sorting(F, d, o1, {}) /\ Held(F, o1, d.carry) = {} /\ d.fill >= 1
<1>1. PICK turn : turn = [r \in SortStates |-> DistributeTurn(r)]
  OBVIOUS
<1>2. PICK z : z = Cardinality(s.m.live)
  OBVIOUS
<1>3. d = Loop(turn, s, z)
  BY <1>1, <1>2 DEF Distribute, Rounds
<1>4. s \in SortStates /\ s.m.live = F.L /\ Whole(s.m, F.E, o)
  BY DEF Distributing, Sorting, Holds
<1>5. z \in Nat /\ IsFiniteSet(F.L)
  BY <1>2, <1>4, WholeFacts
<1>6. F.V \subseteq F.L /\ IsFiniteSet(F.V)
  BY DEF Framed
<1>7. Cardinality(F.V) \in 0..z
  BY <1>2, <1>4, <1>5, <1>6, FS_Subset, FS_CardinalityType
<1>8. PICK J : J = [k \in 0..z |->
          {q \in SortStates : \E o1 : \E H \in SUBSET F.V :
                                 Distributing(F, q, o1, H) /\ Cardinality(H) = k}]
  OBVIOUS
<1>9. s \in J[Cardinality(F.V)]
  BY <1>4, <1>7, <1>8
<1>10. ASSUME NEW k \in 0..z, NEW q \in J[k], ~Empty(q.m, F.e)
       PROVE  k > 0 /\ turn[q] \in J[k - 1] /\ turn[q] # q
  <2>1. PICK o1 : \E H \in SUBSET F.V : /\ q \in SortStates /\ Distributing(F, q, o1, H)
                                        /\ Cardinality(H) = k
    BY <1>8
  <2>2. PICK H \in SUBSET F.V : /\ q \in SortStates /\ Distributing(F, q, o1, H)
                                /\ Cardinality(H) = k
    BY <2>1
  <2>3. PICK f : f = DistributeTurn(q)
    OBVIOUS
  <2>4. PICK x \in H : \E o2 : Distributing(F, f, o2, H \ {x}) /\ f # q
    BY <1>10, <2>2, <2>3, DistributingTurn
  <2>5. PICK o2 : Distributing(F, f, o2, H \ {x}) /\ f # q
    BY <2>4
  <2>6. IsFiniteSet(H)
    BY <1>6, FS_Subset
  <2>7. Cardinality(H \ {x}) = k - 1 /\ H \ {x} \in SUBSET F.V
    BY <2>2, <2>6, OneLess
  <2>8. k > 0 /\ k - 1 \in 0..z
    <3>1. Cardinality(H \ {x}) \in Nat
      BY <2>6, FS_Subset, FS_CardinalityType
    <3> QED
      BY <1>5, <2>7, <3>1
  <2>9. f \in SortStates
    BY <2>5 DEF Distributing, Sorting
  <2>10. turn[q] = f
    BY <1>1, <2>2, <2>3
  <2> QED
    BY <1>8, <2>5, <2>7, <2>8, <2>9, <2>10
<1>11. ASSUME NEW k \in 0..z, NEW q \in J[k]
       PROVE  q \in SortStates /\ q.list = F.e
              /\ (turn[q] = q \/ (k > 0 /\ turn[q] \in J[k - 1]))
  <2>1. PICK o1, H : q \in SortStates /\ Distributing(F, q, o1, H)
    BY <1>8
  <2>2. q.list = F.e
    BY <2>1 DEF Distributing, Sorting
  <2>3. Empty(q.m, F.e) => turn[q] = q
    BY <1>1, <2>1, <2>2 DEF DistributeTurn
  <2> QED
    BY <1>10, <2>1, <2>2, <2>3
<1>12. \E k \in 0..Cardinality(F.V) : d \in J[k] /\ turn[d] = d
  BY <1>3, <1>5, <1>7, <1>9, <1>11, LoopEnds
<1>13. PICK k \in 0..Cardinality(F.V) : d \in J[k] /\ turn[d] = d
  BY <1>12
<1>14. k \in 0..z
  BY <1>5, <1>7
<1>15. PICK o1, H : Distributing(F, d, o1, H)
  BY <1>8, <1>13, <1>14
<1>16. Empty(d.m, F.e)
  BY <1>10, <1>13, <1>14
<1>17. /\ Sorting(F, d, o1, H) /\ Held(F, o1, d.carry) = {} /\ (H = F.V \/ d.fill >= 1)
  BY <1>15 DEF Distributing
<1>18. Holds(F, d.m, o1) /\ Held(F, o1, F.e) = H
  BY <1>17 DEF Sorting
<1>19. F.e \in Ends(F)
  BY DEF Ends
<1>20. H = {}
  BY <1>16, <1>18, <1>19, HeldFacts
<1> QED
  BY <1>17, <1>20

(* The counters below i - 1 are poured into the next ones.                 *)
Collecting(F, s, o, i) ==
  /\ s \in SortStates /\ s.list = F.e /\ s.fill \in 1..Counters
  /\ s.i = i /\ i \in 2..(s.fill + 1)
  /\ Spread(F, s.carry, s.counter) /\ Holds(F, s.m, o)
  /\ Held(F, o, F.e) = {} /\ Held(F, o, s.carry) = {}
  /\ \A j \in 1..Counters : j < i - 1 \/ j > s.fill => Held(F, o, s.counter[j]) = {}

LEMMA CollectingTurn ==
  ASSUME NEW F, Framed(F), NEW s, NEW o, NEW i \in Nat, Collecting(F, s, o, i),
         i <= s.fill, NEW d, d = CollectTurn(s)
  PROVE  \E o1 : Collecting(F, d, o1, i + 1)
<1>1. PICK m, c, cs, f : m = s.m /\ c = s.carry /\ cs = s.counter /\ f = s.fill
  OBVIOUS
<1>2. /\ s \in SortStates /\ s.list = F.e /\ f \in 1..Counters /\ s.i = i /\ i \in 2..(f + 1)
      /\ i <= f /\ Spread(F, c, cs) /\ Holds(F, m, o)
      /\ Held(F, o, F.e) = {} /\ Held(F, o, c) = {}
      /\ \A j \in 1..Counters : j < i - 1 \/ j > f => Held(F, o, cs[j]) = {}
  BY <1>1 DEF Collecting
<1>3. i \in 1..Counters /\ i - 1 \in 1..Counters /\ i - 1 # i /\ Counters \in Nat
  BY <1>2, ListAssumption
<1>4. PICK a, b : a = cs[i] /\ b = cs[i - 1]
  OBVIOUS
<1>5. a \in F.T /\ b \in F.T /\ a # b /\ a # c /\ b # c
  BY <1>2, <1>3, <1>4 DEF Spread
<1>6. PICK n : n = Merge(m, a, b)
  OBVIOUS
<1>7. PICK o1 : Holds(F, n, o1) /\ Poured(F, o, a, b, o1)
  BY <1>2, <1>5, <1>6, SortMerge
<1>8. n \in Memories
  BY <1>7 DEF Holds, Whole
<1>9. d = [s EXCEPT !.m = n, !.i = i + 1]
  BY <1>1, <1>2, <1>4, <1>6 DEF CollectTurn
<1>10. /\ d \in SortStates /\ d.m = n /\ d.list = F.e /\ d.carry = c /\ d.counter = cs
       /\ d.fill = f /\ d.i = i + 1
  <2>1. i + 1 \in Nat
    OBVIOUS
  <2> QED
    BY <1>1, <1>2, <1>8, <1>9, <2>1 DEF SortStates
<1>11. /\ Held(F, o1, b) = {}
       /\ \A t \in Ends(F) : t # a /\ t # b => Held(F, o1, t) = Held(F, o, t)
  BY <1>7 DEF Poured
<1>12. F.T \subseteq Ends(F) /\ F.e \in Ends(F) /\ F.e \notin F.T /\ c \in F.T
  BY <1>2 DEF Ends, Framed, Spread
<1>13. Held(F, o1, F.e) = {} /\ Held(F, o1, c) = {}
  BY <1>2, <1>5, <1>11, <1>12
<1>14. ASSUME NEW j \in 1..Counters, j < (i + 1) - 1 \/ j > f
       PROVE  Held(F, o1, cs[j]) = {}
  <2>1. cs[j] \in Ends(F)
    BY <1>2, <1>12 DEF Spread
  <2>2. j # i
    BY <1>2, <1>3, <1>14
  <2>3. cs[j] # a
    BY <1>2, <1>3, <1>4, <2>2 DEF Spread
  <2>4. CASE j = i - 1
    BY <1>4, <1>11, <2>4
  <2>5. CASE j # i - 1
    <3>1. cs[j] # b
      BY <1>2, <1>3, <1>4, <2>5 DEF Spread
    <3>2. j < i - 1 \/ j > f
      BY <1>2, <1>3, <1>14, <2>5
    <3> QED
      BY <1>2, <1>11, <2>1, <2>3, <3>1, <3>2
  <2> QED
    BY <2>4, <2>5
<1>15. i + 1 \in 2..(f + 1)
  BY <1>2
<1> QED
  BY <1>2, <1>7, <1>10, <1>13, <1>14, <1>15 DEF Collecting

(* In the end one counter holds all values.                                *)
Collected(F, s, o) ==
  /\ s \in SortStates /\ s.list = F.e /\ s.fill \in 1..Counters
  /\ Spread(F, s.carry, s.counter) /\ Holds(F, s.m, o)
  /\ Held(F, o, F.e) = {} /\ Held(F, o, s.carry) = {}
  /\ \A j \in 1..Counters : j # s.fill => Held(F, o, s.counter[j]) = {}

LEMMA CollectSorts ==
  ASSUME NEW F, Framed(F), NEW s, NEW o, Sorting(F, s, o, {}), Held(F, o, s.carry) = {},
         s.fill >= 1, NEW d, d = Collect(s)
  PROVE  \E o1 : Collected(F, d, o1)
<1>1. PICK turn : turn = [r \in SortStates |-> CollectTurn(r)]
  OBVIOUS
<1>2. PICK s0, z : s0 = [s EXCEPT !.i = 2] /\ z = Counters
  OBVIOUS
<1>3. d = Loop(turn, s0, z)
  BY <1>1, <1>2 DEF Collect
<1>4. z \in Nat
  BY <1>2, ListAssumption
<1>5. /\ s \in SortStates /\ s.list = F.e /\ s.fill \in 1..z
      /\ Spread(F, s.carry, s.counter) /\ Holds(F, s.m, o)
      /\ Filled(F, o, s.counter, s.fill) /\ Held(F, o, F.e) = {}
  <2>1. s.fill \in 0..Counters
    BY DEF Sorting
  <2>2. s.fill \in 1..z
    BY <1>2, <1>4, <2>1
  <2> QED
    BY <2>2 DEF Sorting
<1>6. PICK J : J = [k \in 0..z |->
                      {q \in SortStates : \E o1, i : /\ i \in Nat /\ Collecting(F, q, o1, i)
                                                     /\ i + k = q.fill + 1}]
  OBVIOUS
<1>7. /\ s0 \in SortStates /\ s0.m = s.m /\ s0.list = s.list /\ s0.carry = s.carry
      /\ s0.counter = s.counter /\ s0.fill = s.fill /\ s0.i = 2
  BY <1>2, <1>5 DEF SortStates
<1>8. PICK k0 : k0 = s.fill - 1
  OBVIOUS
<1>9. k0 \in 0..z
  BY <1>4, <1>5, <1>8
<1>10. s0 \in J[k0]
  <2>1. ASSUME NEW j \in 1..Counters, j < 2 - 1 \/ j > s.fill
        PROVE  Held(F, o, s.counter[j]) = {}
    <3>1. ~ j <= s.fill
      BY <1>5, <2>1
    <3> QED
      BY <1>5, <3>1 DEF Filled
  <2>2. 2 \in 2..(s.fill + 1) /\ 2 \in Nat /\ 2 + k0 = s.fill + 1
    BY <1>5, <1>8
  <2>3. Collecting(F, s0, o, 2)
    BY <1>2, <1>5, <1>7, <2>1, <2>2 DEF Collecting
  <2> QED
    BY <1>6, <1>7, <1>9, <2>2, <2>3
<1>11. ASSUME NEW k \in 0..z, NEW q \in J[k], q.i <= q.fill
       PROVE  k > 0 /\ turn[q] \in J[k - 1] /\ turn[q] # q
  <2>1. PICK o1, i : /\ q \in SortStates /\ i \in Nat /\ Collecting(F, q, o1, i)
                     /\ i + k = q.fill + 1
    BY <1>6
  <2>2. PICK f : f = CollectTurn(q)
    OBVIOUS
  <2>3. q.i = i /\ q.fill \in Nat
    BY <2>1 DEF Collecting, SortStates
  <2>4. PICK o2 : Collecting(F, f, o2, i + 1)
    BY <1>11, <2>1, <2>2, <2>3, CollectingTurn
  <2>5. f \in SortStates /\ f.i = i + 1
    BY <2>4 DEF Collecting
  <2>6. f.fill = q.fill
    <3>1. f = [q EXCEPT !.m = Merge(q.m, q.counter[q.i], q.counter[q.i - 1]), !.i = q.i + 1]
      <4>1. ~ q.i > q.fill
        BY <1>11, <2>1, <2>3
      <4> QED
        BY <2>2, <4>1 DEF CollectTurn
    <3> QED
      BY <2>1, <3>1 DEF SortStates
  <2>7. k > 0 /\ (i + 1) + (k - 1) = f.fill + 1 /\ k - 1 \in 0..z /\ i + 1 \in Nat
    BY <1>4, <1>11, <2>1, <2>3, <2>6
  <2>8. turn[q] = f /\ f # q
    BY <1>1, <2>1, <2>2, <2>3, <2>5
  <2> QED
    BY <1>6, <2>4, <2>5, <2>7, <2>8
<1>12. ASSUME NEW k \in 0..z, NEW q \in J[k]
       PROVE  turn[q] = q \/ (k > 0 /\ turn[q] \in J[k - 1])
  <2>1. q \in SortStates
    BY <1>6
  <2>2. q.i \in Nat /\ q.fill \in Nat
    BY <2>1 DEF SortStates
  <2>3. ~ q.i <= q.fill => turn[q] = q
    <3>1. turn[q] = CollectTurn(q)
      BY <1>1, <2>1
    <3>2. ~ q.i <= q.fill => q.i > q.fill
      BY <2>2
    <3>3. q.i > q.fill => CollectTurn(q) = q
      BY DEF CollectTurn
    <3> QED
      BY <3>1, <3>2, <3>3
  <2> QED
    BY <1>11, <2>3
<1>13. \E k \in 0..k0 : d \in J[k] /\ turn[d] = d
  BY <1>3, <1>4, <1>9, <1>10, <1>12, LoopEnds
<1>14. PICK k \in 0..k0 : d \in J[k] /\ turn[d] = d
  BY <1>13
<1>15. k \in 0..z
  BY <1>4, <1>9
<1>16. PICK o1, i : i \in Nat /\ Collecting(F, d, o1, i) /\ i + k = d.fill + 1
  BY <1>6, <1>14, <1>15
<1>17. ~ d.i <= d.fill
  BY <1>11, <1>14, <1>15
<1>18. /\ d \in SortStates /\ d.list = F.e /\ d.fill \in 1..Counters
       /\ d.i = i /\ i \in 2..(d.fill + 1)
       /\ Spread(F, d.carry, d.counter) /\ Holds(F, d.m, o1)
       /\ Held(F, o1, F.e) = {} /\ Held(F, o1, d.carry) = {}
       /\ \A j \in 1..Counters : j < i - 1 \/ j > d.fill => Held(F, o1, d.counter[j]) = {}
  BY <1>16 DEF Collecting
<1>19. i = d.fill + 1
  BY <1>17, <1>18
<1>20. ASSUME NEW j \in 1..Counters, j # d.fill PROVE Held(F, o1, d.counter[j]) = {}
  <2>1. j < i - 1 \/ j > d.fill
    BY <1>18, <1>19, <1>20
  <2> QED
    BY <1>18, <2>1
<1> QED
  BY <1>18, <1>20 DEF Collected
-----------------------------------------------------------------------------
(***************************************************************************)
(* The sorts begin with new end nodes T for carry and n counters.          *)
(***************************************************************************)
Distinct(c, cs, n, T) ==
  /\ cs \in Seq(Nodes) /\ Len(cs) = n /\ c \in Nodes /\ c \in T
  /\ \A i \in 1..n : cs[i] \in T /\ cs[i] # c
  /\ \A i, j \in 1..n : cs[i] = cs[j] => i = j
  /\ \A t \in T : t = c \/ \E i \in 1..n : t = cs[i]

Apart(m, E, o, T, m1, o1, n) ==
  /\ Whole(m1, E \cup T, o1) /\ m1.live = m.live \cup T /\ T \cap m.live = {}
  /\ \A x \in m1.live : o1[x] = IF x \in T THEN x ELSE o[x]
  /\ Cardinality(m1.live) = Cardinality(m.live) + n + 1

Equipped(m, E, o, e, s, n, T, o1) ==
  /\ s \in SortStates /\ s.list = e /\ s.fill = 0
  /\ Distinct(s.carry, s.counter, n, T) /\ Apart(m, E, o, T, s.m, o1, n)

LEMMA DistinctMore ==
  ASSUME NEW c, NEW cs, NEW n \in Nat, NEW T, Distinct(c, cs, n, T),
         NEW t \in Nodes, t \notin T
  PROVE  Distinct(c, Append(cs, t), n + 1, T \cup {t})
<1>1. /\ cs \in Seq(Nodes) /\ Len(cs) = n /\ c \in Nodes /\ c \in T
      /\ \A i \in 1..n : cs[i] \in T /\ cs[i] # c
      /\ \A i, j \in 1..n : cs[i] = cs[j] => i = j
      /\ \A x \in T : x = c \/ \E i \in 1..n : x = cs[i]
  BY DEF Distinct
<1>2. PICK ds : ds = Append(cs, t)
  OBVIOUS
<1>3. /\ ds \in Seq(Nodes) /\ Len(ds) = n + 1 /\ ds[n + 1] = t
      /\ \A i \in 1..n : ds[i] = cs[i]
  BY <1>1, <1>2
<1>4. \A i \in 1..(n + 1) : i \in 1..n \/ i = n + 1
  OBVIOUS
<1>5. \A i \in 1..(n + 1) : ds[i] \in T \cup {t} /\ ds[i] # c
  BY <1>1, <1>3, <1>4
<1>6. \A i, j \in 1..(n + 1) : ds[i] = ds[j] => i = j
  BY <1>1, <1>3, <1>4
<1>7. ASSUME NEW x \in T \cup {t} PROVE x = c \/ \E i \in 1..(n + 1) : x = ds[i]
  <2>1. n + 1 \in 1..(n + 1) /\ \A i \in 1..n : i \in 1..(n + 1)
    OBVIOUS
  <2> QED
    BY <1>1, <1>3, <2>1
<1> QED
  BY <1>1, <1>2, <1>3, <1>5, <1>6, <1>7 DEF Distinct

LEMMA ApartMore ==
  ASSUME NEW m, NEW E, NEW o, NEW T, NEW m1, NEW o1, NEW n \in Nat, Apart(m, E, o, T, m1, o1, n),
         Cardinality(m.live) \in Nat, Cardinality(m.live) + n + 1 < Cardinality(Nodes),
         NEW t, t = Fresh(m1)
  PROVE  /\ t \in Nodes /\ t \notin T
         /\ \E o2 : Apart(m, E, o, T \cup {t}, NewEnd(m1), o2, n + 1)
<1>1. /\ Whole(m1, E \cup T, o1) /\ m1.live = m.live \cup T /\ T \cap m.live = {}
      /\ \A x \in m1.live : o1[x] = IF x \in T THEN x ELSE o[x]
      /\ Cardinality(m1.live) = Cardinality(m.live) + n + 1
  BY DEF Apart
<1>2. PICK o2 : o2 = [x \in m1.live \cup {t} |-> IF x = t THEN t ELSE o1[x]]
  OBVIOUS
<1>3. PICK E1, k : E1 = E \cup T /\ k = NewEnd(m1)
  OBVIOUS
<1>4. Whole(m1, E1, o1) /\ Cardinality(m1.live) < Cardinality(Nodes)
  BY <1>1, <1>3
<1>5. /\ Whole(k, E1 \cup {t}, o2) /\ k.live = m1.live \cup {t} /\ t \in Nodes \ m1.live
      /\ Cardinality(k.live) = Cardinality(m1.live) + 1
  BY <1>2, <1>3, <1>4, NewEndWhole
<1>6. t \notin T /\ t \notin m.live /\ E1 \cup {t} = E \cup (T \cup {t})
  BY <1>1, <1>3, <1>5
<1>7. k.live = m.live \cup (T \cup {t}) /\ (T \cup {t}) \cap m.live = {}
  BY <1>1, <1>5, <1>6
<1>8. \A x \in k.live : o2[x] = IF x \in T \cup {t} THEN x ELSE o[x]
  BY <1>1, <1>2, <1>5
<1>9. Cardinality(k.live) = Cardinality(m.live) + (n + 1) + 1
  BY <1>1, <1>5
<1>10. Apart(m, E, o, T \cup {t}, k, o2, n + 1)
  BY <1>5, <1>6, <1>7, <1>8, <1>9 DEF Apart
<1> QED
  BY <1>3, <1>5, <1>6, <1>10

AnotherEnd(r) == [r EXCEPT !.m = NewEnd(r.m), !.counter = Append(@, Fresh(r.m))]

LEMMA EquippedTurn ==
  ASSUME NEW m, NEW E, NEW o, NEW e, NEW s, NEW n \in Nat, NEW T, NEW o1,
         Equipped(m, E, o, e, s, n, T, o1),
         Cardinality(m.live) \in Nat, Cardinality(m.live) + n + 1 < Cardinality(Nodes),
         NEW d, d = AnotherEnd(s)
  PROVE  \E T2, o2 : Equipped(m, E, o, e, d, n + 1, T2, o2)
<1>1. PICK w, c, cs : w = s.m /\ c = s.carry /\ cs = s.counter
  OBVIOUS
<1>2. /\ s \in SortStates /\ s.list = e /\ s.fill = 0
      /\ Distinct(c, cs, n, T) /\ Apart(m, E, o, T, w, o1, n)
  BY <1>1 DEF Equipped
<1>3. PICK t, k, ds : t = Fresh(w) /\ k = NewEnd(w) /\ ds = Append(cs, t)
  OBVIOUS
<1>4. t \in Nodes /\ t \notin T /\ \E o2 : Apart(m, E, o, T \cup {t}, k, o2, n + 1)
  BY <1>2, <1>3, ApartMore
<1>5. PICK o2 : Apart(m, E, o, T \cup {t}, k, o2, n + 1)
  BY <1>4
<1>6. Distinct(c, ds, n + 1, T \cup {t})
  BY <1>2, <1>3, <1>4, DistinctMore
<1>7. d = [s EXCEPT !.m = k, !.counter = ds]
  BY <1>1, <1>2, <1>3 DEF AnotherEnd, SortStates
<1>8. k \in Memories
  BY <1>5 DEF Apart, Whole
<1>9. ds \in Seq(Nodes)
  BY <1>6 DEF Distinct
<1>10. /\ d \in SortStates /\ d.m = k /\ d.list = e /\ d.carry = c /\ d.counter = ds
       /\ d.fill = 0
  BY <1>1, <1>2, <1>7, <1>8, <1>9 DEF SortStates
<1>11. Equipped(m, E, o, e, d, n + 1, T \cup {t}, o2)
  BY <1>5, <1>6, <1>10 DEF Equipped
<1> QED
  BY <1>11

LEMMA NewEndsEquipped ==
  ASSUME NEW m, NEW E, NEW o, Whole(m, E, o), NEW e \in E,
         Cardinality(m.live) + Counters + 1 <= Cardinality(Nodes),
         NEW s, s = NewEnds([m |-> NewEnd(m), list |-> e, carry |-> Fresh(m),
                             counter |-> <<>>, fill |-> 0, i |-> 1])
  PROVE  \E T, o1 : Equipped(m, E, o, e, s, Counters, T, o1)
<1>1. PICK turn : turn = [r \in SortStates |-> AnotherEnd(r)]
  OBVIOUS
<1>2. PICK t, k, z : t = Fresh(m) /\ k = NewEnd(m) /\ z = Counters
  OBVIOUS
<1>3. PICK s0 : s0 = [m |-> k, list |-> e, carry |-> t, counter |-> <<>>, fill |-> 0, i |-> 1]
  OBVIOUS
<1>4. s = Loop(turn, s0, z)
  BY <1>1, <1>2, <1>3 DEF NewEnds, AnotherEnd
<1>5. z \in Nat /\ Cardinality(m.live) \in Nat /\ Cardinality(Nodes) \in Nat
  BY <1>2, ListAssumption, WholeFacts, FS_CardinalityType
<1>6. Cardinality(m.live) < Cardinality(Nodes)
  BY <1>2, <1>5
<1>7. PICK o1 : o1 = [x \in m.live \cup {t} |-> IF x = t THEN t ELSE o[x]]
  OBVIOUS
<1>8. /\ Whole(k, E \cup {t}, o1) /\ k.live = m.live \cup {t} /\ t \in Nodes \ m.live
      /\ Cardinality(k.live) = Cardinality(m.live) + 1
  <2>1. t = Fresh(m) /\ k = NewEnd(m)
    BY <1>2
  <2>2. /\ Whole(NewEnd(m), E \cup {t}, o1)
        /\ NewEnd(m).live = m.live \cup {t} /\ t \in Nodes \ m.live
        /\ Cardinality(NewEnd(m).live) = Cardinality(m.live) + 1
    BY ONLY Whole(m, E, o), <1>6, <1>7, <2>1, NewEndWhole
  <2> QED
    BY <2>1, <2>2
<1>9. Apart(m, E, o, {t}, k, o1, 0)
  BY <1>5, <1>7, <1>8 DEF Apart
<1>10. Distinct(t, <<>>, 0, {t})
  BY <1>8 DEF Distinct
<1>11. s0 \in SortStates
  <2>1. k \in Memories /\ E \subseteq Nodes
    <3>1. k \in Memories
      BY <1>8 DEF Whole
    <3>2. E \subseteq Nodes
      BY WholeFacts
    <3> QED
      BY <3>1, <3>2
  <2> QED
    BY <1>3, <1>8, <2>1 DEF SortStates
<1>12. Equipped(m, E, o, e, s0, 0, {t}, o1)
  BY <1>3, <1>9, <1>10, <1>11 DEF Equipped
<1>13. PICK J : J = [n \in 0..z |->
                       {q \in SortStates : \E T, o2 : Equipped(m, E, o, e, q, n, T, o2)}]
  OBVIOUS
<1>14. s0 \in J[0]
  <2>1. 0 \in 0..z
    BY <1>5
  <2> QED
    BY <1>11, <1>12, <1>13, <2>1
<1>15. ASSUME NEW n \in 0..(z - 1), NEW q \in J[n] PROVE turn[q] \in J[n + 1]
  <2>1. n \in Nat /\ n \in 0..z /\ n + 1 \in 0..z /\ Cardinality(m.live) + n + 1 < Cardinality(Nodes)
    BY <1>2, <1>5
  <2>2. PICK T, o2 : q \in SortStates /\ Equipped(m, E, o, e, q, n, T, o2)
    BY <1>13, <2>1
  <2>3. PICK d : d = AnotherEnd(q)
    OBVIOUS
  <2>4. \E T3, o3 : Equipped(m, E, o, e, d, n + 1, T3, o3)
    BY <1>5, <2>1, <2>2, <2>3, EquippedTurn
  <2>5. d \in SortStates
    BY <2>4 DEF Equipped
  <2>6. turn[q] = d
    BY <1>1, <2>2, <2>3
  <2> QED
    BY <1>13, <2>1, <2>4, <2>5, <2>6
<1>16. s \in J[z]
  BY <1>4, <1>5, <1>14, <1>15, LoopCounts
<1>17. z \in 0..z
  BY <1>5
<1> QED
  BY <1>2, <1>13, <1>16, <1>17

FrameOf(m, E, o, e, T, F) ==
  /\ F.E = E \cup T /\ F.L = m.live \cup T /\ F.T = T /\ F.e = e
  /\ F.V = Values0(m.live, o, e) /\ e \in E /\ T \cap m.live = {} /\ T \subseteq Nodes
  /\ \A x \in F.L : F.o[x] = IF x \in T THEN x ELSE o[x]
  /\ Cardinality(F.L) = Cardinality(m.live) + Counters + 1

LEMMA EquippedFrame ==
  ASSUME NEW m, NEW E, NEW o, Whole(m, E, o), NEW e \in E,
         Cardinality(Values0(m.live, o, e)) < Doubled[Counters],
         NEW s, NEW T, NEW o1, Equipped(m, E, o, e, s, Counters, T, o1),
         NEW F, F = [E |-> E \cup T, L |-> m.live \cup T, V |-> Values0(m.live, o, e),
                     o |-> o1, T |-> T, e |-> e]
  PROVE  Framed(F) /\ FrameOf(m, E, o, e, T, F) /\ Distributing(F, s, o1, F.V)
<1>1. PICK V, L, E1 : V = Values0(m.live, o, e) /\ L = m.live \cup T /\ E1 = E \cup T
  OBVIOUS
<1>2. F.E = E1 /\ F.L = L /\ F.V = V /\ F.o = o1 /\ F.T = T /\ F.e = e
  BY <1>1
<1>3. /\ s \in SortStates /\ s.list = e /\ s.fill = 0
      /\ Distinct(s.carry, s.counter, Counters, T) /\ Apart(m, E, o, T, s.m, o1, Counters)
  BY DEF Equipped
<1>4. /\ Whole(s.m, E1, o1) /\ s.m.live = L /\ T \cap m.live = {}
      /\ \A x \in L : o1[x] = IF x \in T THEN x ELSE o[x]
      /\ Cardinality(L) = Cardinality(m.live) + Counters + 1
  BY <1>1, <1>3 DEF Apart
<1>5. E \in SUBSET m.live /\ (\A f \in E : o[f] = f) /\ IsFiniteSet(m.live)
      /\ \A x \in m.live : o[x] \in E
  BY WholeFacts
<1>6. V = {x \in m.live : o[x] = e /\ x # e}
  BY <1>1 DEF Values0, RingOf
<1>7. V \subseteq L \ E1
  BY <1>1, <1>4, <1>5, <1>6
<1>8. IsFiniteSet(V)
  BY <1>5, <1>6, FS_Subset
<1>9. \A x \in L \ V : x \notin E1 => o1[x] \notin T \cup {e}
  BY <1>1, <1>4, <1>5, <1>6
<1>10. Framed(F)
  BY <1>1, <1>2, <1>4, <1>5, <1>7, <1>8, <1>9 DEF Framed, Ends
<1>11. Spread(F, s.carry, s.counter)
  BY <1>2, <1>3 DEF Spread, Distinct
<1>12. \A x \in V : o1[x] = e
  BY <1>1, <1>4, <1>6
<1>13. Holds(F, s.m, o1)
  BY <1>2, <1>4, <1>7, <1>12 DEF Holds, Ends
<1>14. Held(F, o1, F.e) = F.V /\ \A t \in T : Held(F, o1, t) = {}
  BY <1>2, <1>4, <1>5, <1>12 DEF Held
<1>15. Filled(F, o1, s.counter, s.fill) /\ Held(F, o1, s.carry) = {}
  BY <1>3, <1>14 DEF Filled, Distinct
<1>16. s.fill \in 0..Counters
  BY <1>3, ListAssumption
<1>17. Sorting(F, s, o1, F.V)
  BY <1>2, <1>3, <1>11, <1>13, <1>14, <1>15, <1>16 DEF Sorting
<1>18. T \subseteq Nodes
  <2>1. L \subseteq Nodes
    BY <1>4, WholeFacts
  <2> QED
    BY <1>1, <2>1
<1>19. FrameOf(m, E, o, e, T, F)
  BY <1>1, <1>2, <1>4, <1>18 DEF FrameOf
<1> QED
  BY <1>10, <1>15, <1>17, <1>19 DEF Distributing

(* The list that is left has one of the new end nodes; the old one and the *)
(* other new ones are empty.                                               *)
Sorted(m, E, o, e, r, T, o1) ==
  /\ r \in SortStates /\ T \subseteq Nodes /\ T \cap m.live = {} /\ r.list \in T
  /\ Distinct(r.carry, r.counter, Counters, (T \cup {e}) \ {r.list})
  /\ Whole(r.m, E \cup T, o1) /\ r.m.live = m.live \cup T
  /\ Cardinality(r.m.live) = Cardinality(m.live) + Counters + 1
  /\ Confined(m, o, r.m, o1, T \cup {e})
  /\ \A t \in (T \cup {e}) \ {r.list} : Values0(r.m.live, o1, t) = {}

LEMMA CollectedSorted ==
  ASSUME NEW m, NEW E, NEW o, Whole(m, E, o), NEW e, NEW T,
         NEW F, Framed(F), FrameOf(m, E, o, e, T, F),
         NEW s, NEW o1, Collected(F, s, o1),
         NEW r, r = [s EXCEPT !.list = s.counter[s.fill], !.counter[s.fill] = s.list]
  PROVE  Sorted(m, E, o, e, r, T, o1)
<1>1. PICK w, c, cs, f : w = s.m /\ c = s.carry /\ cs = s.counter /\ f = s.fill
  OBVIOUS
<1>2. /\ s \in SortStates /\ s.list = e /\ f \in 1..Counters
      /\ Spread(F, c, cs) /\ Holds(F, w, o1)
      /\ Held(F, o1, e) = {} /\ Held(F, o1, c) = {}
      /\ \A j \in 1..Counters : j # f => Held(F, o1, cs[j]) = {}
  BY <1>1 DEF Collected, FrameOf
<1>3. /\ F.E = E \cup T /\ F.L = m.live \cup T /\ F.T = T /\ F.e = e
      /\ F.V = Values0(m.live, o, e) /\ e \in E /\ T \cap m.live = {} /\ T \subseteq Nodes
      /\ \A x \in F.L : F.o[x] = IF x \in T THEN x ELSE o[x]
      /\ Cardinality(F.L) = Cardinality(m.live) + Counters + 1
  BY DEF FrameOf
<1>4. PICK a, ds, X : a = cs[f] /\ ds = [cs EXCEPT ![f] = e] /\ X = (T \cup {e}) \ {a}
  OBVIOUS
<1>5. /\ cs \in Seq(Nodes) /\ Len(cs) = Counters /\ c \in Nodes /\ c \in T
      /\ \A i \in 1..Counters : cs[i] \in T /\ cs[i] # c
      /\ \A i, j \in 1..Counters : cs[i] = cs[j] => i = j
      /\ \A t \in T : t = c \/ \E i \in 1..Counters : t = cs[i]
  BY <1>2, <1>3 DEF Spread
<1>6. e \notin T /\ e \in Nodes /\ a \in T /\ a # e
  <2>1. e \in m.live /\ m.live \subseteq Nodes
    BY <1>3, WholeFacts
  <2> QED
    BY <1>2, <1>3, <1>4, <1>5, <2>1
<1>7. DOMAIN cs = 1..Counters
  BY <1>5
<1>8. ds \in Seq(Nodes) /\ Len(ds) = Counters
  <2>1. /\ cs \in Seq(Nodes) /\ Len(cs) = Counters /\ DOMAIN cs = 1..Counters
        /\ e \in Nodes /\ f \in 1..Counters /\ ds = [cs EXCEPT ![f] = e]
    BY <1>2, <1>4, <1>5, <1>6, <1>7
  <2> QED
    BY ONLY <2>1
<1>9. ds[f] = e /\ \A j \in 1..Counters : j # f => ds[j] = cs[j]
  BY <1>2, <1>4, <1>7
<1>10. Distinct(c, ds, Counters, X)
  <2>1. c \in X
    BY <1>2, <1>4, <1>5
  <2>2. \A i \in 1..Counters : ds[i] \in X /\ ds[i] # c
    BY <1>2, <1>4, <1>5, <1>6, <1>9
  <2>3. \A i, j \in 1..Counters : ds[i] = ds[j] => i = j
    BY <1>5, <1>6, <1>9
  <2>4. ASSUME NEW t \in X PROVE t = c \/ \E i \in 1..Counters : t = ds[i]
    <3>1. CASE t = e
      BY <1>2, <1>9, <3>1
    <3>2. CASE t # e
      <4>1. t \in T /\ t # cs[f]
        BY <1>4, <2>4, <3>2
      <4>2. CASE t = c
        BY <4>2
      <4>3. CASE t # c
        <5>1. PICK i \in 1..Counters : t = cs[i]
          BY <1>5, <4>1, <4>3
        <5>2. i # f
          BY <4>1, <5>1
        <5> QED
          BY <1>9, <5>1, <5>2
      <4> QED
        BY <4>2, <4>3
    <3> QED
      BY <3>1, <3>2
  <2> QED
    BY <1>5, <1>8, <2>1, <2>2, <2>3, <2>4 DEF Distinct
<1>11. r = [s EXCEPT !.list = a, !.counter = ds]
  BY <1>1, <1>2, <1>4 DEF SortStates
<1>12. r \in SortStates /\ r.m = w /\ r.list = a /\ r.carry = c /\ r.counter = ds
  <2>1. a \in Nodes
    BY <1>3, <1>6
  <2> QED
    BY <1>1, <1>2, <1>8, <1>11, <2>1 DEF SortStates
<1>13. /\ Whole(w, E \cup T, o1) /\ w.live = F.L
       /\ \A x \in F.L : IF x \in F.V THEN o1[x] \in T \cup {e} ELSE o1[x] = F.o[x]
  BY <1>2, <1>3 DEF Holds, Ends
<1>14. Confined(m, o, w, o1, T \cup {e})
  BY <1>3, <1>13 DEF Confined
<1>15. ASSUME NEW t \in X PROVE Values0(w.live, o1, t) = {}
  <2>1. t \in Ends(F)
    BY <1>3, <1>4 DEF Ends
  <2>2. Values0(w.live, o1, t) = Held(F, o1, t)
    BY <1>2, <2>1, HeldFacts
  <2>3. Held(F, o1, t) = {}
    <3>1. CASE t = e \/ t = c
      BY <1>2, <3>1
    <3>2. CASE ~ (t = e \/ t = c)
      <4>1. t \in T /\ t # cs[f]
        BY <1>4, <3>2
      <4>2. PICK i \in 1..Counters : t = cs[i]
        BY <1>5, <3>2, <4>1
      <4>3. i # f
        BY <4>1, <4>2
      <4> QED
        BY <1>2, <4>2, <4>3
    <3> QED
      BY <3>1, <3>2
  <2> QED
    BY <2>2, <2>3
<1> QED
  BY <1>3, <1>4, <1>6, <1>10, <1>12, <1>13, <1>14, <1>15 DEF Sorted

LEMMA SortedStateSorted ==
  ASSUME NEW m, NEW E, NEW o, Whole(m, E, o), NEW e \in E,
         Cardinality(Values0(m.live, o, e)) < Doubled[Counters], Values0(m.live, o, e) # {},
         Cardinality(m.live) + Counters + 1 <= Cardinality(Nodes)
  PROVE  \E T, o1 : Sorted(m, E, o, e, SortedState(m, e), T, o1)
<1>1. PICK s : s = NewEnds([m |-> NewEnd(m), list |-> e, carry |-> Fresh(m),
                            counter |-> <<>>, fill |-> 0, i |-> 1])
  OBVIOUS
<1>2. PICK p, q : p = Distribute(s) /\ q = Collect(p)
  OBVIOUS
<1>3. SortedState(m, e) = [q EXCEPT !.list = q.counter[q.fill], !.counter[q.fill] = q.list]
  BY <1>1, <1>2 DEF SortedState
<1>4. PICK T, ob : Equipped(m, E, o, e, s, Counters, T, ob)
  BY <1>1, NewEndsEquipped
<1>5. PICK F : F = [E |-> E \cup T, L |-> m.live \cup T, V |-> Values0(m.live, o, e),
                    o |-> ob, T |-> T, e |-> e]
  OBVIOUS
<1>6. Framed(F) /\ FrameOf(m, E, o, e, T, F) /\ Distributing(F, s, ob, F.V)
  BY <1>4, <1>5, EquippedFrame
<1>7. F.V # {}
  BY <1>6 DEF FrameOf
<1>8. PICK o1 : Sorting(F, p, o1, {}) /\ Held(F, o1, p.carry) = {} /\ p.fill >= 1
  BY <1>2, <1>6, <1>7, DistributeSorts
<1>9. PICK o2 : Collected(F, q, o2)
  BY <1>2, <1>6, <1>8, CollectSorts
<1>10. PICK r : r = [q EXCEPT !.list = q.counter[q.fill], !.counter[q.fill] = q.list]
  OBVIOUS
<1>11. Sorted(m, E, o, e, r, T, o2)
  BY <1>6, <1>9, <1>10, CollectedSorted
<1> QED
  BY <1>3, <1>10, <1>11
-----------------------------------------------------------------------------
(***************************************************************************)
(* list_sort1 gives the temporary lists back.                              *)
(***************************************************************************)
FirstOf(cs, i) == {cs[j] : j \in 1..i}

Destroying(m, E, o, cs, n, i, o1) ==
  /\ Whole(n, E \ FirstOf(cs, i), o1) /\ Confined(m, o, n, o1, {})
  /\ Cardinality(n.live) + i <= Cardinality(m.live)

LEMMA RemovedConfined ==
  ASSUME NEW m, NEW E, NEW o, Whole(m, E, o), NEW e \in E, NEW n, n = Destroyed(m, e)
  PROVE  \E o1 : /\ Whole(n, E \ {e}, o1) /\ Confined(m, o, n, o1, {})
                 /\ Cardinality(n.live) \in Nat /\ Cardinality(n.live) <= Cardinality(m.live) - 1
<1>1. PICK o1 : Removed(m, E, o, e, n, o1)
  BY DestroyedRemoved
<1>2. /\ Whole(n, E \ {e}, o1)
      /\ n.live = m.live \ RingOf(m.live, o, e) /\ Cardinality(n.live) <= Cardinality(m.live) - 1
      /\ o1 = [x \in n.live |-> o[x]]
  BY <1>1 DEF Removed
<1>3. Confined(m, o, n, o1, {})
  BY <1>2 DEF Confined
<1>4. Cardinality(n.live) \in Nat
  BY <1>2, WholeFacts
<1> QED
  BY <1>2, <1>3, <1>4

Listed(E, cs, z) ==
  (\A j, k \in 1..z : cs[j] = cs[k] => j = k) /\ \A j \in 1..z : cs[j] \in E

LEMMA DestroyingTurn ==
  ASSUME NEW m, NEW E, NEW o, NEW cs, NEW z, NEW i \in Nat, i < z, z \in Nat,
         Listed(E, cs, z), Cardinality(m.live) \in Nat,
         NEW n, NEW o1, Destroying(m, E, o, cs, n, i, o1)
  PROVE  \E o2 : Destroying(m, E, o, cs, Destroyed(n, cs[i + 1]), i + 1, o2)
<1>1. /\ Whole(n, E \ FirstOf(cs, i), o1) /\ Confined(m, o, n, o1, {})
      /\ Cardinality(n.live) + i <= Cardinality(m.live)
  BY DEF Destroying
<1>2. PICK D, x, w : D = E \ FirstOf(cs, i) /\ x = cs[i + 1] /\ w = Destroyed(n, x)
  OBVIOUS
<1>3. i + 1 \in 1..z /\ \A j \in 1..i : j \in 1..z /\ j # i + 1
  OBVIOUS
<1>4. x \in D
  BY <1>2, <1>3 DEF FirstOf, Listed
<1>5. Whole(n, D, o1)
  BY <1>1, <1>2
<1>6. PICK o2 : /\ Whole(w, D \ {x}, o2) /\ Confined(n, o1, w, o2, {})
                /\ Cardinality(w.live) \in Nat /\ Cardinality(w.live) <= Cardinality(n.live) - 1
  BY <1>2, <1>4, <1>5, RemovedConfined
<1>7. D \ {x} = E \ FirstOf(cs, i + 1)
  <2>1. ASSUME NEW y PROVE y \in FirstOf(cs, i + 1) <=> y \in FirstOf(cs, i) \/ y = x
    <3>1. \A j : j \in 1..(i + 1) <=> j \in 1..i \/ j = i + 1
      OBVIOUS
    <3> QED
      BY <1>2, <3>1 DEF FirstOf
  <2> QED
    BY <1>2, <2>1
<1>8. Confined(m, o, w, o2, {})
  BY <1>1, <1>6, ConfinedThen
<1>9. Cardinality(n.live) \in Nat
  BY <1>5, WholeFacts
<1>10. Cardinality(w.live) + (i + 1) <= Cardinality(m.live)
  BY <1>1, <1>6, <1>9
<1> QED
  BY <1>2, <1>6, <1>7, <1>8, <1>10 DEF Destroying

Dropped(r) == [r EXCEPT !.m = Destroyed(r.m, r.counter[r.i]), !.i = @ + 1]

(* No temporary list is left.                                              *)
LEMMA AllDestroyed ==
  ASSUME NEW m, NEW E, NEW o, Whole(m, E, o), NEW r \in SortStates, r.m = m, NEW T, T \subseteq E,
         Distinct(r.carry, r.counter, Counters, T), NEW n, n = DestroyAll(r)
  PROVE  \E o1 : /\ Whole(n, E \ T, o1) /\ Confined(m, o, n, o1, {})
                 /\ Cardinality(n.live) + Counters + 1 <= Cardinality(m.live)
<1>1. PICK turn : turn = [q \in SortStates |-> Dropped(q)]
  OBVIOUS
<1>2. PICK s0, z, cs, c : s0 = [r EXCEPT !.i = 1] /\ z = Counters /\ cs = r.counter /\ c = r.carry
  OBVIOUS
<1>3. PICK d : d = Loop(turn, s0, z)
  OBVIOUS
<1>4. n = Destroyed(d.m, c)
  BY <1>1, <1>2, <1>3 DEF DestroyAll, Dropped
<1>5. z \in Nat /\ Cardinality(m.live) \in Nat
  BY <1>2, ListAssumption, WholeFacts
<1>6. /\ cs \in Seq(Nodes) /\ Len(cs) = z /\ c \in Nodes /\ c \in T
      /\ \A i \in 1..z : cs[i] \in T /\ cs[i] # c
      /\ \A i, j \in 1..z : cs[i] = cs[j] => i = j
      /\ \A t \in T : t = c \/ \E i \in 1..z : t = cs[i]
  BY <1>2 DEF Distinct
<1>7. PICK J : J = [i \in 0..z |->
                      {q \in SortStates : /\ q.i = i + 1 /\ q.counter = cs
                                          /\ \E o1 : Destroying(m, E, o, cs, q.m, i, o1)}]
  OBVIOUS
<1>8. s0 \in J[0]
  <2>1. s0 \in SortStates /\ s0.m = m /\ s0.counter = cs /\ s0.i = 1
    BY <1>2 DEF SortStates
  <2>2. E \ FirstOf(cs, 0) = E
    <3>1. \A j \in 1..0 : FALSE
      OBVIOUS
    <3> QED
      BY <3>1 DEF FirstOf
  <2>3. Confined(m, o, m, o, {})
    BY DEF Confined
  <2>4. Destroying(m, E, o, cs, m, 0, o)
    BY <1>5, <2>2, <2>3 DEF Destroying
  <2>5. 0 \in 0..z /\ 1 = 0 + 1
    BY <1>5
  <2> QED
    BY <1>7, <2>1, <2>4, <2>5
<1>9. ASSUME NEW i \in 0..(z - 1), NEW q \in J[i] PROVE turn[q] \in J[i + 1]
  <2>1. i \in Nat /\ i < z /\ i \in 0..z /\ i + 1 \in 0..z /\ i + 1 \in Nat
    BY <1>5
  <2>2. PICK o1 : /\ q \in SortStates /\ q.i = i + 1 /\ q.counter = cs
                  /\ Destroying(m, E, o, cs, q.m, i, o1)
    BY <1>7, <2>1
  <2>3. PICK w, k : k = q.m /\ w = Destroyed(k, cs[i + 1])
    OBVIOUS
  <2>4. PICK o2 : Destroying(m, E, o, cs, w, i + 1, o2)
    <3>1. Destroying(m, E, o, cs, k, i, o1)
      BY <2>2, <2>3
    <3>2. Listed(E, cs, z)
      BY <1>6 DEF Listed
    <3> QED
      BY <1>5, <2>1, <2>3, <3>1, <3>2, DestroyingTurn
  <2>5. w \in Memories
    BY <2>4 DEF Destroying, Whole
  <2>6. turn[q] = [q EXCEPT !.m = w, !.i = (i + 1) + 1]
    BY <1>1, <2>2, <2>3 DEF Dropped, SortStates
  <2>7. /\ turn[q] \in SortStates /\ turn[q].m = w /\ turn[q].counter = cs
        /\ turn[q].i = (i + 1) + 1
    <3>1. (i + 1) + 1 \in Nat
      BY <2>1
    <3> QED
      BY <2>2, <2>5, <2>6, <3>1 DEF SortStates
  <2> QED
    BY <1>7, <2>1, <2>4, <2>7
<1>10. d \in J[z]
  BY <1>3, <1>5, <1>8, <1>9, LoopCounts
<1>11. PICK o1 : Destroying(m, E, o, cs, d.m, z, o1)
  <2>1. z \in 0..z
    BY <1>5
  <2> QED
    BY <1>7, <1>10, <2>1
<1>12. PICK k, D : k = d.m /\ D = E \ FirstOf(cs, z)
  OBVIOUS
<1>13. Whole(k, D, o1) /\ Confined(m, o, k, o1, {}) /\ Cardinality(k.live) + z <= Cardinality(m.live)
  BY <1>11, <1>12 DEF Destroying
<1>14. c \in D
  BY <1>6, <1>12 DEF FirstOf
<1>15. PICK o2 : /\ Whole(n, D \ {c}, o2) /\ Confined(k, o1, n, o2, {})
                 /\ Cardinality(n.live) \in Nat /\ Cardinality(n.live) <= Cardinality(k.live) - 1
  BY <1>4, <1>12, <1>13, <1>14, RemovedConfined
<1>16. D \ {c} = E \ T
  BY <1>6, <1>12 DEF FirstOf
<1>17. Confined(m, o, n, o2, {})
  BY <1>13, <1>15, ConfinedThen
<1>18. Cardinality(k.live) \in Nat
  BY <1>13, WholeFacts
<1>19. Cardinality(n.live) + z + 1 <= Cardinality(m.live)
  BY <1>5, <1>13, <1>15, <1>18
<1> QED
  BY <1>2, <1>15, <1>16, <1>17, <1>19
-----------------------------------------------------------------------------
(***************************************************************************)
(* The invariant.  The end nodes are those of the lists the client keeps   *)
(* and those list_sort left behind, whose rings are empty.                 *)
(***************************************************************************)
KeptLists(nd) == {l \in Lists : nd[l] # Nowhere}

KeptEnds(nd) == {nd[l] : l \in KeptLists(nd)}

(* The nodes there may be: values, and end nodes.                          *)
Bound(nd, sc, lk) == sc.room + Cardinality(KeptLists(nd)) + Cardinality(lk)

(* Every list has an end node of its own.                                  *)
Separate(nd, lk) ==
  /\ \A l, k \in KeptLists(nd) : nd[l] = nd[k] => l = k
  /\ \A l \in KeptLists(nd) : nd[l] \notin lk

Fits(m, nd, sc, lk, o) ==
  /\ nd \in [Lists -> Pointers] /\ KeptLists(nd) \subseteq sc.lists
  /\ Separate(nd, lk)
  /\ lk \subseteq Nodes /\ Cardinality(lk) <= MaxLeaks
  /\ Cardinality(m.live) <= Bound(nd, sc, lk)
  /\ Whole(m, KeptEnds(nd) \cup lk, o)
  /\ \A e \in lk : Values0(m.live, o, e) = {}

ListInv == scope \in Scopes /\ \E o : Fits(mem, node, scope, leaked, o)

Fitting(m, nd, sc, lk, o, E, n) ==
  /\ E = KeptEnds(nd) \cup lk /\ n = Bound(nd, sc, lk) /\ sc \in Scopes
  /\ Whole(m, E, o) /\ m.live \in SUBSET Nodes
  /\ n \in Nat /\ n + Counters + 1 <= Cardinality(Nodes) /\ Cardinality(Nodes) \in Nat
  /\ Cardinality(m.live) \in Nat /\ Cardinality(m.live) <= n
  /\ sc.room \in Nat /\ sc.room < Doubled[Counters]
  /\ Cardinality(KeptLists(nd)) \in Nat /\ Cardinality(lk) \in Nat
  /\ IsFiniteSet(KeptLists(nd)) /\ IsFiniteSet(lk)
  /\ Cardinality(KeptLists(nd)) <= Cardinality(sc.lists) /\ Cardinality(sc.lists) \in Nat

LEMMA FitsFitting ==
  ASSUME NEW m, NEW nd, NEW sc \in Scopes, NEW lk, NEW o, Fits(m, nd, sc, lk, o)
  PROVE  \E E, n : Fitting(m, nd, sc, lk, o, E, n)
<1>1. PICK E, n : E = KeptEnds(nd) \cup lk /\ n = Bound(nd, sc, lk)
  OBVIOUS
<1>2. /\ KeptLists(nd) \subseteq sc.lists /\ lk \subseteq Nodes /\ Cardinality(lk) <= MaxLeaks
      /\ Cardinality(m.live) <= n /\ Whole(m, E, o)
  BY <1>1 DEF Fits
<1>3. /\ IsFiniteSet(sc.lists) /\ sc.room \in Nat /\ sc.room < Doubled[Counters]
      /\ Cardinality(Nodes) >= sc.room + Cardinality(sc.lists) + MaxLeaks + Counters + 1
      /\ IsFiniteSet(Nodes) /\ MaxLeaks \in Nat /\ Counters \in Nat
  BY ListAssumption
<1>4. Cardinality(sc.lists) \in Nat /\ Cardinality(Nodes) \in Nat
  BY <1>3, FS_CardinalityType
<1>5. /\ IsFiniteSet(KeptLists(nd)) /\ Cardinality(KeptLists(nd)) \in Nat
      /\ Cardinality(KeptLists(nd)) <= Cardinality(sc.lists)
  BY <1>2, <1>3, FS_Subset, FS_CardinalityType
<1>6. IsFiniteSet(lk) /\ Cardinality(lk) \in Nat
  BY <1>2, FiniteNodes
<1>7. Cardinality(m.live) \in Nat /\ m.live \in SUBSET Nodes
  BY <1>2, WholeFacts
<1>8. n \in Nat /\ n + Counters + 1 <= Cardinality(Nodes)
  BY <1>1, <1>2, <1>3, <1>4, <1>5, <1>6 DEF Bound
<1> QED
  BY <1>1, <1>2, <1>3, <1>4, <1>5, <1>6, <1>7, <1>8 DEF Fitting

(* What an operator that returns a memory of the same lists must do.       *)
LEMMA BecomesFits ==
  ASSUME NEW m, NEW nd, NEW sc, NEW lk, NEW o, Fits(m, nd, sc, lk, o),
         NEW E, NEW n, Fitting(m, nd, sc, lk, o, E, n),
         NEW w, NEW A, NEW k, Becomes(m, E, o, w, A, k), A \subseteq KeptEnds(nd), k \in Int, k <= n
  PROVE  \E o1 : Fits(w, nd, sc, lk, o1)
<1>1. PICK o1 : Whole(w, E, o1) /\ Confined(m, o, w, o1, A) /\ Cardinality(w.live) <= k
  BY DEF Becomes
<1>2. /\ nd \in [Lists -> Pointers] /\ KeptLists(nd) \subseteq sc.lists
      /\ Separate(nd, lk)
      /\ lk \subseteq Nodes /\ Cardinality(lk) <= MaxLeaks
      /\ \A e \in lk : Values0(m.live, o, e) = {}
  BY DEF Fits
<1>3. E = KeptEnds(nd) \cup lk /\ n = Bound(nd, sc, lk) /\ n \in Nat
  BY DEF Fitting
<1>4. Cardinality(w.live) \in Nat
  BY <1>1, WholeFacts
<1>5. Cardinality(w.live) <= n
  BY <1>1, <1>3, <1>4
<1>6. ASSUME NEW e \in lk, NEW x \in Values0(w.live, o1, e) PROVE FALSE
  <2>1. x \in w.live /\ o1[x] = e /\ x # e
    BY <1>6 DEF Values0, RingOf
  <2>2. e \notin KeptEnds(nd)
    BY <1>2 DEF Separate, KeptEnds
  <2>3. x \in m.live /\ o[x] = e
    BY <1>1, <2>1, <2>2 DEF Confined
  <2>4. x \in Values0(m.live, o, e)
    BY <2>1, <2>3 DEF Values0, RingOf
  <2> QED
    BY <1>2, <2>4
<1>7. \A e \in lk : Values0(w.live, o1, e) = {}
  BY <1>6
<1> QED
  BY <1>1, <1>2, <1>3, <1>5, <1>7 DEF Fits

(***************************************************************************)
(* Positions.                                                              *)
(***************************************************************************)
Position(m, E, o, e, r, i) ==
  /\ Nth(r, i) \in m.live /\ o[Nth(r, i)] = e
  /\ i < Len(r) => Nth(r, i) \in m.live \ E

LEMMA PositionIs ==
  ASSUME NEW m, NEW E, NEW o, Whole(m, E, o), NEW e \in E, NEW r, r = Ring(m, e),
         NEW i \in 1..Len(r)
  PROVE  Position(m, E, o, e, r, i)
<1>1. PICK nx, S : nx = m.next /\ S = RingOf(m.live, o, e)
  OBVIOUS
<1>2. Circle(nx, S, e, r)
  BY <1>1, RingIsCircle
<1>3. /\ r \in Seq(Nodes) /\ Len(r) >= 1 /\ r[1] = e /\ \A j \in 1..Len(r) : r[j] \in S
      /\ \A j, k \in 1..Len(r) : r[j] = r[k] => j = k
  BY <1>2 DEF Circle, Trail
<1>4. Len(r) \in Nat
  BY <1>3
<1>5. 1 \in 1..Len(r) /\ (i # Len(r) => i + 1 \in 1..Len(r) /\ i + 1 # 1)
  BY <1>3, <1>4
<1>6. Nth(r, i) \in S
  BY <1>3, <1>5 DEF Nth
<1>7. Nth(r, i) \in m.live /\ o[Nth(r, i)] = e
  BY <1>1, <1>6 DEF RingOf
<1>8. i < Len(r) => Nth(r, i) # e
  BY <1>3, <1>4, <1>5 DEF Nth
<1>9. \A x \in E : o[x] = x
  BY WholeFacts
<1> QED
  BY <1>7, <1>8, <1>9 DEF Position

LEMMA RingCounted ==
  ASSUME NEW m, NEW E, NEW o, Whole(m, E, o), NEW e \in E, NEW r, r = Ring(m, e)
  PROVE  /\ Len(r) \in Nat /\ Len(r) >= 1
         /\ Len(r) - 1 = Cardinality(Values0(m.live, o, e))
<1>1. PICK nx, S, L : nx = m.next /\ S = RingOf(m.live, o, e) /\ L = m.live
  OBVIOUS
<1>2. Circle(nx, S, e, r)
  BY <1>1, RingIsCircle
<1>3. r \in Seq(Nodes) /\ Len(r) >= 1 /\ Len(r) = Cardinality(S)
  BY <1>2 DEF Circle, Trail
<1>4. Len(r) \in Nat
  BY <1>3
<1>5. S \in SUBSET Nodes
  BY <1>1, WholeFacts DEF RingOf
<1>6. IsFiniteSet(S)
  BY <1>5, FiniteNodes
<1>7. e \in S
  BY <1>1, WholeFacts DEF RingOf
<1>8. Cardinality(S \ {e}) = Cardinality(S) - 1
  BY <1>6, <1>7, FS_RemoveElement
<1> QED
  BY <1>1, <1>3, <1>4, <1>8 DEF Values0

(* Two positions of a ring make a range.                                   *)
Ranged(m, E, o, r, i, j, R) ==
  /\ Stretch(m, E, o, R, Nth(r, i), Nth(r, j)) /\ Cardinality(R) = j - i
  /\ \A k \in 1..Len(r) : k < i \/ k >= j => Nth(r, k) \notin R

LEMMA RangeIs ==
  ASSUME NEW m, NEW E, NEW o, Whole(m, E, o), NEW e \in E, NEW r, r = Ring(m, e),
         NEW i \in 1..Len(r), NEW j \in 1..Len(r), i <= j
  PROVE  \E R : Ranged(m, E, o, r, i, j, R)
<1>1. PICK nx, pv, L : nx = m.next /\ pv = m.prev /\ L = m.live
  OBVIOUS
<1>2. Circle(nx, RingOf(L, o, e), e, r)
  BY <1>1, RingIsCircle
<1>3. Rings(nx, pv, L, E, o)
  BY <1>1 DEF Whole
<1>4. PICK R : /\ Span(nx, L, E, o, R, Nth(r, i), Nth(r, j)) /\ Cardinality(R) = j - i
               /\ \A k \in 1..Len(r) : k < i \/ k >= j => Nth(r, k) \notin R
  BY <1>2, <1>3, PositionsSpan
<1> QED
  BY <1>1, <1>4 DEF Ranged, Stretch
-----------------------------------------------------------------------------
(***************************************************************************)
(* The calls.  A list l that is initialised:                               *)
(***************************************************************************)
Ready(o, E, n, l) ==
  /\ Fits(mem, node, scope, leaked, o) /\ Fitting(mem, node, scope, leaked, o, E, n)
  /\ l \in KeptLists(node)

LEMMA InvReady ==
  ASSUME ListInv
  PROVE  \E o, E, n : \A l \in Initialised : Ready(o, E, n, l)
<1>1. PICK o : Fits(mem, node, scope, leaked, o)
  BY DEF ListInv
<1>2. PICK E, n : Fitting(mem, node, scope, leaked, o, E, n)
  BY <1>1, FitsFitting DEF ListInv
<1> QED
  BY <1>1, <1>2 DEF Ready, Initialised, KeptLists

LEMMA ReadyFacts ==
  ASSUME NEW o, NEW E, NEW n, NEW l, Ready(o, E, n, l), NEW e, e = node[l]
  PROVE  /\ Whole(mem, E, o) /\ e \in E /\ {e} \subseteq KeptEnds(node)
         /\ e \in mem.live /\ o[e] = e /\ e \in Nodes
         /\ mem.next[e] \in mem.live /\ mem.prev[e] \in mem.live
         /\ o[mem.next[e]] = e /\ o[mem.prev[e]] = e
         /\ n \in Nat /\ n <= Cardinality(Nodes) /\ n + Counters + 1 <= Cardinality(Nodes)
         /\ Cardinality(mem.live) \in Nat /\ Cardinality(mem.live) <= n
<1>1. /\ Whole(mem, E, o) /\ E = KeptEnds(node) \cup leaked /\ l \in KeptLists(node)
      /\ n \in Nat /\ n + Counters + 1 <= Cardinality(Nodes) /\ Cardinality(Nodes) \in Nat
      /\ Cardinality(mem.live) \in Nat /\ Cardinality(mem.live) <= n
  BY DEF Ready, Fitting
<1>2. e \in KeptEnds(node) /\ e \in E
  BY <1>1 DEF KeptEnds
<1>3. e \in mem.live /\ o[e] = e /\ e \in Nodes
  BY <1>1, <1>2, WholeFacts
<1>4. /\ mem.next[e] \in mem.live /\ mem.prev[e] \in mem.live
      /\ o[mem.next[e]] = e /\ o[mem.prev[e]] = e
  <2>1. \A x \in mem.live : /\ mem.next[x] \in mem.live /\ mem.prev[x] \in mem.live
                            /\ o[mem.next[x]] = o[x] /\ o[mem.prev[x]] = o[x]
    BY <1>1, WholeFacts
  <2> QED
    BY <1>3, <2>1
<1>5. n <= Cardinality(Nodes)
  BY <1>1, ListAssumption
<1> QED
  BY <1>1, <1>2, <1>3, <1>4, <1>5

LEMMA ReadySizes ==
  ASSUME NEW o, NEW E, NEW n, NEW l, Ready(o, E, n, l), NEW e, e = node[l], NEW r, r = Ring(mem, e)
  PROVE  /\ Room = n - Cardinality(mem.live) /\ Room \in Nat
         /\ Length(l) = Cardinality(Values0(mem.live, o, e)) /\ Length(l) \in Nat
         /\ Length(l) = Len(r) - 1 /\ Len(r) \in Nat /\ Positions(l) = 1..Len(r)
         /\ \A i : At(l, i) = Nth(r, i)
         /\ scope.values \subseteq Values
<1>1. /\ n = scope.room + Cardinality(KeptLists(node)) + Cardinality(leaked)
      /\ n \in Nat /\ Cardinality(mem.live) \in Nat /\ Cardinality(mem.live) <= n
      /\ scope.room \in Nat /\ Cardinality(KeptLists(node)) \in Nat /\ Cardinality(leaked) \in Nat
  BY DEF Ready, Fitting, Bound
<1>2. Room = n - Cardinality(mem.live)
  <2>1. Room = scope.room - (Cardinality(mem.live) - Cardinality(KeptLists(node))
                             - Cardinality(leaked))
    BY DEF Room, Initialised, KeptLists
  <2> QED
    BY <1>1, <2>1
<1>3. Room \in Nat
  BY <1>1, <1>2
<1>4. Whole(mem, E, o) /\ e \in E
  BY ReadyFacts
<1>5. Len(r) \in Nat /\ Len(r) >= 1 /\ Len(r) - 1 = Cardinality(Values0(mem.live, o, e))
  BY <1>4, RingCounted
<1>6. Length(l) = Len(r) - 1
  BY DEF Length, Size
<1>7. Length(l) \in Nat /\ Length(l) + 1 = Len(r)
  BY <1>5, <1>6
<1>8. Positions(l) = 1..Len(r)
  BY <1>7 DEF Positions
<1>9. \A i : At(l, i) = Nth(r, i)
  BY DEF At, Nth
<1>10. scope.values \subseteq Values
  <2>1. scope \in Scopes
    BY DEF Ready, Fitting
  <2> QED
    BY <2>1, ListAssumption
<1> QED
  BY <1>2, <1>3, <1>5, <1>6, <1>7, <1>8, <1>9, <1>10

(* A call that changes nothing but the memory.                             *)
LEMMA MemoryChanges ==
  ASSUME NEW o, NEW E, NEW n, NEW l, Ready(o, E, n, l),
         NEW w, NEW A, NEW k, Becomes(mem, E, o, w, A, k), A \subseteq KeptEnds(node),
         k \in Int, k <= n, mem' = w, UNCHANGED <<node, leaked, scope>>
  PROVE  ListInv'
<1>1. Fits(mem, node, scope, leaked, o) /\ Fitting(mem, node, scope, leaked, o, E, n)
  BY DEF Ready
<1>2. PICK o1 : Fits(w, node, scope, leaked, o1)
  BY <1>1, BecomesFits
<1>3. scope \in Scopes
  BY <1>1 DEF Fitting
<1>4. Fits(mem', node', scope', leaked', o1)
  BY <1>2
<1> QED
  BY <1>3, <1>4 DEF ListInv

(* Two lists the client keeps have different end nodes.                    *)
LEMMA OtherEnd ==
  ASSUME NEW o, NEW E, NEW n, NEW l, NEW k, Ready(o, E, n, l), Ready(o, E, n, k), l # k
  PROVE  node[l] # node[k]
BY DEF Ready, Fits, Separate

LEMMA ClearKeeps ==
  ASSUME ListInv, NEW l \in Initialised, ListClear(l), UNCHANGED scope
  PROVE  ListInv'
<1>1. PICK o, E, n : Ready(o, E, n, l)
  BY InvReady
<1>2. PICK e, w : e = node[l] /\ w = Clear(mem, e)
  OBVIOUS
<1>3. mem' = w /\ UNCHANGED <<node, leaked, scope>>
  BY <1>2 DEF ListClear, Changes
<1>4. Whole(mem, E, o) /\ e \in E /\ Cardinality(mem.live) \in Nat /\ Cardinality(mem.live) <= n
  BY <1>1, <1>2, ReadyFacts
<1>5. Becomes(mem, E, o, w, {}, Cardinality(mem.live))
  BY <1>2, <1>4, ClearBecomes
<1> QED
  BY <1>1, <1>3, <1>4, <1>5, MemoryChanges

LEMMA AssignKeeps ==
  ASSUME ListInv, NEW l \in Initialised, ListAssign(l), UNCHANGED scope
  PROVE  ListInv'
<1>1. PICK o, E, n : Ready(o, E, n, l)
  BY InvReady
<1>2. PICK e : e = node[l]
  OBVIOUS
<1>3. PICK count \in 0..(Room + Length(l)), v \in scope.values :
        Changes("assign", l, <<count, v>>, Assign(mem, node[l], count, v))
  BY DEF ListAssign
<1>4. PICK w : w = Assign(mem, e, count, v)
  OBVIOUS
<1>5. mem' = w /\ UNCHANGED <<node, leaked, scope>>
  BY <1>2, <1>3, <1>4 DEF Changes
<1>6. /\ Whole(mem, E, o) /\ e \in E /\ Cardinality(mem.live) \in Nat
      /\ Cardinality(mem.live) <= n /\ n \in Nat /\ n <= Cardinality(Nodes)
      /\ {e} \subseteq KeptEnds(node)
  BY <1>1, <1>2, ReadyFacts
<1>7. PICK V : V = Cardinality(Values0(mem.live, o, e))
  OBVIOUS
<1>8. /\ Room = n - Cardinality(mem.live) /\ Room \in Nat /\ Length(l) = V /\ V \in Nat
      /\ v \in Values \cup {Null}
  BY <1>1, <1>2, <1>7, ReadySizes
<1>9. count \in Nat /\ Cardinality(mem.live) + count - V <= n
  BY <1>3, <1>6, <1>8
<1>10. Becomes(mem, E, o, w, {e}, n)
  BY <1>4, <1>6, <1>7, <1>8, <1>9, AssignBecomes
<1> QED
  BY <1>1, <1>5, <1>6, <1>10, MemoryChanges

LEMMA InsertKeeps ==
  ASSUME NEW o, NEW E, NEW n, NEW l, Ready(o, E, n, l), Room > 0,
         NEW pos \in mem.live, o[pos] = node[l], NEW v \in scope.values,
         mem' = Insert(mem, pos, v), UNCHANGED <<node, leaked, scope>>
  PROVE  ListInv'
<1>1. PICK e, w : e = node[l] /\ w = Insert(mem, pos, v)
  OBVIOUS
<1>2. /\ Whole(mem, E, o) /\ n \in Nat /\ n <= Cardinality(Nodes)
      /\ Cardinality(mem.live) \in Nat /\ {e} \subseteq KeptEnds(node)
      /\ n + Counters + 1 <= Cardinality(Nodes)
  BY <1>1, ReadyFacts
<1>3. Room = n - Cardinality(mem.live) /\ v \in Values \cup {Null}
  BY ReadySizes
<1>4. Cardinality(mem.live) < n /\ Cardinality(mem.live) + 1 <= n
  BY <1>2, <1>3
<1>5. Cardinality(mem.live) < Cardinality(Nodes)
  <2>1. Cardinality(Nodes) \in Nat
    BY ListAssumption, FS_CardinalityType
  <2> QED
    BY <1>2, <1>4, <2>1
<1>6. PICK o1 : /\ Whole(w, E, o1) /\ Confined(mem, o, w, o1, {o[pos]})
                /\ Cardinality(w.live) = Cardinality(mem.live) + 1
  <2>1. pos \in mem.live /\ v \in Values \cup {Null}
    BY <1>3
  <2>2. \E o1 : /\ Whole(Insert(mem, pos, v), E, o1)
                /\ Confined(mem, o, Insert(mem, pos, v), o1, {o[pos]})
                /\ Cardinality(Insert(mem, pos, v).live) = Cardinality(mem.live) + 1
                /\ \A x \in mem.live : x \in Insert(mem, pos, v).live /\ o1[x] = o[x]
    BY ONLY <1>2, <1>5, <2>1, InsertBecomes
  <2> QED
    BY <1>1, <2>2
<1>7. Cardinality(w.live) <= Cardinality(mem.live) + 1
  BY <1>2, <1>6
<1>8. Becomes(mem, E, o, w, {e}, Cardinality(mem.live) + 1)
  BY <1>1, <1>6, <1>7 DEF Becomes
<1>9. Cardinality(mem.live) + 1 \in Int
  BY <1>2
<1> QED
  BY <1>1, <1>2, <1>4, <1>8, <1>9, MemoryChanges

LEMMA EraseKeeps ==
  ASSUME NEW o, NEW E, NEW n, NEW l, Ready(o, E, n, l),
         NEW x \in mem.live \ E,
         mem' = Erase(mem, x), UNCHANGED <<node, leaked, scope>>
  PROVE  ListInv'
<1>1. PICK w, o1 : w = Erase(mem, x) /\ o1 = [y \in mem.live \ {x} |-> o[y]]
  OBVIOUS
<1>2. /\ Whole(mem, E, o) /\ n \in Nat
      /\ Cardinality(mem.live) \in Nat /\ Cardinality(mem.live) <= n
  BY ReadyFacts
<1>3. /\ Whole(w, E, o1) /\ w.live = mem.live \ {x}
      /\ Cardinality(w.live) = Cardinality(mem.live) - 1
  BY <1>1, <1>2, EraseWhole
<1>4. Confined(mem, o, w, o1, {})
  BY <1>1, <1>3 DEF Confined
<1>5. Cardinality(w.live) <= Cardinality(mem.live)
  BY <1>2, <1>3
<1>6. Becomes(mem, E, o, w, {}, Cardinality(mem.live))
  BY <1>3, <1>4, <1>5 DEF Becomes
<1> QED
  BY <1>1, <1>2, <1>6, MemoryChanges

LEMMA InsertOneKeeps ==
  ASSUME ListInv, NEW l \in Initialised, UNCHANGED scope,
         ListInsert(l) \/ ListPushBack(l) \/ ListPushFront(l)
  PROVE  ListInv'
<1>1. PICK o, E, n : Ready(o, E, n, l)
  BY InvReady
<1>2. PICK e, r : e = node[l] /\ r = Ring(mem, e)
  OBVIOUS
<1>3. /\ Whole(mem, E, o) /\ e \in E /\ e \in mem.live /\ o[e] = e
      /\ mem.next[e] \in mem.live /\ o[mem.next[e]] = e
  BY <1>1, <1>2, ReadyFacts
<1>4. Positions(l) = 1..Len(r) /\ \A i : At(l, i) = Nth(r, i)
  BY <1>1, <1>2, ReadySizes
<1>5. PICK pos, v : /\ pos \in mem.live /\ o[pos] = e /\ v \in scope.values /\ Room > 0
                    /\ mem' = Insert(mem, pos, v) /\ UNCHANGED <<node, leaked>>
  <2>1. CASE ListInsert(l)
    <3>1. PICK i \in Positions(l), v \in scope.values :
            Changes("insert", l, <<i, v>>, Insert(mem, At(l, i), v))
      BY <2>1 DEF ListInsert
    <3>2. mem' = Insert(mem, Nth(r, i), v) /\ UNCHANGED <<node, leaked>> /\ i \in 1..Len(r)
      BY <1>4, <3>1 DEF Changes
    <3>3. Nth(r, i) \in mem.live /\ o[Nth(r, i)] = e
      BY <1>2, <1>3, <3>2, PositionIs DEF Position
    <3> QED
      BY <2>1, <3>2, <3>3 DEF ListInsert
  <2>2. CASE ListPushBack(l)
    BY <1>2, <1>3, <2>2 DEF ListPushBack, Changes
  <2>3. CASE ListPushFront(l)
    BY <1>2, <1>3, <2>3 DEF ListPushFront, Changes, Begin
  <2> QED
    BY <2>1, <2>2, <2>3
<1> QED
  BY <1>1, <1>2, <1>5, InsertKeeps

LEMMA EraseOneKeeps ==
  ASSUME ListInv, NEW l \in Initialised, UNCHANGED scope,
         ListErase(l) \/ ListPopBack(l) \/ ListPopFront(l)
  PROVE  ListInv'
<1>1. PICK o, E, n : Ready(o, E, n, l)
  BY InvReady
<1>2. PICK e, r : e = node[l] /\ r = Ring(mem, e)
  OBVIOUS
<1>3. /\ Whole(mem, E, o) /\ e \in E /\ e \in mem.live /\ o[e] = e
      /\ mem.next[e] \in mem.live /\ o[mem.next[e]] = e
      /\ mem.prev[e] \in mem.live /\ o[mem.prev[e]] = e
  BY <1>1, <1>2, ReadyFacts
<1>4. /\ Len(r) \in Nat /\ Length(l) = Len(r) - 1
      /\ \A i : At(l, i) = Nth(r, i)
  BY <1>1, <1>2, ReadySizes
<1>5. /\ \A x \in E : o[x] = x
      /\ mem.next[mem.prev[e]] = e
  BY <1>3, WholeFacts
<1>6. PICK x : x \in mem.live \ E /\ mem' = Erase(mem, x) /\ UNCHANGED <<node, leaked>>
  <2>1. CASE ListErase(l)
    <3>1. PICK i \in 1..Length(l) : Changes("erase", l, <<i>>, Erase(mem, At(l, i)))
      BY <2>1 DEF ListErase
    <3>2. mem' = Erase(mem, Nth(r, i)) /\ UNCHANGED <<node, leaked>>
      BY <1>4, <3>1 DEF Changes
    <3>3. i \in 1..Len(r) /\ i < Len(r)
      BY <1>4, <3>1
    <3>4. Nth(r, i) \in mem.live \ E
      BY <1>2, <1>3, <3>3, PositionIs DEF Position
    <3> QED
      BY <3>2, <3>4
  <2>2. CASE ListPopBack(l)
    <3>1. mem.next[e] # e /\ mem' = Erase(mem, mem.prev[e]) /\ UNCHANGED <<node, leaked>>
      BY <1>2, <2>2 DEF ListPopBack, Changes, Empty
    <3>2. mem.prev[e] # e
      BY <1>5, <3>1
    <3> QED
      BY <1>3, <1>5, <3>1, <3>2
  <2>3. CASE ListPopFront(l)
    <3>1. mem.next[e] # e /\ mem' = Erase(mem, mem.next[e]) /\ UNCHANGED <<node, leaked>>
      BY <1>2, <2>3 DEF ListPopFront, Changes, Empty, Begin
    <3> QED
      BY <1>3, <1>5, <3>1
  <2> QED
    BY <2>1, <2>2, <2>3
<1> QED
  BY <1>1, <1>6, EraseKeeps

(* The operators that only rearrange or free nodes of a list.              *)
LEMMA SameRoomKeeps ==
  ASSUME NEW o, NEW E, NEW n, NEW l, Ready(o, E, n, l), NEW w, NEW A,
         Becomes(mem, E, o, w, A, Cardinality(mem.live)), A \subseteq {node[l]},
         mem' = w, UNCHANGED <<node, leaked, scope>>
  PROVE  ListInv'
<1>1. /\ Cardinality(mem.live) \in Nat /\ Cardinality(mem.live) <= n
      /\ {node[l]} \subseteq KeptEnds(node)
  BY ReadyFacts
<1>2. A \subseteq KeptEnds(node) /\ Cardinality(mem.live) \in Int
  BY <1>1
<1> QED
  BY <1>1, <1>2, MemoryChanges

LEMMA RearrangeKeeps ==
  ASSUME ListInv, NEW l \in Initialised, UNCHANGED scope,
         ListRemoveIf(l) \/ ListReverse(l) \/ ListUnique(l) \/ ListUnique1(l)
  PROVE  ListInv'
<1>1. PICK o, E, n : Ready(o, E, n, l)
  BY InvReady
<1>2. PICK e : e = node[l]
  OBVIOUS
<1>3. Whole(mem, E, o) /\ e \in E
  BY <1>1, <1>2, ReadyFacts
<1>4. PICK w : /\ Becomes(mem, E, o, w, {}, Cardinality(mem.live))
               /\ mem' = w /\ UNCHANGED <<node, leaked>>
  <2>1. CASE ListRemoveIf(l)
    <3>1. PICK doomed \in SUBSET scope.values :
            Counts("remove", l, <<doomed>>, Remove(mem, node[l], doomed))
      BY <2>1 DEF ListRemoveIf
    <3>2. mem' = Remove(mem, e, doomed) /\ UNCHANGED <<node, leaked>>
      BY <1>2, <3>1 DEF Counts
    <3>3. Becomes(mem, E, o, Remove(mem, e, doomed), {}, Cardinality(mem.live))
      BY <1>3, RemoveBecomes
    <3> QED
      BY <3>2, <3>3
  <2>2. CASE ListReverse(l)
    <3>1. mem' = Reversed(mem, e) /\ UNCHANGED <<node, leaked>>
      BY <1>2, <2>2 DEF ListReverse, Changes
    <3>2. Becomes(mem, E, o, Reversed(mem, e), {}, Cardinality(mem.live))
      BY <1>3, ReversedBecomes
    <3> QED
      BY <3>1, <3>2
  <2>3. CASE ListUnique(l) \/ ListUnique1(l)
    <3>1. PICK b : mem' = Unique(mem, e, b) /\ UNCHANGED <<node, leaked>>
      BY <1>2, <2>3 DEF ListUnique, ListUnique1, Counts
    <3>2. Becomes(mem, E, o, Unique(mem, e, b), {}, Cardinality(mem.live))
      BY <1>3, UniqueBecomes
    <3> QED
      BY <3>1, <3>2
  <2> QED
    BY <2>1, <2>2, <2>3
<1> QED
  BY <1>1, <1>4, SameRoomKeeps

(* Where a position of a list is, and a range of it.                       *)
LEMMA ReadyPosition ==
  ASSUME NEW o, NEW E, NEW n, NEW l, Ready(o, E, n, l), NEW i \in Positions(l)
  PROVE  /\ At(l, i) \in mem.live /\ o[At(l, i)] = node[l]
         /\ i <= Length(l) => At(l, i) \in mem.live \ E
<1>1. PICK e, r : e = node[l] /\ r = Ring(mem, e)
  OBVIOUS
<1>2. Whole(mem, E, o) /\ e \in E
  BY <1>1, ReadyFacts
<1>3. /\ Positions(l) = 1..Len(r) /\ At(l, i) = Nth(r, i) /\ Len(r) \in Nat
      /\ Length(l) = Len(r) - 1
  BY <1>1, ReadySizes
<1>4. i \in 1..Len(r) /\ (i <= Length(l) => i < Len(r))
  BY <1>3
<1>5. Position(mem, E, o, e, r, i)
  BY <1>1, <1>2, <1>4, PositionIs
<1> QED
  BY <1>1, <1>3, <1>4, <1>5 DEF Position

LEMMA ReadyRange ==
  ASSUME NEW o, NEW E, NEW n, NEW l, Ready(o, E, n, l),
         NEW i \in Positions(l), NEW j \in Positions(l), i <= j
  PROVE  \E R : /\ Stretch(mem, E, o, R, At(l, i), At(l, j)) /\ Cardinality(R) = j - i
                /\ \A k \in Positions(l) : k < i \/ k >= j => At(l, k) \notin R
<1>1. PICK e, r : e = node[l] /\ r = Ring(mem, e)
  OBVIOUS
<1>2. Whole(mem, E, o) /\ e \in E
  BY <1>1, ReadyFacts
<1>3. Positions(l) = 1..Len(r) /\ \A k : At(l, k) = Nth(r, k)
  BY <1>1, ReadySizes
<1>4. i \in 1..Len(r) /\ j \in 1..Len(r)
  BY <1>3
<1>5. PICK R : Ranged(mem, E, o, r, i, j, R)
  BY <1>1, <1>2, <1>4, RangeIs
<1> QED
  BY <1>3, <1>5 DEF Ranged

LEMMA InsertManyKeeps ==
  ASSUME ListInv, NEW l \in Initialised, UNCHANGED scope, ListInsert1(l)
  PROVE  ListInv'
<1>1. PICK o, E, n : Ready(o, E, n, l)
  BY InvReady
<1>2. PICK i \in Positions(l) : \E count \in 0..Room : \E v \in scope.values :
        Changes("insert1", l, <<i, count, v>>, InsertMany(mem, At(l, i), count, v))
  BY DEF ListInsert1
<1>3. PICK count \in 0..Room, v \in scope.values :
        Changes("insert1", l, <<i, count, v>>, InsertMany(mem, At(l, i), count, v))
  BY <1>2
<1>4. PICK pos, w : pos = At(l, i) /\ w = InsertMany(mem, pos, count, v)
  OBVIOUS
<1>5. mem' = w /\ UNCHANGED <<node, leaked, scope>>
  BY <1>3, <1>4 DEF Changes
<1>6. pos \in mem.live /\ o[pos] = node[l]
  BY <1>1, <1>4, ReadyPosition
<1>7. /\ Whole(mem, E, o) /\ n \in Nat /\ n <= Cardinality(Nodes)
      /\ Cardinality(mem.live) \in Nat /\ {node[l]} \subseteq KeptEnds(node)
      /\ n + Counters + 1 <= Cardinality(Nodes)
  BY <1>1, ReadyFacts
<1>8. Room = n - Cardinality(mem.live) /\ v \in Values \cup {Null}
  BY <1>1, ReadySizes
<1>9. count \in Nat /\ Cardinality(mem.live) + count <= n /\ Cardinality(mem.live) + count \in Int
  BY <1>3, <1>7, <1>8
<1>10. Cardinality(mem.live) + count <= Cardinality(Nodes)
  <2>1. Cardinality(Nodes) \in Nat
    BY ListAssumption, FS_CardinalityType
  <2> QED
    BY <1>7, <1>9, <2>1
<1>11. Becomes(mem, E, o, w, {o[pos]}, Cardinality(mem.live) + count)
  <2>1. Becomes(mem, E, o, InsertMany(mem, pos, count, v), {o[pos]}, Cardinality(mem.live) + count)
    BY ONLY <1>6, <1>7, <1>8, <1>9, <1>10, InsertManyBecomes
  <2> QED
    BY <1>4, <2>1
<1>12. {o[pos]} \subseteq KeptEnds(node)
  BY <1>6, <1>7
<1> QED
  BY <1>1, <1>5, <1>9, <1>11, <1>12, MemoryChanges

LEMMA ResizeKeeps ==
  ASSUME ListInv, NEW l \in Initialised, ListResize(l), UNCHANGED scope
  PROVE  ListInv'
<1>1. PICK o, E, n : Ready(o, E, n, l)
  BY InvReady
<1>2. PICK e : e = node[l]
  OBVIOUS
<1>3. PICK count \in 0..(Room + Length(l)), v \in scope.values \cup {Null} :
        Changes("resize", l, <<count, v>>, Resize(mem, node[l], count, v))
  BY DEF ListResize
<1>4. PICK w : w = Resize(mem, e, count, v)
  OBVIOUS
<1>5. mem' = w /\ UNCHANGED <<node, leaked, scope>>
  BY <1>2, <1>3, <1>4 DEF Changes
<1>6. /\ Whole(mem, E, o) /\ e \in E /\ Cardinality(mem.live) \in Nat
      /\ Cardinality(mem.live) <= n /\ n \in Nat /\ n <= Cardinality(Nodes)
      /\ {e} \subseteq KeptEnds(node)
  BY <1>1, <1>2, ReadyFacts
<1>7. PICK V : V = Cardinality(Values0(mem.live, o, e))
  OBVIOUS
<1>8. /\ Room = n - Cardinality(mem.live) /\ Room \in Nat /\ Length(l) = V /\ V \in Nat
      /\ v \in Values \cup {Null}
  BY <1>1, <1>2, <1>3, <1>7, ReadySizes
<1>9. count \in Nat /\ Cardinality(mem.live) + count - V <= n
  BY <1>3, <1>6, <1>8
<1>10. Becomes(mem, E, o, w, {e}, n)
  BY <1>4, <1>6, <1>7, <1>8, <1>9, ResizeBecomes
<1> QED
  BY <1>1, <1>5, <1>6, <1>10, MemoryChanges

LEMMA EraseRangeKeeps ==
  ASSUME ListInv, NEW l \in Initialised, ListErase2(l), UNCHANGED scope
  PROVE  ListInv'
<1>1. PICK o, E, n : Ready(o, E, n, l)
  BY InvReady
<1>2. PICK i \in Positions(l), j \in Positions(l) :
        /\ i <= j
        /\ Changes("erase2", l, <<i, j>>, EraseRange(mem, At(l, i), At(l, j)))
  BY DEF ListErase2
<1>3. PICK a, b, w : a = At(l, i) /\ b = At(l, j) /\ w = EraseRange(mem, a, b)
  OBVIOUS
<1>4. mem' = w /\ UNCHANGED <<node, leaked, scope>>
  BY <1>2, <1>3 DEF Changes
<1>5. PICK R : Stretch(mem, E, o, R, a, b)
  BY <1>1, <1>2, <1>3, ReadyRange
<1>6. Becomes(mem, E, o, w, {}, Cardinality(mem.live))
  BY <1>3, <1>5, EraseRangeBecomes
<1> QED
  BY <1>1, <1>4, <1>6, SameRoomKeeps

(* A range of another list.                                                *)
LEMMA OtherRange ==
  ASSUME NEW o, NEW E, NEW n, NEW k, Ready(o, E, n, k), NEW l, Ready(o, E, n, l), l # k,
         NEW a \in Positions(k), NEW b \in Positions(k), a <= b
  PROVE  \E R : /\ Stretch(mem, E, o, R, At(k, a), At(k, b)) /\ Cardinality(R) = b - a
                /\ Cardinality(R) \in Nat /\ o[At(k, b)] # node[l]
<1>1. PICK R : Stretch(mem, E, o, R, At(k, a), At(k, b)) /\ Cardinality(R) = b - a
  BY ReadyRange
<1>2. Cardinality(R) \in Nat
  BY <1>1, StretchFacts
<1>3. o[At(k, b)] = node[k]
  BY ReadyPosition
<1>4. node[k] # node[l]
  BY OtherEnd
<1> QED
  BY <1>1, <1>2, <1>3, <1>4

LEMMA AssignRangeKeeps ==
  ASSUME ListInv, NEW l \in Initialised, ListAssign2(l), UNCHANGED scope
  PROVE  ListInv'
<1>1. PICK o, E, n : \A k \in Initialised : Ready(o, E, n, k)
  BY InvReady
<1>2. PICK k \in Initialised \ {l} : \E i, j \in Positions(k) :
        /\ i <= j /\ j - i <= Room + Length(l)
        /\ Changes("assign2", l, <<k, i, j>>, AssignRange(mem, node[l], At(k, i), At(k, j)))
  BY DEF ListAssign2
<1>3. PICK i \in Positions(k), j \in Positions(k) :
        /\ i <= j /\ j - i <= Room + Length(l)
        /\ Changes("assign2", l, <<k, i, j>>, AssignRange(mem, node[l], At(k, i), At(k, j)))
  BY <1>2
<1>4. PICK e, a, b, w : /\ e = node[l] /\ a = At(k, i) /\ b = At(k, j)
                        /\ w = AssignRange(mem, e, a, b)
  OBVIOUS
<1>5. mem' = w /\ UNCHANGED <<node, leaked, scope>>
  BY <1>3, <1>4 DEF Changes
<1>6. Ready(o, E, n, l) /\ Ready(o, E, n, k) /\ l # k
  BY <1>1, <1>2
<1>7. PICK R : /\ Stretch(mem, E, o, R, a, b) /\ Cardinality(R) = j - i
               /\ Cardinality(R) \in Nat /\ o[b] # e
  BY <1>3, <1>4, <1>6, OtherRange
<1>8. /\ Whole(mem, E, o) /\ e \in E /\ Cardinality(mem.live) \in Nat
      /\ Cardinality(mem.live) <= n /\ n \in Nat /\ n <= Cardinality(Nodes)
      /\ {e} \subseteq KeptEnds(node)
  BY <1>4, <1>6, ReadyFacts
<1>9. PICK V : V = Cardinality(Values0(mem.live, o, e))
  OBVIOUS
<1>10. Room = n - Cardinality(mem.live) /\ Room \in Nat /\ Length(l) = V /\ V \in Nat
  BY <1>4, <1>6, <1>9, ReadySizes
<1>11. Cardinality(mem.live) + Cardinality(R) - V <= n
  BY <1>3, <1>7, <1>8, <1>10
<1>12. Becomes(mem, E, o, AssignRange(mem, e, a, b), {e}, n)
  BY ONLY <1>7, <1>8, <1>9, <1>11, AssignRangeBecomes
<1>13. Becomes(mem, E, o, w, {e}, n)
  BY <1>4, <1>12
<1> QED
  BY <1>5, <1>6, <1>8, <1>13, MemoryChanges

LEMMA InsertRangeKeeps ==
  ASSUME ListInv, NEW l \in Initialised, ListInsert2(l), UNCHANGED scope
  PROVE  ListInv'
<1>1. PICK o, E, n : \A k \in Initialised : Ready(o, E, n, k)
  BY InvReady
<1>2. PICK i \in Positions(l) : \E k \in Initialised \ {l} : \E a, b \in Positions(k) :
        /\ a <= b /\ b - a <= Room
        /\ Changes("insert2", l, <<i, k, a, b>>, InsertRange(mem, At(l, i), At(k, a), At(k, b)))
  BY DEF ListInsert2
<1>3. PICK k \in Initialised \ {l} : \E a, b \in Positions(k) :
        /\ a <= b /\ b - a <= Room
        /\ Changes("insert2", l, <<i, k, a, b>>, InsertRange(mem, At(l, i), At(k, a), At(k, b)))
  BY <1>2
<1>4. PICK a \in Positions(k), b \in Positions(k) :
        /\ a <= b /\ b - a <= Room
        /\ Changes("insert2", l, <<i, k, a, b>>, InsertRange(mem, At(l, i), At(k, a), At(k, b)))
  BY <1>3
<1>5. PICK pos, x, y, w : /\ pos = At(l, i) /\ x = At(k, a) /\ y = At(k, b)
                          /\ w = InsertRange(mem, pos, x, y)
  OBVIOUS
<1>6. mem' = w /\ UNCHANGED <<node, leaked, scope>>
  BY <1>4, <1>5 DEF Changes
<1>7. Ready(o, E, n, l) /\ Ready(o, E, n, k) /\ l # k
  BY <1>1, <1>3
<1>8. PICK R : /\ Stretch(mem, E, o, R, x, y) /\ Cardinality(R) = b - a
               /\ Cardinality(R) \in Nat /\ o[y] # node[l]
  BY <1>4, <1>5, <1>7, OtherRange
<1>9. pos \in mem.live /\ o[pos] = node[l]
  BY <1>5, <1>7, ReadyPosition
<1>10. /\ Whole(mem, E, o) /\ Cardinality(mem.live) \in Nat
       /\ n \in Nat /\ n <= Cardinality(Nodes)
       /\ {node[l]} \subseteq KeptEnds(node)
  BY <1>7, ReadyFacts
<1>11. Room = n - Cardinality(mem.live)
  BY <1>7, ReadySizes
<1>12. Cardinality(mem.live) + Cardinality(R) <= n /\ o[pos] # o[y] /\ n \in Int /\ n <= n
  BY <1>4, <1>8, <1>9, <1>10, <1>11
<1>13. Becomes(mem, E, o, InsertRange(mem, pos, x, y), {o[pos]}, n)
  BY ONLY <1>8, <1>9, <1>10, <1>12, InsertRangeBecomes
<1>14. Becomes(mem, E, o, w, {o[pos]}, n) /\ {o[pos]} \subseteq KeptEnds(node)
  BY <1>5, <1>9, <1>10, <1>13
<1> QED
  BY <1>6, <1>7, <1>12, <1>14, MemoryChanges

LEMMA MergeKeeps ==
  ASSUME ListInv, NEW l \in Initialised, ListMerge(l), UNCHANGED scope
  PROVE  ListInv'
<1>1. PICK o, E, n : \A k \in Initialised : Ready(o, E, n, k)
  BY InvReady
<1>2. PICK k \in Initialised \ {l} : Changes("merge", l, <<k>>, Merge(mem, node[l], node[k]))
  BY DEF ListMerge
<1>3. PICK a, b, w : a = node[l] /\ b = node[k] /\ w = Merge(mem, a, b)
  OBVIOUS
<1>4. mem' = w /\ UNCHANGED <<node, leaked, scope>>
  BY <1>2, <1>3 DEF Changes
<1>5. Ready(o, E, n, l) /\ Ready(o, E, n, k) /\ l # k
  BY <1>1, <1>2
<1>6. Whole(mem, E, o) /\ a \in E /\ b \in E /\ a # b
  BY <1>3, <1>5, ReadyFacts, OtherEnd
<1>7. PICK o1 : Merged(mem, E, o, a, b, w, o1)
  BY <1>3, <1>6, MergeMerged
<1>8. Becomes(mem, E, o, w, {a}, Cardinality(mem.live))
  BY <1>7, MergedBecomes
<1> QED
  BY <1>3, <1>4, <1>5, <1>8, SameRoomKeeps

LEMMA SpliceKeeps ==
  ASSUME ListInv, NEW l \in Initialised, UNCHANGED scope,
         ListSplice(l) \/ ListSplice1(l) \/ ListSplice2(l)
  PROVE  ListInv'
<1>1. PICK o, E, n : \A k \in Initialised : Ready(o, E, n, k)
  BY InvReady
<1>2. Ready(o, E, n, l)
  BY <1>1
<1>3. Whole(mem, E, o)
  BY <1>2, ReadyFacts
<1>4. PICK pos, w : /\ o[pos] = node[l] /\ mem' = w /\ UNCHANGED <<node, leaked>>
                    /\ Becomes(mem, E, o, w, {o[pos]}, Cardinality(mem.live))
  <2>1. CASE ListSplice(l)
    <3>1. PICK k \in Initialised \ {l}, i \in Positions(l) :
            Changes("splice", l, <<i, k>>, Splice(mem, At(l, i), node[k]))
      BY <2>1 DEF ListSplice
    <3>2. PICK pos, e, w : pos = At(l, i) /\ e = node[k] /\ w = Splice(mem, pos, e)
      OBVIOUS
    <3>3. mem' = w /\ UNCHANGED <<node, leaked>>
      BY <3>1, <3>2 DEF Changes
    <3>4. pos \in mem.live /\ o[pos] = node[l]
      BY <1>2, <3>2, ReadyPosition
    <3>5. Ready(o, E, n, k)
      BY <1>1, <3>1
    <3>6. e \in E /\ o[pos] # e
      BY <1>2, <3>1, <3>2, <3>4, <3>5, ReadyFacts, OtherEnd
    <3>7. Becomes(mem, E, o, w, {o[pos]}, Cardinality(mem.live))
      BY <1>3, <3>2, <3>4, <3>6, SpliceBecomes
    <3> QED
      BY <3>3, <3>4, <3>7
  <2>2. CASE ListSplice1(l)
    <3>1. PICK k \in Initialised, i \in Positions(l) : \E j \in 1..Length(k) :
            Changes("splice1", l, <<i, k, j>>, Splice1(mem, At(l, i), At(k, j)))
      BY <2>2 DEF ListSplice1
    <3>2. PICK j \in 1..Length(k) :
            Changes("splice1", l, <<i, k, j>>, Splice1(mem, At(l, i), At(k, j)))
      BY <3>1
    <3>3. PICK pos, x, w : pos = At(l, i) /\ x = At(k, j) /\ w = Splice1(mem, pos, x)
      OBVIOUS
    <3>4. mem' = w /\ UNCHANGED <<node, leaked>>
      BY <3>2, <3>3 DEF Changes
    <3>5. pos \in mem.live /\ o[pos] = node[l]
      BY <1>2, <3>3, ReadyPosition
    <3>6. Ready(o, E, n, k)
      BY <1>1, <3>1
    <3>7. Length(k) \in Nat
      BY <3>6, ReadySizes
    <3>8. j \in Positions(k) /\ j <= Length(k)
      BY <3>2, <3>7 DEF Positions
    <3>9. x \in mem.live \ E
      BY <3>3, <3>6, <3>8, ReadyPosition
    <3>10. Becomes(mem, E, o, w, {o[pos]}, Cardinality(mem.live))
      BY <1>3, <3>3, <3>5, <3>9, Splice1Becomes
    <3> QED
      BY <3>4, <3>5, <3>10
  <2>3. CASE ListSplice2(l)
    <3>1. PICK k \in Initialised, i \in Positions(l) : \E a, b \in Positions(k) :
            /\ a <= b /\ (k = l => i < a \/ i >= b \/ a = b)
            /\ Changes("splice2", l, <<i, k, a, b>>, Splice2(mem, At(l, i), At(k, a), At(k, b)))
      BY <2>3 DEF ListSplice2
    <3>2. PICK a \in Positions(k), b \in Positions(k) :
            /\ a <= b /\ (k = l => i < a \/ i >= b \/ a = b)
            /\ Changes("splice2", l, <<i, k, a, b>>, Splice2(mem, At(l, i), At(k, a), At(k, b)))
      BY <3>1
    <3>3. PICK pos, x, y, w : /\ pos = At(l, i) /\ x = At(k, a) /\ y = At(k, b)
                              /\ w = Splice2(mem, pos, x, y)
      OBVIOUS
    <3>4. mem' = w /\ UNCHANGED <<node, leaked>>
      BY <3>2, <3>3 DEF Changes
    <3>5. pos \in mem.live /\ o[pos] = node[l]
      BY <1>2, <3>3, ReadyPosition
    <3>6. Ready(o, E, n, k)
      BY <1>1, <3>1
    <3>7. PICK R : /\ Stretch(mem, E, o, R, x, y) /\ Cardinality(R) = b - a
                   /\ \A j \in Positions(k) : j < a \/ j >= b => At(k, j) \notin R
      BY <3>2, <3>3, <3>6, ReadyRange
    <3>8. x = y \/ pos \notin R
      <4>1. CASE k = l
        BY <3>1, <3>2, <3>3, <3>7, <4>1
      <4>2. CASE k # l
        <5>1. \A z \in R : o[z] = o[y]
          BY <3>7 DEF Stretch, Span
        <5>2. o[y] = node[k] /\ node[k] # node[l]
          BY <1>2, <3>2, <3>3, <3>6, <4>2, ReadyPosition, OtherEnd
        <5> QED
          BY <3>5, <5>1, <5>2
      <4> QED
        BY <4>1, <4>2
    <3>9. Becomes(mem, E, o, w, {o[pos]}, Cardinality(mem.live))
      BY <3>3, <3>5, <3>7, <3>8, Splice2Becomes
    <3> QED
      BY <3>4, <3>5, <3>9
  <2> QED
    BY <1>3, <2>1, <2>2, <2>3
<1> QED
  BY <1>2, <1>4, SameRoomKeeps

(***************************************************************************)
(* The calls that change which end nodes the lists have.                   *)
(***************************************************************************)
LEMMA Rebuilt ==
  ASSUME NEW m, NEW nd, NEW lk, NEW o, Fits(m, nd, scope, lk, o), scope \in Scopes,
         mem' = m, node' = nd, leaked' = lk, UNCHANGED scope
  PROVE  ListInv'
<1>1. Fits(mem', node', scope', leaked', o)
  OBVIOUS
<1>2. scope' \in Scopes
  OBVIOUS
<1> QED
  BY <1>1, <1>2 DEF ListInv

LEMMA SwapKeeps ==
  ASSUME ListInv, NEW l \in Initialised, ListSwap(l), UNCHANGED scope
  PROVE  ListInv'
<1>1. PICK o : Fits(mem, node, scope, leaked, o)
  BY DEF ListInv
<1>2. PICK k \in Initialised \ {l} :
        /\ node' = [node EXCEPT ![l] = node[k], ![k] = node[l]]
        /\ UNCHANGED <<mem, leaked>>
  BY DEF ListSwap
<1>3. PICK nd : nd = [node EXCEPT ![l] = node[k], ![k] = node[l]]
  OBVIOUS
<1>4. /\ node \in [Lists -> Pointers] /\ l \in Lists /\ k \in Lists /\ l # k
      /\ node[l] # Nowhere /\ node[k] # Nowhere
  BY <1>1, <1>2 DEF Fits, Initialised
<1>5. /\ nd \in [Lists -> Pointers] /\ nd[l] = node[k] /\ nd[k] = node[l]
      /\ \A j \in Lists : j # l /\ j # k => nd[j] = node[j]
  BY <1>3, <1>4
<1>6. KeptLists(nd) = KeptLists(node)
  BY <1>4, <1>5 DEF KeptLists
<1>7. l \in KeptLists(node) /\ k \in KeptLists(node) /\ KeptLists(node) \subseteq Lists
  BY <1>4 DEF KeptLists
<1>8. KeptEnds(nd) = KeptEnds(node)
  <2>1. ASSUME NEW j \in KeptLists(node) PROVE nd[j] \in KeptEnds(node)
    BY <1>5, <1>7 DEF KeptEnds
  <2>2. ASSUME NEW j \in KeptLists(node) PROVE \E i \in KeptLists(node) : nd[i] = node[j]
    BY <1>5, <1>7
  <2> QED
    BY <1>6, <2>1, <2>2 DEF KeptEnds
<1>9. Separate(node, leaked)
  BY <1>1 DEF Fits
<1>10. Separate(nd, leaked)
  <2>1. ASSUME NEW i \in KeptLists(nd), NEW j \in KeptLists(nd), nd[i] = nd[j] PROVE i = j
    <3>1. \A a, b \in KeptLists(node) : node[a] = node[b] => a = b
      BY <1>9 DEF Separate
    <3> QED
      BY <1>5, <1>6, <1>7, <2>1, <3>1
  <2>2. ASSUME NEW j \in KeptLists(nd) PROVE nd[j] \notin leaked
    BY <1>5, <1>6, <1>7, <1>9 DEF Separate
  <2> QED
    BY <2>1, <2>2 DEF Separate
<1>11. Bound(nd, scope, leaked) = Bound(node, scope, leaked)
  BY <1>6 DEF Bound
<1>12. Fits(mem, nd, scope, leaked, o)
  BY <1>1, <1>5, <1>6, <1>8, <1>10, <1>11 DEF Fits
<1>13. scope \in Scopes
  BY DEF ListInv
<1> QED
  BY <1>2, <1>3, <1>12, <1>13, Rebuilt

LEMMA DestroyKeeps ==
  ASSUME ListInv, NEW l \in Initialised, ListDestroy(l), UNCHANGED scope
  PROVE  ListInv'
<1>1. PICK o, E, n : Ready(o, E, n, l)
  BY InvReady
<1>2. /\ Fits(mem, node, scope, leaked, o) /\ Fitting(mem, node, scope, leaked, o, E, n)
      /\ l \in KeptLists(node)
  BY <1>1 DEF Ready
<1>3. PICK e, w, nd : e = node[l] /\ w = Destroyed(mem, e) /\ nd = [node EXCEPT ![l] = Nowhere]
  OBVIOUS
<1>4. mem' = w /\ node' = nd /\ leaked' = leaked /\ UNCHANGED scope
  BY <1>3 DEF ListDestroy
<1>5. Whole(mem, E, o) /\ e \in E
  BY <1>1, <1>3, ReadyFacts
<1>6. PICK o1 : /\ Whole(w, E \ {e}, o1) /\ Confined(mem, o, w, o1, {})
                /\ Cardinality(w.live) \in Nat
                /\ Cardinality(w.live) <= Cardinality(mem.live) - 1
  BY <1>3, <1>5, RemovedConfined
<1>7. /\ node \in [Lists -> Pointers] /\ KeptLists(node) \subseteq scope.lists
      /\ Separate(node, leaked) /\ leaked \subseteq Nodes /\ Cardinality(leaked) <= MaxLeaks
      /\ \A x \in leaked : Values0(mem.live, o, x) = {}
  BY <1>2 DEF Fits
<1>8. /\ nd \in [Lists -> Pointers] /\ nd[l] = Nowhere
      /\ \A j \in Lists : j # l => nd[j] = node[j]
  BY <1>2, <1>3, <1>7 DEF KeptLists, Pointers
<1>9. KeptLists(nd) = KeptLists(node) \ {l}
  BY <1>2, <1>8 DEF KeptLists
<1>10. \A j \in KeptLists(nd) : j \in KeptLists(node) /\ nd[j] = node[j] /\ j # l
  BY <1>8, <1>9 DEF KeptLists
<1>11. Separate(nd, leaked)
  BY <1>7, <1>10 DEF Separate
<1>12. KeptEnds(nd) = KeptEnds(node) \ {e}
  <2>1. \A j \in KeptLists(node) : node[j] = e => j = l
    BY <1>2, <1>3, <1>7 DEF Separate
  <2>2. \A j \in KeptLists(node) : j # l => j \in KeptLists(nd)
    BY <1>9
  <2>3. ASSUME NEW x \in KeptEnds(nd) PROVE x \in KeptEnds(node) \ {e}
    BY <1>10, <2>1 DEF KeptEnds
  <2>4. ASSUME NEW x \in KeptEnds(node) \ {e} PROVE x \in KeptEnds(nd)
    <3>1. PICK j \in KeptLists(node) : x = node[j]
      BY DEF KeptEnds
    <3>2. j \in KeptLists(nd) /\ x = nd[j]
      BY <1>3, <1>10, <2>2, <2>4, <3>1
    <3> QED
      BY <3>2 DEF KeptEnds
  <2> QED
    BY <2>3, <2>4
<1>13. E \ {e} = KeptEnds(nd) \cup leaked
  <2>1. E = KeptEnds(node) \cup leaked
    BY <1>2 DEF Fitting
  <2>2. e \notin leaked
    BY <1>2, <1>3, <1>7 DEF Separate
  <2> QED
    BY <1>12, <2>1, <2>2
<1>14. Cardinality(w.live) <= Bound(nd, scope, leaked)
  <2>1. /\ n = scope.room + Cardinality(KeptLists(node)) + Cardinality(leaked)
        /\ Cardinality(mem.live) <= n /\ Cardinality(mem.live) \in Nat
        /\ scope.room \in Nat /\ Cardinality(KeptLists(node)) \in Nat
        /\ Cardinality(leaked) \in Nat /\ IsFiniteSet(KeptLists(node))
    BY <1>2 DEF Fitting, Bound
  <2>2. Cardinality(KeptLists(nd)) = Cardinality(KeptLists(node)) - 1
    BY <1>2, <1>9, <2>1, FS_RemoveElement
  <2>3. Bound(nd, scope, leaked) = n - 1
    BY <2>1, <2>2 DEF Bound
  <2> QED
    BY <1>6, <2>1, <2>3
<1>15. ASSUME NEW x \in leaked PROVE Values0(w.live, o1, x) = {}
  <2>1. Values0(w.live, o1, x) \subseteq Values0(mem.live, o, x)
    BY <1>6 DEF Confined, Values0, RingOf
  <2> QED
    BY <1>7, <2>1
<1>16. Fits(w, nd, scope, leaked, o1)
  BY <1>6, <1>7, <1>8, <1>9, <1>11, <1>13, <1>14, <1>15 DEF Fits
<1>17. scope \in Scopes
  BY DEF ListInv
<1> QED
  BY <1>4, <1>16, <1>17, Rebuilt

LEMMA InitKeeps ==
  ASSUME ListInv, NEW l \in scope.lists, ListInit(l), UNCHANGED scope
  PROVE  ListInv'
<1>1. PICK o : Fits(mem, node, scope, leaked, o)
  BY DEF ListInv
<1>2. scope \in Scopes /\ scope.lists \subseteq Lists
  BY ListAssumption DEF ListInv
<1>3. PICK E, n : Fitting(mem, node, scope, leaked, o, E, n)
  BY <1>1, <1>2, FitsFitting
<1>4. /\ E = KeptEnds(node) \cup leaked
      /\ n = scope.room + Cardinality(KeptLists(node)) + Cardinality(leaked)
      /\ Whole(mem, E, o) /\ n \in Nat /\ n + Counters + 1 <= Cardinality(Nodes)
      /\ Cardinality(Nodes) \in Nat /\ Cardinality(mem.live) \in Nat
      /\ Cardinality(mem.live) <= n /\ scope.room \in Nat
      /\ Cardinality(KeptLists(node)) \in Nat /\ Cardinality(leaked) \in Nat
      /\ IsFiniteSet(KeptLists(node))
  BY <1>3 DEF Fitting, Bound
<1>5. PICK count \in 0..Room, v \in scope.values \cup {Null} :
        LET end == Fresh(mem)
            m   == NewEnd(mem)
        IN  /\ node' = [node EXCEPT ![l] = end]
            /\ mem' = InsertMany(m, Begin(m, end), count, v)
            /\ leaked' = leaked
  BY DEF ListInit
<1>6. PICK e, m, w, nd : /\ e = Fresh(mem) /\ m = NewEnd(mem)
                         /\ w = InsertMany(m, Begin(m, e), count, v)
                         /\ nd = [node EXCEPT ![l] = e]
  OBVIOUS
<1>7. mem' = w /\ node' = nd /\ leaked' = leaked
  BY <1>5, <1>6
<1>8. node[l] = Nowhere /\ l \in Lists
  BY <1>2 DEF ListInit
<1>9. Room = n - Cardinality(mem.live)
  <2>1. Room = scope.room - (Cardinality(mem.live) - Cardinality(KeptLists(node))
                             - Cardinality(leaked))
    BY DEF Room, Initialised, KeptLists
  <2> QED
    BY <1>4, <2>1
<1>10. /\ count \in Nat /\ Cardinality(mem.live) + count <= n /\ v \in Values \cup {Null}
  BY <1>2, <1>4, <1>5, <1>9, ListAssumption
<1>11. Cardinality(mem.live) < Cardinality(Nodes)
  <2>1. Counters \in Nat
    BY ListAssumption
  <2> QED
    BY <1>4, <2>1
<1>12. PICK o1 : o1 = [x \in mem.live \cup {e} |-> IF x = e THEN e ELSE o[x]]
  OBVIOUS
<1>13. /\ Whole(m, E \cup {e}, o1)
       /\ m.live = mem.live \cup {e} /\ e \in Nodes \ mem.live
       /\ m.next[e] = e
       /\ Cardinality(m.live) = Cardinality(mem.live) + 1
  <2>1. Whole(mem, E, o) /\ e = Fresh(mem)
    BY <1>4, <1>6
  <2>2. /\ Whole(NewEnd(mem), E \cup {e}, o1)
        /\ NewEnd(mem).live = mem.live \cup {e} /\ e \in Nodes \ mem.live
        /\ NewEnd(mem).next[e] = e
        /\ Cardinality(NewEnd(mem).live) = Cardinality(mem.live) + 1
    BY ONLY <1>11, <1>12, <2>1, NewEndWhole
  <2> QED
    BY <1>6, <2>2
<1>14. PICK p : p = Cardinality(mem.live) + 1 + count
  OBVIOUS
<1>15. /\ Cardinality(m.live) + count = p /\ p \in Nat /\ p <= n + 1
       /\ p <= Cardinality(Nodes)
  <2>1. Counters \in Nat /\ Counters >= 1
    BY ListAssumption
  <2> QED
    BY <1>4, <1>10, <1>13, <1>14, <2>1
<1>16. PICK o2 : /\ Whole(w, E \cup {e}, o2) /\ Confined(m, o1, w, o2, {e})
                 /\ Cardinality(w.live) <= p
  <2>1. e \in m.live /\ o1[e] = e /\ Begin(m, e) = e
    BY <1>12, <1>13 DEF Begin
  <2>2. PICK F : F = E \cup {e}
    OBVIOUS
  <2>3. Whole(m, F, o1) /\ Cardinality(m.live) + count <= Cardinality(Nodes)
    BY <1>13, <1>15, <2>2
  <2>4. Becomes(m, F, o1, InsertMany(m, e, count, v), {o1[e]}, Cardinality(m.live) + count)
    BY ONLY <1>10, <2>1, <2>3, InsertManyBecomes
  <2>5. Becomes(m, F, o1, w, {e}, p)
    BY <1>6, <1>15, <2>1, <2>4
  <2> QED
    BY <2>2, <2>5 DEF Becomes
<1>17. /\ node \in [Lists -> Pointers] /\ KeptLists(node) \subseteq scope.lists
       /\ Separate(node, leaked) /\ leaked \subseteq Nodes /\ Cardinality(leaked) <= MaxLeaks
       /\ \A x \in leaked : Values0(mem.live, o, x) = {}
  BY <1>1 DEF Fits
<1>18. /\ nd \in [Lists -> Pointers] /\ nd[l] = e /\ e # Nowhere
       /\ \A j \in Lists : j # l => nd[j] = node[j]
  BY <1>6, <1>8, <1>13, <1>17, ListAssumption DEF Pointers
<1>19. KeptLists(nd) = KeptLists(node) \cup {l} /\ l \notin KeptLists(node)
  BY <1>8, <1>18 DEF KeptLists
<1>20. \A j \in KeptLists(node) : nd[j] = node[j] /\ j # l /\ j \in KeptLists(nd)
  BY <1>8, <1>18, <1>19 DEF KeptLists
<1>21. e \notin E
  BY <1>4, <1>13, WholeFacts
<1>22. KeptEnds(nd) = KeptEnds(node) \cup {e}
  BY <1>18, <1>19, <1>20 DEF KeptEnds
<1>23. Separate(nd, leaked)
  <2>1. \A j \in KeptLists(node) : node[j] # e
    BY <1>4, <1>21 DEF KeptEnds
  <2>2. ASSUME NEW i \in KeptLists(nd), NEW j \in KeptLists(nd), nd[i] = nd[j] PROVE i = j
    <3>1. \A a, b \in KeptLists(node) : node[a] = node[b] => a = b
      BY <1>17 DEF Separate
    <3>2. i = l \/ (i \in KeptLists(node) /\ nd[i] = node[i] /\ node[i] # e)
      BY <1>19, <1>20, <2>1
    <3>3. j = l \/ (j \in KeptLists(node) /\ nd[j] = node[j] /\ node[j] # e)
      BY <1>19, <1>20, <2>1
    <3> QED
      BY <1>18, <2>2, <3>1, <3>2, <3>3
  <2>3. ASSUME NEW j \in KeptLists(nd) PROVE nd[j] \notin leaked
    BY <1>4, <1>17, <1>18, <1>19, <1>20, <1>21 DEF Separate
  <2> QED
    BY <2>2, <2>3 DEF Separate
<1>24. Cardinality(w.live) <= Bound(nd, scope, leaked)
  <2>1. Cardinality(KeptLists(nd)) = Cardinality(KeptLists(node)) + 1
    BY <1>4, <1>19, FS_AddElement
  <2>2. Bound(nd, scope, leaked) = n + 1
    BY <1>4, <2>1 DEF Bound
  <2>3. Cardinality(w.live) \in Nat
    BY <1>16, WholeFacts
  <2> QED
    BY <1>4, <1>15, <1>16, <2>2, <2>3
<1>25. ASSUME NEW x \in leaked PROVE Values0(w.live, o2, x) = {}
  <2>1. x # e
    BY <1>4, <1>21
  <2>2. \A y \in w.live : o2[y] = x => y \in m.live /\ o1[y] = x
    BY <1>16, <2>1 DEF Confined
  <2>3. \A y \in m.live : o1[y] = x => y \in mem.live /\ o[y] = x
    BY <1>12, <1>13, <2>1
  <2>4. Values0(w.live, o2, x) \subseteq Values0(mem.live, o, x)
    BY <2>2, <2>3 DEF Values0, RingOf
  <2> QED
    BY <1>17, <2>4
<1>26. E \cup {e} = KeptEnds(nd) \cup leaked
  BY <1>4, <1>22
<1>27. KeptLists(nd) \subseteq scope.lists
  BY <1>17, <1>19
<1>28. Fits(w, nd, scope, leaked, o2)
  BY <1>16, <1>17, <1>18, <1>23, <1>24, <1>25, <1>26, <1>27 DEF Fits
<1> QED
  BY <1>2, <1>7, <1>28, Rebuilt

(***************************************************************************)
(* The sorts: a list has no more values than the counters have room for,   *)
(* and malloc has the nodes for the temporary lists.                       *)
(***************************************************************************)
LEMMA EndsCounted ==
  ASSUME NEW nd, NEW lk, Separate(nd, lk), KeptEnds(nd) \in SUBSET Nodes
  PROVE  Cardinality(KeptLists(nd)) <= Cardinality(KeptEnds(nd))
<1>1. PICK f : f = [j \in KeptLists(nd) |-> nd[j]]
  OBVIOUS
<1>2. f \in [KeptLists(nd) -> KeptEnds(nd)]
  BY <1>1 DEF KeptEnds
<1>3. \A i, j \in KeptLists(nd) : f[i] = f[j] => i = j
  BY <1>1 DEF Separate
<1>4. f \in Injection(KeptLists(nd), KeptEnds(nd))
  BY <1>2, <1>3 DEF Injection, IsInjective
<1>5. IsFiniteSet(KeptEnds(nd))
  BY FiniteNodes
<1> QED
  BY <1>4, <1>5, FS_Injection

LEMMA ValuesFit ==
  ASSUME NEW o, NEW E, NEW n, NEW l, Ready(o, E, n, l), NEW e, e = node[l]
  PROVE  Cardinality(Values0(mem.live, o, e)) < Doubled[Counters]
<1>1. PICK V : V = Values0(mem.live, o, e)
  OBVIOUS
<1>2. /\ E = KeptEnds(node) \cup leaked /\ Whole(mem, E, o)
      /\ n = scope.room + Cardinality(KeptLists(node)) + Cardinality(leaked)
      /\ Cardinality(mem.live) \in Nat /\ Cardinality(mem.live) <= n
      /\ scope.room \in Nat /\ scope.room < Doubled[Counters]
      /\ Cardinality(KeptLists(node)) \in Nat /\ Cardinality(leaked) \in Nat
      /\ IsFiniteSet(leaked)
  BY DEF Ready, Fitting, Bound
<1>3. Separate(node, leaked)
  BY DEF Ready, Fits
<1>4. /\ E \subseteq mem.live /\ mem.live \in SUBSET Nodes /\ IsFiniteSet(mem.live)
      /\ \A x \in E : o[x] = x
  BY <1>2, WholeFacts
<1>5. KeptEnds(node) \cap leaked = {}
  BY <1>3 DEF Separate, KeptEnds
<1>6. KeptEnds(node) \in SUBSET Nodes
  BY <1>2, <1>4
<1>7. IsFiniteSet(KeptEnds(node)) /\ Cardinality(KeptEnds(node)) \in Nat
  BY <1>6, FiniteNodes
<1>8. Cardinality(KeptLists(node)) <= Cardinality(KeptEnds(node))
  BY <1>3, <1>6, EndsCounted
<1>9. IsFiniteSet(E) /\ Cardinality(E) = Cardinality(KeptEnds(node)) + Cardinality(leaked)
  BY <1>2, <1>5, <1>7, TogetherCounted
<1>10. V \subseteq mem.live /\ V \cap E = {}
  BY <1>1, <1>4 DEF Values0, RingOf
<1>11. IsFiniteSet(V) /\ Cardinality(V) \in Nat
  BY <1>4, <1>10, FS_Subset, FS_CardinalityType
<1>12. Cardinality(V \cup E) = Cardinality(V) + Cardinality(E)
  BY <1>9, <1>10, <1>11, TogetherCounted
<1>13. V \cup E \in SUBSET mem.live
  BY <1>4, <1>10
<1>14. Cardinality(V \cup E) <= Cardinality(mem.live)
  BY <1>4, <1>13, FS_Subset
<1>15. Cardinality(V) <= scope.room
  BY <1>2, <1>7, <1>8, <1>9, <1>11, <1>12, <1>14
<1>16. Doubled[Counters] \in Nat
  BY DoubledGrows, ListAssumption
<1> QED
  BY <1>1, <1>2, <1>11, <1>15, <1>16

LEMMA ReadySorted ==
  ASSUME NEW o, NEW E, NEW n, NEW l, Ready(o, E, n, l), NEW e, e = node[l], ~(Length(l) < 2)
  PROVE  \E T, o1 : Sorted(mem, E, o, e, SortedState(mem, e), T, o1)
<1>1. PICK V : V = Values0(mem.live, o, e)
  OBVIOUS
<1>2. /\ Whole(mem, E, o) /\ e \in E /\ n \in Nat /\ n + Counters + 1 <= Cardinality(Nodes)
      /\ Cardinality(mem.live) \in Nat /\ Cardinality(mem.live) <= n
  BY ReadyFacts
<1>3. Length(l) = Cardinality(V) /\ Length(l) \in Nat
  BY <1>1, ReadySizes
<1>4. V # {}
  BY <1>3, FS_EmptySet
<1>5. Cardinality(V) < Doubled[Counters]
  BY <1>1, ValuesFit
<1>6. Cardinality(mem.live) + Counters + 1 <= Cardinality(Nodes)
  <2>1. Counters \in Nat /\ Cardinality(Nodes) \in Nat
    BY ListAssumption, FS_CardinalityType
  <2> QED
    BY <1>2, <2>1
<1>7. Values0(mem.live, o, e) # {} /\ Cardinality(Values0(mem.live, o, e)) < Doubled[Counters]
  BY <1>1, <1>4, <1>5
<1> QED
  BY ONLY <1>2, <1>6, <1>7, SortedStateSorted

(* The end node r of the sorted list takes the place of e.                 *)
Replaced(nd, l, r) == [nd EXCEPT ![l] = r]

Replacing(nd, e, r, nd1) ==
  /\ nd1 \in [Lists -> Pointers] /\ KeptLists(nd1) = KeptLists(nd)
  /\ KeptEnds(nd1) = (KeptEnds(nd) \ {e}) \cup {r}
  /\ \A i, j \in KeptLists(nd1) : nd1[i] = nd1[j] => i = j

LEMMA EndReplaced ==
  ASSUME NEW nd, NEW lk, nd \in [Lists -> Pointers], Separate(nd, lk),
         NEW l \in KeptLists(nd), NEW e, e = nd[l],
         NEW r \in Nodes, r \notin KeptEnds(nd),
         NEW nd1, nd1 = Replaced(nd, l, r)
  PROVE  Replacing(nd, e, r, nd1)
<1>1. l \in Lists /\ nd[l] # Nowhere
  BY DEF KeptLists
<1>2. r # Nowhere
  BY ListAssumption
<1>3. /\ nd1 \in [Lists -> Pointers] /\ nd1[l] = r
      /\ \A j \in Lists : j # l => nd1[j] = nd[j]
  BY <1>1 DEF Pointers, Replaced
<1>4. KeptLists(nd1) = KeptLists(nd)
  BY <1>1, <1>2, <1>3 DEF KeptLists
<1>5. \A j \in KeptLists(nd) : j \in Lists /\ nd[j] \in KeptEnds(nd)
  BY DEF KeptLists, KeptEnds
<1>6. \A i, j \in KeptLists(nd) : nd[i] = nd[j] => i = j
  BY DEF Separate
<1>7. ASSUME NEW i \in KeptLists(nd1), NEW j \in KeptLists(nd1), nd1[i] = nd1[j] PROVE i = j
  BY <1>3, <1>4, <1>5, <1>6, <1>7
<1>8. ASSUME NEW x \in KeptEnds(nd1) PROVE x \in (KeptEnds(nd) \ {e}) \cup {r}
  <2>1. PICK j \in KeptLists(nd) : x = nd1[j]
    BY <1>4 DEF KeptEnds
  <2> QED
    BY <1>3, <1>5, <1>6, <2>1
<1>9. ASSUME NEW x \in (KeptEnds(nd) \ {e}) \cup {r} PROVE x \in KeptEnds(nd1)
  <2>1. CASE x = r
    BY <1>3, <1>4, <2>1 DEF KeptEnds
  <2>2. CASE x # r
    <3>1. PICK j \in KeptLists(nd) : x = nd[j] /\ x # e
      BY <1>9, <2>2 DEF KeptEnds
    <3>2. x = nd1[j] /\ j \in KeptLists(nd1)
      BY <1>3, <1>4, <1>5, <3>1
    <3> QED
      BY <3>2 DEF KeptEnds
  <2> QED
    BY <2>1, <2>2
<1> QED
  BY <1>3, <1>4, <1>7, <1>8, <1>9 DEF Replacing


LEMMA SortedFacts ==
  ASSUME NEW m, NEW E, NEW o, Whole(m, E, o), NEW e \in E, NEW s, NEW T, NEW o1,
         Sorted(m, E, o, e, s, T, o1), NEW D, D = (T \cup {e}) \ {s.list}
  PROVE  /\ s.list \in Nodes /\ s.list \in T /\ T \cap m.live = {} /\ T \subseteq Nodes
         /\ D = Temporaries(s) /\ D \subseteq Nodes /\ D \subseteq E \cup T
         /\ IsFiniteSet(D) /\ Cardinality(D) = Counters + 1
<1>1. /\ s.list \in T /\ T \subseteq Nodes /\ T \cap m.live = {}
      /\ Distinct(s.carry, s.counter, Counters, D)
      /\ s.m.live = m.live \cup T /\ Cardinality(s.m.live) = Cardinality(m.live) + Counters + 1
  BY DEF Sorted
<1>2. D = Temporaries(s)
  BY <1>1 DEF Distinct, Temporaries
<1>3. e \in m.live /\ IsFiniteSet(m.live) /\ Cardinality(m.live) \in Nat /\ m.live \subseteq Nodes
  BY WholeFacts
<1>4. IsFiniteSet(T) /\ Cardinality(T) \in Nat
  BY <1>1, FiniteNodes
<1>5. Cardinality(m.live \cup T) = Cardinality(m.live) + Cardinality(T)
  BY <1>1, <1>3, <1>4, TogetherCounted
<1>6. Counters \in Nat
  BY ListAssumption
<1>7. Cardinality(T) = Counters + 1
  BY <1>1, <1>3, <1>4, <1>5, <1>6
<1>8. e \notin T /\ e # s.list
  BY <1>1, <1>3
<1>9. IsFiniteSet(T \cup {e}) /\ Cardinality(T \cup {e}) = Counters + 2
  <2>1. IsFiniteSet(T \cup {e}) /\ Cardinality(T \cup {e}) = Cardinality(T) + 1
    BY <1>4, <1>8, FS_AddElement
  <2> QED
    BY <1>6, <1>7, <2>1
<1>10. IsFiniteSet(D) /\ Cardinality(D) = Counters + 1
  <2>1. PICK G, x : G = T \cup {e} /\ x = s.list /\ x \in G
    BY <1>1
  <2>2. IsFiniteSet(G) /\ Cardinality(G) = Counters + 2
    BY <1>9, <2>1
  <2>3. IsFiniteSet(G \ {x}) /\ Cardinality(G \ {x}) = Cardinality(G) - 1
    BY <2>1, <2>2, FS_RemoveElement
  <2> QED
    BY <1>6, <2>1, <2>2, <2>3
<1>11. D \subseteq Nodes /\ D \subseteq E \cup T
  BY <1>1, <1>3
<1> QED
  BY <1>1, <1>2, <1>10, <1>11

LEMMA SortKeeps ==
  ASSUME ListInv, NEW l \in Initialised, ListSort(l), UNCHANGED scope
  PROVE  ListInv'
<1>1. PICK o, E, n : Ready(o, E, n, l)
  BY InvReady
<1>2. /\ Fits(mem, node, scope, leaked, o) /\ Fitting(mem, node, scope, leaked, o, E, n)
      /\ l \in KeptLists(node)
  BY <1>1 DEF Ready
<1>3. scope \in Scopes
  BY DEF ListInv
<1>4. CASE Length(l) < 2
  <2>1. mem' = mem /\ node' = node /\ leaked' = leaked
    BY <1>4 DEF ListSort
  <2> QED
    BY <1>2, <1>3, <2>1, Rebuilt
<1>5. CASE ~(Length(l) < 2)
  <2>1. PICK e, s : e = node[l] /\ s = SortedState(mem, e)
    OBVIOUS
  <2>2. PICK r, nd, lk, w : /\ r = s.list /\ nd = [node EXCEPT ![l] = r]
                            /\ lk = leaked \cup Temporaries(s) /\ w = s.m
    OBVIOUS
  <2>3. /\ mem' = w /\ node' = nd /\ leaked' = lk
        /\ Cardinality(leaked) + Counters + 1 <= MaxLeaks
    BY <1>5, <2>1, <2>2 DEF ListSort
  <2>4. PICK T, o1 : Sorted(mem, E, o, e, s, T, o1)
    BY <1>1, <1>5, <2>1, ReadySorted
  <2>5. Whole(mem, E, o) /\ e \in E /\ e \in mem.live
    BY <1>1, <2>1, ReadyFacts
  <2>6. PICK D : D = (T \cup {e}) \ {r}
    OBVIOUS
  <2>7. /\ r \in Nodes /\ r \in T /\ T \cap mem.live = {} /\ T \subseteq Nodes
        /\ D = Temporaries(s) /\ D \subseteq Nodes /\ D \subseteq E \cup T
        /\ IsFiniteSet(D) /\ Cardinality(D) = Counters + 1
    BY <2>2, <2>4, <2>5, <2>6, SortedFacts
  <2>8. /\ Whole(w, E \cup T, o1) /\ w.live = mem.live \cup T
        /\ Cardinality(w.live) = Cardinality(mem.live) + Counters + 1
        /\ Confined(mem, o, w, o1, T \cup {e})
        /\ \A t \in D : Values0(w.live, o1, t) = {}
    BY <2>2, <2>4, <2>6 DEF Sorted
  <2>9. /\ node \in [Lists -> Pointers] /\ KeptLists(node) \subseteq scope.lists
        /\ Separate(node, leaked) /\ leaked \subseteq Nodes
        /\ \A x \in leaked : Values0(mem.live, o, x) = {}
    BY <1>2 DEF Fits
  <2>10. /\ E = KeptEnds(node) \cup leaked
         /\ n = scope.room + Cardinality(KeptLists(node)) + Cardinality(leaked)
         /\ Cardinality(mem.live) \in Nat /\ Cardinality(mem.live) <= n
         /\ scope.room \in Nat /\ Cardinality(KeptLists(node)) \in Nat
         /\ Cardinality(leaked) \in Nat /\ IsFiniteSet(leaked)
    BY <1>2 DEF Fitting, Bound
  <2>11. E \subseteq mem.live
    BY <2>5, WholeFacts
  <2>12. r \notin KeptEnds(node) /\ r \notin leaked
    BY <2>7, <2>10, <2>11
  <2>13. /\ nd \in [Lists -> Pointers] /\ KeptLists(nd) = KeptLists(node)
         /\ KeptEnds(nd) = (KeptEnds(node) \ {e}) \cup {r}
         /\ \A i, j \in KeptLists(nd) : nd[i] = nd[j] => i = j
    <3>1. node \in [Lists -> Pointers] /\ Separate(node, leaked)
      BY <2>9
    <3>2. l \in KeptLists(node) /\ e = node[l] /\ r \in Nodes /\ r \notin KeptEnds(node)
      BY <1>2, <2>1, <2>7, <2>12
    <3>3. nd = Replaced(node, l, r)
      BY <2>2 DEF Replaced
    <3>4. Replacing(node, e, r, nd)
      BY ONLY <3>1, <3>2, <3>3, EndReplaced
    <3> QED
      BY <3>4 DEF Replacing
  <2>14. e \in KeptEnds(node) /\ e \notin leaked
    BY <1>2, <2>1, <2>9 DEF KeptEnds, Separate
  <2>15. D \cap leaked = {} /\ lk = leaked \cup D
    BY <2>2, <2>6, <2>7, <2>10, <2>11, <2>14
  <2>16. IsFiniteSet(lk) /\ Cardinality(lk) = Cardinality(leaked) + Counters + 1
    <3>1. Cardinality(lk) = Cardinality(leaked) + Cardinality(D) /\ IsFiniteSet(lk)
      BY <2>7, <2>10, <2>15, TogetherCounted
    <3>2. Counters \in Nat
      BY ListAssumption
    <3> QED
      BY <2>7, <2>10, <3>1, <3>2
  <2>17. E \cup T = KeptEnds(nd) \cup lk
    BY <2>6, <2>7, <2>10, <2>13, <2>14, <2>15
  <2>18. Separate(nd, lk)
    <3>1. KeptEnds(node) \cap leaked = {}
      BY <2>9 DEF Separate, KeptEnds
    <3>2. KeptEnds(nd) \cap lk = {}
      BY <2>6, <2>7, <2>10, <2>11, <2>12, <2>13, <2>15, <3>1
    <3>3. \A j \in KeptLists(nd) : nd[j] \in KeptEnds(nd)
      BY DEF KeptEnds
    <3>4. \A j \in KeptLists(nd) : nd[j] \notin lk
      BY <3>2, <3>3
    <3> QED
      BY <2>13, <3>4 DEF Separate
  <2>19. Cardinality(w.live) <= Bound(nd, scope, lk) /\ Cardinality(lk) <= MaxLeaks
    <3>1. Counters \in Nat
      BY ListAssumption
    <3>2. Bound(nd, scope, lk) = n + Counters + 1
      BY <2>10, <2>13, <2>16, <3>1 DEF Bound
    <3> QED
      BY <2>3, <2>8, <2>10, <2>16, <3>1, <3>2
  <2>20. ASSUME NEW x \in lk PROVE Values0(w.live, o1, x) = {}
    <3>1. CASE x \in D
      BY <2>8, <3>1
    <3>2. CASE x \notin D
      <4>1. x \in leaked
        BY <2>15, <2>20, <3>2
      <4>2. x \notin T \cup {e}
        BY <2>7, <2>10, <2>11, <2>14, <4>1
      <4>3. Values0(w.live, o1, x) \subseteq Values0(mem.live, o, x)
        BY <2>8, <4>2 DEF Confined, Values0, RingOf
      <4> QED
        BY <2>9, <4>1, <4>3
    <3> QED
      BY <3>1, <3>2
  <2>21. lk \subseteq Nodes /\ KeptLists(nd) \subseteq scope.lists
    BY <2>7, <2>9, <2>13, <2>15
  <2>22. Fits(w, nd, scope, lk, o1)
    BY <2>8, <2>13, <2>17, <2>18, <2>19, <2>20, <2>21 DEF Fits
  <2> QED
    BY <1>3, <2>3, <2>22, Rebuilt
<1> QED
  BY <1>4, <1>5

LEMMA Sort1Keeps ==
  ASSUME ListInv, NEW l \in Initialised, ListSort1(l), UNCHANGED scope
  PROVE  ListInv'
<1>1. PICK o, E, n : Ready(o, E, n, l)
  BY InvReady
<1>2. /\ Fits(mem, node, scope, leaked, o) /\ Fitting(mem, node, scope, leaked, o, E, n)
      /\ l \in KeptLists(node)
  BY <1>1 DEF Ready
<1>3. scope \in Scopes
  BY DEF ListInv
<1>4. CASE Length(l) < 2
  <2>1. mem' = mem /\ node' = node /\ leaked' = leaked
    BY <1>4 DEF ListSort1
  <2> QED
    BY <1>2, <1>3, <2>1, Rebuilt
<1>5. CASE ~(Length(l) < 2)
  <2>1. PICK e, s : e = node[l] /\ s = SortedState(mem, e)
    OBVIOUS
  <2>2. PICK r, nd, k, w : /\ r = s.list /\ nd = [node EXCEPT ![l] = r]
                           /\ k = s.m /\ w = DestroyAll(s)
    OBVIOUS
  <2>3. mem' = w /\ node' = nd /\ leaked' = leaked
    BY <1>5, <2>1, <2>2 DEF ListSort1
  <2>4. PICK T, o1 : Sorted(mem, E, o, e, s, T, o1)
    BY <1>1, <1>5, <2>1, ReadySorted
  <2>5. Whole(mem, E, o) /\ e \in E /\ e \in mem.live
    BY <1>1, <2>1, ReadyFacts
  <2>6. PICK D, F : D = (T \cup {e}) \ {r} /\ F = E \cup T
    OBVIOUS
  <2>7. /\ r \in Nodes /\ r \in T /\ T \cap mem.live = {} /\ T \subseteq Nodes /\ D \subseteq F
    BY <2>2, <2>4, <2>5, <2>6, SortedFacts
  <2>8. /\ Whole(k, F, o1) /\ s \in SortStates
        /\ Cardinality(k.live) = Cardinality(mem.live) + Counters + 1
        /\ Confined(mem, o, k, o1, T \cup {e})
        /\ Distinct(s.carry, s.counter, Counters, D)
    BY <2>2, <2>4, <2>6 DEF Sorted
  <2>9. PICK o2 : /\ Whole(w, F \ D, o2) /\ Confined(k, o1, w, o2, {})
                  /\ Cardinality(w.live) + Counters + 1 <= Cardinality(k.live)
    BY <2>2, <2>7, <2>8, AllDestroyed
  <2>10. /\ node \in [Lists -> Pointers] /\ KeptLists(node) \subseteq scope.lists
         /\ Separate(node, leaked) /\ leaked \subseteq Nodes /\ Cardinality(leaked) <= MaxLeaks
         /\ \A x \in leaked : Values0(mem.live, o, x) = {}
    BY <1>2 DEF Fits
  <2>11. /\ E = KeptEnds(node) \cup leaked
         /\ n = scope.room + Cardinality(KeptLists(node)) + Cardinality(leaked)
         /\ Cardinality(mem.live) \in Nat /\ Cardinality(mem.live) <= n /\ n \in Nat
    BY <1>2 DEF Fitting, Bound
  <2>12. E \subseteq mem.live
    BY <2>5, WholeFacts
  <2>13. r \notin KeptEnds(node) /\ r \notin leaked
    BY <2>7, <2>11, <2>12
  <2>14. /\ nd \in [Lists -> Pointers] /\ KeptLists(nd) = KeptLists(node)
         /\ KeptEnds(nd) = (KeptEnds(node) \ {e}) \cup {r}
         /\ \A i, j \in KeptLists(nd) : nd[i] = nd[j] => i = j
    <3>1. node \in [Lists -> Pointers] /\ Separate(node, leaked)
      BY <2>10
    <3>2. l \in KeptLists(node) /\ e = node[l] /\ r \in Nodes /\ r \notin KeptEnds(node)
      BY <1>2, <2>1, <2>7, <2>13
    <3>3. nd = Replaced(node, l, r)
      BY <2>2 DEF Replaced
    <3>4. Replacing(node, e, r, nd)
      BY ONLY <3>1, <3>2, <3>3, EndReplaced
    <3> QED
      BY <3>4 DEF Replacing
  <2>15. e \in KeptEnds(node) /\ e \notin leaked
    BY <1>2, <2>1, <2>10 DEF KeptEnds, Separate
  <2>16. F \ D = KeptEnds(nd) \cup leaked
    BY <2>6, <2>7, <2>11, <2>12, <2>13, <2>14, <2>15
  <2>17. Separate(nd, leaked)
    <3>1. KeptEnds(node) \cap leaked = {}
      BY <2>10 DEF Separate, KeptEnds
    <3>2. KeptEnds(nd) \cap leaked = {}
      BY <2>13, <2>14, <3>1
    <3>3. \A j \in KeptLists(nd) : nd[j] \in KeptEnds(nd)
      BY DEF KeptEnds
    <3>4. \A j \in KeptLists(nd) : nd[j] \notin leaked
      BY <3>2, <3>3
    <3> QED
      BY <2>14, <3>4 DEF Separate
  <2>18. Cardinality(w.live) <= Bound(nd, scope, leaked)
    <3>1. Counters \in Nat
      BY ListAssumption
    <3>2. Bound(nd, scope, leaked) = n
      BY <2>11, <2>14 DEF Bound
    <3>3. Cardinality(w.live) \in Nat
      BY <2>9, WholeFacts
    <3> QED
      BY <2>8, <2>9, <2>11, <3>1, <3>2, <3>3
  <2>19. ASSUME NEW x \in leaked PROVE Values0(w.live, o2, x) = {}
    <3>1. x \notin T \cup {e}
      BY <2>7, <2>11, <2>12, <2>15
    <3>2. \A y \in w.live : o2[y] = x => y \in k.live /\ o1[y] = x
      BY <2>9 DEF Confined
    <3>3. \A y \in k.live : o1[y] = x => y \in mem.live /\ o[y] = x
      BY <2>8, <3>1 DEF Confined
    <3>4. Values0(w.live, o2, x) \subseteq Values0(mem.live, o, x)
      BY <3>2, <3>3 DEF Values0, RingOf
    <3> QED
      BY <2>10, <3>4
  <2>20. Whole(w, KeptEnds(nd) \cup leaked, o2) /\ KeptLists(nd) \subseteq scope.lists
    BY <2>9, <2>10, <2>14, <2>16
  <2>21. Fits(w, nd, scope, leaked, o2)
    BY <2>10, <2>14, <2>17, <2>18, <2>19, <2>20 DEF Fits
  <2> QED
    BY <1>3, <2>3, <2>21, Rebuilt
<1> QED
  BY <1>4, <1>5

(***************************************************************************)
(* Every step keeps the invariant.                                         *)
(***************************************************************************)
LEMMA NoListsFit == NoLists => ListInv
<1> SUFFICES ASSUME NoLists PROVE ListInv
  OBVIOUS
<1>1. PICK o : o = [x \in {} |-> x]
  OBVIOUS
<1>2. /\ mem = [next |-> [x \in Nodes |-> Nowhere], prev |-> [x \in Nodes |-> Nowhere],
                data |-> [x \in Nodes |-> Null], live |-> {}]
      /\ node = [l \in Lists |-> Nowhere] /\ scope \in Scopes /\ leaked = {}
  BY DEF NoLists
<1>3. KeptLists(node) = {} /\ KeptEnds(node) = {}
  BY <1>2 DEF KeptLists, KeptEnds
<1>4. mem \in Memories /\ mem.live = {}
  BY <1>2 DEF Memories, Pointers
<1>5. Rings(mem.next, mem.prev, {}, {}, o)
  BY <1>1 DEF Rings, Mutual, Owned, HasEnds
<1>6. Whole(mem, {}, o)
  BY <1>4, <1>5 DEF Whole
<1>7. /\ Cardinality({}) = 0 /\ MaxLeaks \in Nat /\ scope.room \in Nat
  BY <1>2, FS_EmptySet, ListAssumption
<1>8. Cardinality(mem.live) <= Bound(node, scope, leaked) /\ Cardinality(leaked) <= MaxLeaks
  <2>1. Cardinality(mem.live) = 0 /\ Cardinality(leaked) = 0 /\ Cardinality(KeptLists(node)) = 0
    BY <1>2, <1>3, <1>4, <1>7
  <2>2. Bound(node, scope, leaked) = scope.room
    BY <1>7, <2>1 DEF Bound
  <2> QED
    BY <1>7, <2>1, <2>2
<1>9. node \in [Lists -> Pointers] /\ Separate(node, leaked)
  BY <1>2, <1>3 DEF Pointers, Separate
<1>10. Fits(mem, node, scope, leaked, o)
  BY <1>2, <1>3, <1>6, <1>8, <1>9 DEF Fits
<1> QED
  BY <1>2, <1>10 DEF ListInv

LEMMA ListNextKeeps == ListInv /\ [ListNext]_listVars => ListInv'
<1> SUFFICES ASSUME ListInv, [ListNext]_listVars PROVE ListInv'
  OBVIOUS
<1>1. CASE UNCHANGED listVars
  BY <1>1 DEF listVars, ListInv
<1>2. CASE ListNext
  <2>1. UNCHANGED scope
    BY <1>2 DEF ListNext
  <2>2. ASSUME NEW l \in scope.lists, ListInit(l) PROVE ListInv'
    BY <2>1, <2>2, InitKeeps
  <2>3. ASSUME NEW l \in Initialised,
               ListDestroy(l) \/ ListClear(l) \/ ListAssign(l) \/ ListAssign2(l)
        PROVE  ListInv'
    BY <2>1, <2>3, DestroyKeeps, ClearKeeps, AssignKeeps, AssignRangeKeeps
  <2>4. ASSUME NEW l \in Initialised,
               \/ ListInsert(l) \/ ListInsert1(l) \/ ListInsert2(l)
               \/ ListPushBack(l) \/ ListPushFront(l)
        PROVE  ListInv'
    BY <2>1, <2>4, InsertOneKeeps, InsertManyKeeps, InsertRangeKeeps
  <2>5. ASSUME NEW l \in Initialised,
               ListErase(l) \/ ListErase2(l) \/ ListPopBack(l) \/ ListPopFront(l)
        PROVE  ListInv'
    BY <2>1, <2>5, EraseOneKeeps, EraseRangeKeeps
  <2>6. ASSUME NEW l \in Initialised,
               \/ ListResize(l) \/ ListSwap(l) \/ ListMerge(l)
               \/ ListSplice(l) \/ ListSplice1(l) \/ ListSplice2(l)
        PROVE  ListInv'
    BY <2>1, <2>6, ResizeKeeps, SwapKeeps, MergeKeeps, SpliceKeeps
  <2>7. ASSUME NEW l \in Initialised,
               \/ ListRemoveIf(l) \/ ListReverse(l) \/ ListUnique(l) \/ ListUnique1(l)
               \/ ListSort(l) \/ ListSort1(l)
        PROVE  ListInv'
    BY <2>1, <2>7, RearrangeKeeps, SortKeeps, Sort1Keeps
  <2> QED
    BY <1>2, <2>2, <2>3, <2>4, <2>5, <2>6, <2>7 DEF ListNext
<1> QED
  BY <1>1, <1>2

LEMMA InvRings == ListInv => RingsIntact
<1> SUFFICES ASSUME ListInv PROVE RingsIntact
  OBVIOUS
<1>1. PICK o : Fits(mem, node, scope, leaked, o)
  BY DEF ListInv
<1>2. PICK E : E = KeptEnds(node) \cup leaked
  OBVIOUS
<1>3. /\ Whole(mem, E, o) /\ Separate(node, leaked)
      /\ \A x \in leaked : Values0(mem.live, o, x) = {}
  BY <1>1, <1>2 DEF Fits
<1>4. /\ o \in [mem.live -> E] /\ E \subseteq mem.live /\ \A x \in E : o[x] = x
      /\ \A x \in mem.live : mem.prev[mem.next[x]] = x
  BY <1>3, WholeFacts
<1>5. Initialised = KeptLists(node)
  BY DEF Initialised, KeptLists
<1>6. ASSUME NEW l \in Initialised
      PROVE  node[l] \in E /\ NodesIn(l) = RingOf(mem.live, o, node[l])
  <2>1. PICK e, r, nx, S : /\ e = node[l] /\ r = Ring(mem, e)
                           /\ nx = mem.next /\ S = RingOf(mem.live, o, e)
    OBVIOUS
  <2>2. e \in E
    BY <1>2, <1>5, <2>1 DEF KeptEnds
  <2>3. Circle(nx, S, e, r)
    BY <1>3, <2>1, <2>2, RingIsCircle
  <2>4. /\ DOMAIN r = 1..Len(r) /\ \A i \in 1..Len(r) : r[i] \in S
        /\ \A x \in S : \E i \in 1..Len(r) : r[i] = x
    BY <2>3 DEF Circle, Trail
  <2>5. NodesIn(l) = {r[i] : i \in DOMAIN r}
    BY <2>1 DEF NodesIn
  <2>6. NodesIn(l) = S
    BY <2>4, <2>5
  <2> QED
    BY <2>1, <2>2, <2>6
<1>7. \A l \in Initialised : \A x \in NodesIn(l) : mem.prev[mem.next[x]] = x
  BY <1>4, <1>6 DEF RingOf
<1>8. \A l, k \in Initialised : l # k => node[l] # node[k]
  BY <1>3, <1>5 DEF Separate
<1>9. \A l, k \in Initialised : l # k => NodesIn(l) \cap NodesIn(k) = {}
  BY <1>6, <1>8 DEF RingOf
<1>10. ASSUME NEW x \in mem.live, x \notin leaked PROVE x \in UNION {NodesIn(l) : l \in Initialised}
  <2>1. o[x] \in E
    BY <1>4
  <2>2. o[x] \notin leaked
    <3>1. CASE o[x] = x
      BY <1>10, <3>1
    <3>2. CASE o[x] # x
      <4>1. x \in Values0(mem.live, o, o[x])
        BY <3>2 DEF Values0, RingOf
      <4> QED
        BY <1>3, <4>1
    <3> QED
      BY <3>1, <3>2
  <2>3. PICK l \in Initialised : o[x] = node[l]
    BY <1>2, <1>5, <2>1, <2>2 DEF KeptEnds
  <2>4. x \in NodesIn(l)
    BY <1>6, <2>3 DEF RingOf
  <2> QED
    BY <2>4
<1>11. ASSUME NEW l \in Initialised, NEW x \in NodesIn(l) PROVE x \in mem.live /\ x \notin leaked
  <2>1. x \in mem.live /\ o[x] = node[l]
    BY <1>6, <1>11 DEF RingOf
  <2>2. node[l] \notin leaked
    BY <1>3, <1>5 DEF Separate
  <2> QED
    BY <1>2, <1>4, <2>1, <2>2
<1>12. leaked \subseteq mem.live
  BY <1>2, <1>4
<1>13. mem.live = (UNION {NodesIn(l) : l \in Initialised}) \cup leaked
  BY <1>10, <1>11, <1>12
<1>14. leaked \cap UNION {NodesIn(l) : l \in Initialised} = {}
  BY <1>11
<1> QED
  BY <1>7, <1>9, <1>13, <1>14 DEF RingsIntact

(* Whatever sequence of calls a client makes, every list stays a ring      *)
(* whose two directions agree, no node is in two lists, and no node but    *)
(* the end nodes of list_sort is out of reach (list.c, all functions).     *)
THEOREM ListsStayRings == ListSpec => []RingsIntact
<1>1. NoLists => ListInv
  BY NoListsFit
<1>2. ListInv /\ [ListNext]_listVars => ListInv'
  BY ListNextKeeps
<1>3. ListInv => RingsIntact
  BY InvRings
<1> QED
  BY <1>1, <1>2, <1>3, PTL DEF ListSpec
=============================================================================

----------------------------- MODULE HashProofs -----------------------------
(***************************************************************************)
(* The chains of hash.h, for every number of tables, cells, nodes and keys *)
(* and every hash function: proofs about Hash.                             *)
(*                                                                         *)
(* The chains are a family: st[j] is where the chain j begins and p[j] its *)
(* nodes.  HASH_INSERT appends a node to one of them, HASH_DELETE takes    *)
(* one out, and a round of HASH_MIGRATE takes the first node of a chain    *)
(* and appends it to another.                                              *)
(***************************************************************************)
EXTENDS Hash, Lemmas, SequenceTheorems

Distinct(J, p) ==
  \A j, k \in J : \A a \in 1..Len(p[j]), b \in 1..Len(p[k]) :
    p[j][a] = p[k][b] => j = k /\ a = b

Family(name, J, st, p) ==
  /\ name \in [Nodes -> Pointers]
  /\ st \in [J -> Pointers]
  /\ p \in [J -> Seq(Nodes)]
  /\ \A j \in J : Linked(name, st[j], p[j])
  /\ Distinct(J, p)

Outside(x, J, p) == \A j \in J : \A a \in 1..Len(p[j]) : p[j][a] # x

(* Chains that keep their nodes and their links.                           *)
LEMMA StillLinked ==
  ASSUME NEW name, NEW name1, NEW x, NEW s \in Seq(Nodes), Linked(name, x, s),
         \A a \in 1..Len(s) : name1[s[a]] = name[s[a]]
  PROVE  Linked(name1, x, s)
BY DEF Linked

LEMMA NullIsNoNode == Null \notin Nodes /\ Invalid \notin Nodes /\ Null # Invalid
BY HashAssumption

(* The end of a chain.                                                     *)
LEMMA Ends ==
  ASSUME NEW name, NEW x, NEW s \in Seq(Nodes), Linked(name, x, s)
  PROVE  /\ x = Null <=> s = <<>>
         /\ x # Null => x = s[1] /\ Len(s) > 0
         /\ \A a \in 1..Len(s) : name[s[a]] = Null <=> a = Len(s)
<1>1. \A a \in 1..Len(s) : s[a] # Null
  BY NullIsNoNode
<1>2. x = IF 0 < Len(s) THEN s[1] ELSE Null
  BY DEF Linked, Follows
<1>3. Len(s) = 0 <=> s = <<>>
  BY EmptySeq
<1>4. \A a \in 1..Len(s) : name[s[a]] = IF a < Len(s) THEN s[a + 1] ELSE Null
  BY DEF Linked, Follows
<1>5. \A a \in 1..Len(s) : a < Len(s) => a + 1 \in 1..Len(s)
  OBVIOUS
<1> QED
  BY <1>1, <1>2, <1>3, <1>4, <1>5

LEMMA Appended ==
  ASSUME NEW name, NEW J, NEW st, NEW p, Family(name, J, st, p), NEW j \in J,
         NEW x \in Nodes, Outside(x, J, p),
         NEW name1, NEW st1, NEW p1,
         p1 = [p EXCEPT ![j] = Append(p[j], x)],
         \/ /\ st[j] = Null
            /\ name1 = [name EXCEPT ![x] = Null]
            /\ st1 = [st EXCEPT ![j] = x]
         \/ /\ st[j] # Null
            /\ \E e \in 1..Len(p[j]) :
                 e = Len(p[j]) /\ name1 = [[name EXCEPT ![x] = Null] EXCEPT ![p[j][e]] = x]
            /\ st1 = st
  PROVE  Family(name1, J, st1, p1)
<1>1. PICK s \in Seq(Nodes), n \in Nat : s = p[j] /\ n = Len(s)
  BY DEF Family
<1>2. PICK t \in Seq(Nodes) : /\ t = Append(s, x) /\ Len(t) = n + 1 /\ t[n + 1] = x
                              /\ \A a \in 1..n : t[a] = s[a]
  <2>1. PICK t : t = Append(s, x)
    OBVIOUS
  <2>2. /\ t \in Seq(Nodes) /\ Len(t) = Len(s) + 1
        /\ \A a \in 1..Len(s) : t[a] = s[a]
        /\ t[Len(s) + 1] = x
    BY <2>1, AppendProperties
  <2> QED
    BY <1>1, <2>1, <2>2
<1>3. /\ p1[j] = t /\ \A k \in J \ {j} : p1[k] = p[k]
      /\ p1 \in [J -> Seq(Nodes)]
  BY <1>1, <1>2 DEF Family
<1>4. \A a \in 1..n : s[a] # x /\ s[a] \in Nodes
  BY <1>1 DEF Outside
<1>5. /\ name1 \in [Nodes -> Pointers] /\ st1 \in [J -> Pointers]
      /\ name1[x] = Null
      /\ \A y \in Nodes : y # x => (y = s[n] /\ n > 0) \/ name1[y] = name[y]
      /\ n > 0 => name1[s[n]] = x
      /\ \A k \in J : k # j => st1[k] = st[k]
      /\ st1[j] = t[1]
  <2>1. Linked(name, st[j], s)
    BY <1>1 DEF Family
  <2>2. name \in [Nodes -> Pointers] /\ st \in [J -> Pointers] /\ x \in Pointers /\ Null \in Pointers
    BY DEF Family, Pointers
  <2>3. CASE st[j] = Null
    <3>1. n = 0
      BY <1>1, <2>1, <2>3, Ends
    <3> QED
      BY <1>2, <2>2, <2>3, <3>1
  <2>4. CASE st[j] # Null
    <3>1. n > 0 /\ st[j] = s[1]
      BY <1>1, <2>1, <2>4, Ends
    <3>2. n \in 1..n /\ s[n] \in Nodes /\ s[n] # x /\ t[1] = s[1]
      BY <1>2, <1>4, <3>1
    <3>3. name1 = [[name EXCEPT ![x] = Null] EXCEPT ![s[n]] = x] /\ st1 = st
      BY <1>1, <2>4
    <3> QED
      BY <2>2, <3>1, <3>2, <3>3
  <2> QED
    BY <2>3, <2>4
<1>6. ASSUME NEW k \in J PROVE Linked(name1, st1[k], p1[k])
  <2>1. CASE k # j
    <3>1. p[k] \in Seq(Nodes) /\ Linked(name, st[k], p[k]) /\ p1[k] = p[k] /\ st1[k] = st[k]
      BY <1>3, <1>5, <2>1 DEF Family
    <3>2. ASSUME NEW a \in 1..Len(p[k]) PROVE name1[p[k][a]] = name[p[k][a]]
      <4>1. p[k][a] \in Nodes /\ p[k][a] # x
        BY <3>1 DEF Outside
      <4>2. n > 0 => p[k][a] # s[n]
        BY <1>1, <2>1 DEF Family, Distinct
      <4> QED
        BY <1>5, <4>1, <4>2
    <3> QED
      BY <3>1, <3>2, StillLinked
  <2>2. CASE k = j
    <3>1. Linked(name, st[j], s)
      BY <1>1 DEF Family
    <3>2. st1[j] = Follows(t, 0)
      BY <1>2, <1>5 DEF Follows
    <3>3. ASSUME NEW a \in 1..(n + 1) PROVE name1[t[a]] = Follows(t, a)
      <4>1. CASE a = n + 1
        BY <1>2, <1>5, <4>1 DEF Follows
      <4>2. CASE a = n /\ n > 0
        BY <1>2, <1>5, <4>2 DEF Follows
      <4>3. CASE a < n
        <5>1. a \in 1..n /\ a + 1 \in 1..n /\ n \in 1..n
          BY <4>3
        <5>2. name[s[a]] = s[a + 1]
          BY <1>1, <3>1, <4>3, <5>1 DEF Linked, Follows
        <5>3. s[a] # s[n]
          BY <1>1, <4>3, <5>1 DEF Family, Distinct
        <5>4. name1[s[a]] = name[s[a]]
          BY <1>4, <1>5, <5>1, <5>3
        <5> QED
          BY <1>2, <4>3, <5>1, <5>2, <5>4 DEF Follows
      <4> QED
        BY <4>1, <4>2, <4>3
    <3>4. DOMAIN t = 1..(n + 1)
      BY <1>2
    <3>5. Linked(name1, st1[j], t)
      BY <3>2, <3>3, <3>4 DEF Linked
    <3> QED
      BY <1>3, <2>2, <3>5
  <2> QED
    BY <2>1, <2>2
<1>7. Distinct(J, p1)
  <2> SUFFICES ASSUME NEW h \in J, NEW k \in J, NEW a \in 1..Len(p1[h]), NEW b \in 1..Len(p1[k]),
                      p1[h][a] = p1[k][b]
               PROVE  h = k /\ a = b
    BY DEF Distinct
  <2>1. ASSUME NEW i \in J, NEW c \in 1..Len(p1[i])
        PROVE  \/ i = j /\ c = n + 1 /\ p1[i][c] = x
               \/ c \in 1..Len(p[i]) /\ p1[i][c] = p[i][c] /\ p1[i][c] # x
    BY <1>1, <1>2, <1>3 DEF Outside
  <2>2. CASE p1[h][a] = x
    BY <2>1, <2>2
  <2>3. CASE p1[h][a] # x
    <3>1. a \in 1..Len(p[h]) /\ b \in 1..Len(p[k]) /\ p[h][a] = p[k][b]
      BY <2>1, <2>3
    <3> QED
      BY <3>1 DEF Family, Distinct
  <2> QED
    BY <2>2, <2>3
<1> QED
  BY <1>3, <1>5, <1>6, <1>7 DEF Family

(* t is s without its i-th node.                                           *)
Without(t, s, i) ==
  /\ t \in Seq(Nodes) /\ Len(t) = Len(s) - 1
  /\ \A a \in 1..(Len(s) - 1) : t[a] = IF a < i THEN s[a] ELSE s[a + 1]

LEMMA StillDistinct ==
  ASSUME NEW J, NEW p \in [J -> Seq(Nodes)], Distinct(J, p), NEW j \in J, NEW i \in 1..Len(p[j]),
         NEW t, Without(t, p[j], i), NEW p1, p1 = [p EXCEPT ![j] = t]
  PROVE  p1 \in [J -> Seq(Nodes)] /\ Distinct(J, p1) /\ Outside(p[j][i], J, p1)
<1>1. PICK n \in Nat : n = Len(p[j]) /\ n > 0 /\ n = Len(t) + 1
  BY DEF Without
<1>2. /\ p1[j] = t /\ (\A k \in J \ {j} : p1[k] = p[k])
      /\ p1 \in [J -> Seq(Nodes)]
  BY DEF Without
<1>3. ASSUME NEW k \in J, NEW a \in 1..Len(p1[k])
      PROVE  \E c \in 1..Len(p[k]) : /\ p1[k][a] = p[k][c]
                                     /\ k = j => c = IF a < i THEN a ELSE a + 1
                                     /\ k # j => c = a
  <2>1. CASE k # j
    BY <1>2, <2>1
  <2>2. CASE k = j
    <3>1. a \in 1..(n - 1) /\ t[a] = IF a < i THEN p[j][a] ELSE p[j][a + 1]
      BY <1>1, <1>2, <2>2 DEF Without
    <3>2. a \in 1..n /\ a + 1 \in 1..n
      BY <1>1, <3>1
    <3> QED
      BY <1>1, <1>2, <2>2, <3>1, <3>2
  <2> QED
    BY <2>1, <2>2
<1>4. Distinct(J, p1)
  <2> SUFFICES ASSUME NEW h \in J, NEW k \in J, NEW a \in 1..Len(p1[h]), NEW b \in 1..Len(p1[k]),
                      p1[h][a] = p1[k][b]
               PROVE  h = k /\ a = b
    BY DEF Distinct
  <2>1. PICK c \in 1..Len(p[h]) : /\ p1[h][a] = p[h][c]
                                  /\ h = j => c = IF a < i THEN a ELSE a + 1
                                  /\ h # j => c = a
    BY <1>3
  <2>2. PICK d \in 1..Len(p[k]) : /\ p1[k][b] = p[k][d]
                                  /\ k = j => d = IF b < i THEN b ELSE b + 1
                                  /\ k # j => d = b
    BY <1>3
  <2>3. h = k /\ c = d
    BY <2>1, <2>2 DEF Distinct
  <2>4. a \in Nat /\ b \in Nat /\ i \in Nat
    BY <1>2
  <2> QED
    BY <2>1, <2>2, <2>3, <2>4
<1>5. ASSUME NEW k \in J, NEW a \in 1..Len(p1[k]) PROVE p1[k][a] # p[j][i]
  <2>1. PICK c \in 1..Len(p[k]) : /\ p1[k][a] = p[k][c]
                                  /\ k = j => c = IF a < i THEN a ELSE a + 1
                                  /\ k # j => c = a
    BY <1>3
  <2>2. a \in Nat /\ i \in Nat
    BY <1>2
  <2>3. k = j => c # i
    BY <2>1, <2>2
  <2> QED
    BY <2>1, <2>3 DEF Distinct
<1> QED
  BY <1>2, <1>4, <1>5 DEF Outside

(* The first node is taken out.                                            *)
Pops(name, J, st, p, j, t, st1, p1) ==
  /\ Family(name, J, st, p) /\ j \in J /\ st[j] # Null
  /\ Without(t, p[j], 1)
  /\ st1 = [st EXCEPT ![j] = name[st[j]]]
  /\ p1 = [p EXCEPT ![j] = t]

LEMMA Popped ==
  ASSUME NEW name, NEW J, NEW st, NEW p, NEW j, NEW t, NEW st1, NEW p1,
         Pops(name, J, st, p, j, t, st1, p1), NEW x, x = st[j]
  PROVE  /\ x \in Nodes /\ x = p[j][1] /\ Len(p[j]) > 0
         /\ Family(name, J, st1, p1) /\ Outside(x, J, p1)
<1>0. /\ Family(name, J, st, p) /\ j \in J /\ st[j] # Null
      /\ Without(t, p[j], 1)
      /\ st1 = [st EXCEPT ![j] = name[x]]
      /\ p1 = [p EXCEPT ![j] = t]
  BY DEF Pops
<1>1. PICK s \in Seq(Nodes), n \in Nat : s = p[j] /\ n = Len(s)
  BY <1>0 DEF Family
<1>2. Linked(name, x, s)
  BY <1>0, <1>1 DEF Family
<1>3. x = s[1] /\ n > 0 /\ 1 \in 1..n /\ x \in Nodes
  <2>1. x = s[1] /\ Len(s) > 0
    BY <1>0, <1>2, Ends
  <2> QED
    BY <1>0, <1>1, <2>1
<1>4. p1 \in [J -> Seq(Nodes)] /\ Distinct(J, p1) /\ Outside(x, J, p1)
  <2>1. p \in [J -> Seq(Nodes)] /\ Distinct(J, p)
    BY <1>0 DEF Family
  <2>2. 1 \in 1..Len(p[j]) /\ x = p[j][1]
    BY <1>0, <1>1, <1>3
  <2>3. p1 \in [J -> Seq(Nodes)] /\ Distinct(J, p1) /\ Outside(p[j][1], J, p1)
    BY <1>0, <2>1, <2>2, StillDistinct
  <2> QED
    BY <1>0, <2>2, <2>3
<1>5. st1 \in [J -> Pointers] /\ st1[j] = name[x] /\ (\A k \in J \ {j} : st1[k] = st[k])
  BY <1>0, <1>3 DEF Family
<1>6. /\ t \in Seq(Nodes) /\ Len(t) = n - 1 /\ DOMAIN t = 1..(n - 1)
      /\ \A a \in 1..(n - 1) : t[a] = s[a + 1]
  BY <1>0, <1>1, <1>3 DEF Without
<1>7. Linked(name, name[x], t)
  <2>1. name[x] = Follows(t, 0)
    <3>1. name[s[1]] = Follows(s, 1)
      BY <1>0, <1>1, <1>2, <1>3 DEF Linked
    <3> QED
      BY <1>0, <1>1, <1>3, <1>6, <3>1 DEF Follows
  <2>2. ASSUME NEW a \in 1..(n - 1) PROVE name[t[a]] = Follows(t, a)
    <3>1. a + 1 \in 1..n
      BY <1>0, <1>3
    <3>2. name[s[a + 1]] = Follows(s, a + 1)
      BY <1>0, <1>1, <1>2, <3>1 DEF Linked
    <3>3. t[a] = s[a + 1]
      BY <1>0, <1>6
    <3>4. Follows(s, a + 1) = Follows(t, a)
      <4>1. CASE a < n - 1
        BY <1>0, <1>1, <1>6, <3>1, <4>1 DEF Follows
      <4>2. CASE ~ a < n - 1
        BY <1>0, <1>1, <1>6, <3>1, <4>2 DEF Follows
      <4> QED
        BY <1>0, <4>1, <4>2
    <3> QED
      BY <1>0, <3>2, <3>3, <3>4
  <2> QED
    BY <1>0, <1>6, <2>1, <2>2 DEF Linked
<1>8. ASSUME NEW k \in J PROVE Linked(name, st1[k], p1[k])
  <2>1. CASE k = j
    BY <1>0, <1>5, <1>7, <2>1 DEF Family
  <2>2. CASE k # j
    BY <1>0, <1>5, <2>2 DEF Family
  <2> QED
    BY <1>0, <2>1, <2>2
<1> QED
  BY <1>0, <1>1, <1>3, <1>4, <1>5, <1>8 DEF Family

(* The node behind the e-th is taken out.                                  *)
LEMMA Unlinked ==
  ASSUME NEW name, NEW J, NEW st, NEW p, Family(name, J, st, p), NEW j \in J,
         NEW e \in Nat \ {0}, e + 1 <= Len(p[j]), NEW t, Without(t, p[j], e + 1),
         NEW name1, name1 = [name EXCEPT ![p[j][e]] = name[p[j][e + 1]]],
         NEW p1, p1 = [p EXCEPT ![j] = t]
  PROVE  Family(name1, J, st, p1) /\ Outside(p[j][e + 1], J, p1)
<1>1. PICK s \in Seq(Nodes), n \in Nat : s = p[j] /\ n = Len(s)
  BY DEF Family
<1>2. Linked(name, st[j], s) /\ e \in 1..n /\ e + 1 \in 1..n
  BY <1>1 DEF Family
<1>3. p1 \in [J -> Seq(Nodes)] /\ Distinct(J, p1) /\ Outside(p[j][e + 1], J, p1)
  <2>1. p \in [J -> Seq(Nodes)] /\ Distinct(J, p)
    BY DEF Family
  <2> QED
    BY <1>1, <1>2, <2>1, StillDistinct
<1>4. /\ t \in Seq(Nodes) /\ Len(t) = n - 1 /\ DOMAIN t = 1..(n - 1)
      /\ \A a \in 1..(n - 1) : t[a] = IF a < e + 1 THEN s[a] ELSE s[a + 1]
  BY <1>1, <1>2 DEF Without
<1>5. /\ name1 \in [Nodes -> Pointers] /\ name1[s[e]] = name[s[e + 1]]
      /\ \A y \in Nodes : y # s[e] => name1[y] = name[y]
  <2>1. s[e] \in Nodes /\ s[e + 1] \in Nodes /\ name \in [Nodes -> Pointers]
    BY <1>2, <1>1 DEF Family
  <2> QED
    BY <1>1, <2>1
<1>6. Linked(name1, st[j], t)
  <2>1. st[j] = Follows(t, 0)
    <3>1. st[j] = Follows(s, 0)
      BY <1>2 DEF Linked
    <3>2. st[j] = s[1] /\ 1 \in 1..(n - 1)
      BY <1>1, <1>2, <3>1 DEF Follows
    <3>3. t[1] = s[1] /\ 0 < Len(t)
      <4>1. t[1] = IF 1 < e + 1 THEN s[1] ELSE s[1 + 1]
        BY <1>4, <3>2
      <4>2. 1 < e + 1 /\ 0 < n - 1
        BY <1>2, <3>2
      <4> QED
        BY <1>4, <4>1, <4>2
    <3> QED
      BY <3>2, <3>3 DEF Follows
  <2>2. ASSUME NEW a \in 1..(n - 1) PROVE name1[t[a]] = Follows(t, a)
    <3>1. a \in 1..n /\ a + 1 \in 1..n
      BY <1>2
    <3>2. \A b \in 1..n : name[s[b]] = IF b < n THEN s[b + 1] ELSE Null
      BY <1>1, <1>2 DEF Linked, Follows
    <3>3. \A b, c \in 1..n : s[b] = s[c] => b = c
      BY <1>1 DEF Family, Distinct
    <3>4. CASE a = e
      <4>1. name1[t[a]] = name[s[a + 1]]
        BY <1>2, <1>4, <1>5, <3>4
      <4>2. name[s[a + 1]] = IF a + 1 < n THEN s[(a + 1) + 1] ELSE Null
        BY <3>1, <3>2
      <4>3. Follows(t, a) = IF a < n - 1 THEN t[a + 1] ELSE Null
        BY <1>4 DEF Follows
      <4>4. a < n - 1 => t[a + 1] = s[(a + 1) + 1]
        BY <1>2, <1>4, <3>1, <3>4
      <4> QED
        BY <3>1, <4>1, <4>2, <4>3, <4>4
    <3>5. CASE a < e
      <4>1. t[a] = s[a] /\ a < n - 1 /\ a < n /\ t[a + 1] = s[a + 1]
        BY <1>2, <1>4, <3>1, <3>5
      <4>2. s[a] # s[e] /\ s[a] \in Nodes
        BY <1>1, <1>2, <3>1, <3>3, <3>5
      <4>3. name1[t[a]] = name[s[a]] /\ name[s[a]] = s[a + 1]
        BY <1>5, <3>1, <3>2, <4>1, <4>2
      <4>4. Follows(t, a) = t[a + 1]
        BY <1>4, <4>1 DEF Follows
      <4> QED
        BY <4>1, <4>3, <4>4
    <3>6. CASE a > e
      <4>1. t[a] = s[a + 1]
        BY <1>2, <1>4, <3>1, <3>6
      <4>2. s[a + 1] # s[e] /\ s[a + 1] \in Nodes
        BY <1>1, <1>2, <3>1, <3>3, <3>6
      <4>3. name1[t[a]] = IF a + 1 < n THEN s[(a + 1) + 1] ELSE Null
        BY <1>5, <3>1, <3>2, <4>1, <4>2
      <4>4. Follows(t, a) = IF a < n - 1 THEN t[a + 1] ELSE Null
        BY <1>4 DEF Follows
      <4>5. a < n - 1 => t[a + 1] = s[(a + 1) + 1]
        BY <1>2, <1>4, <3>1, <3>6
      <4> QED
        BY <3>1, <4>3, <4>4, <4>5
    <3> QED
      BY <1>2, <3>4, <3>5, <3>6
  <2> QED
    BY <1>4, <2>1, <2>2 DEF Linked
<1>7. ASSUME NEW k \in J PROVE Linked(name1, st[k], p1[k])
  <2>1. CASE k = j
    BY <1>6, <2>1 DEF Family
  <2>2. CASE k # j
    <3>1. p[k] \in Seq(Nodes) /\ Linked(name, st[k], p[k]) /\ p1[k] = p[k]
      BY <2>2 DEF Family
    <3>2. ASSUME NEW a \in 1..Len(p[k]) PROVE name1[p[k][a]] = name[p[k][a]]
      BY <1>1, <1>2, <1>5, <2>2, <3>1 DEF Family, Distinct
    <3>3. Linked(name1, st[k], p[k])
      <4>1. PICK r \in Seq(Nodes) : r = p[k]
        BY <3>1
      <4>2. PICK y, f, g : y = st[k] /\ f = name /\ g = name1
        OBVIOUS
      <4>3. Linked(f, y, r)
        BY <3>1, <4>1, <4>2
      <4>4. \A a \in 1..Len(r) : g[r[a]] = f[r[a]]
        BY <3>2, <4>1, <4>2
      <4>5. Linked(g, y, r)
        BY <4>3, <4>4, StillLinked
      <4> QED
        BY <4>1, <4>2, <4>5
    <3> QED
      BY <3>1, <3>3
  <2> QED
    BY <2>1, <2>2
<1> QED
  BY <1>3, <1>5, <1>7 DEF Family

(* The link of a node that is in no chain.                                 *)
LEMMA Invalidated ==
  ASSUME NEW name, NEW J, NEW st, NEW p, Family(name, J, st, p), NEW x \in Nodes,
         Outside(x, J, p), NEW v \in Pointers, NEW name1, name1 = [name EXCEPT ![x] = v]
  PROVE  Family(name1, J, st, p)
<1>1. name1 \in [Nodes -> Pointers] /\ \A y \in Nodes \ {x} : name1[y] = name[y]
  BY DEF Family
<1>2. ASSUME NEW k \in J PROVE Linked(name1, st[k], p[k])
  <2>1. p[k] \in Seq(Nodes) /\ Linked(name, st[k], p[k])
    BY DEF Family
  <2>2. ASSUME NEW a \in 1..Len(p[k]) PROVE name1[p[k][a]] = name[p[k][a]]
    BY <1>1, <2>1 DEF Outside
  <2> QED
    BY <2>1, <2>2, StillLinked
<1> QED
  BY <1>1, <1>2 DEF Family

-----------------------------------------------------------------------------
(***************************************************************************)
(* The loops: what they find when the chain they follow is s.              *)
(***************************************************************************)
Walks(w, step, x) ==
  w = [i \in 0..Cardinality(Nodes) |-> IF i = 0 THEN x ELSE step[w[i - 1]]]

LEMMA CountOfNodes == Cardinality(Nodes) \in Nat
BY HashAssumption, FS_CardinalityType

LEMMA WalkIs ==
  ASSUME NEW w, NEW step, NEW x, Walks(w, step, x)
  PROVE  Walk(step, x) = w
<1>1. PICK n \in Nat : n = Cardinality(Nodes)
  BY CountOfNodes
<1> DEFINE Is(f) == f = [i \in 0..n |-> IF i = 0 THEN x ELSE step[f[i - 1]]]
<1>2. Is(w)
  BY <1>1 DEF Walks
<1>3. Walk(step, x) = CHOOSE f : Is(f)
  BY <1>1 DEF Walk
<1>4. Is(Walk(step, x))
  BY <1>2, <1>3
<1>5. PICK f : f = Walk(step, x)
  OBVIOUS
<1>6. f = [i \in 0..n |-> IF i = 0 THEN x ELSE step[f[i - 1]]]
  BY <1>4, <1>5
<1>7. w = [i \in 0..n |-> IF i = 0 THEN x ELSE step[w[i - 1]]]
  BY <1>2
<1> DEFINE U == {i \in Nat : i <= n => f[i] = w[i]}
<1>8. 0 \in U
  BY <1>6, <1>7
<1>9. \A i \in Nat : i \in U => i + 1 \in U
  <2> SUFFICES ASSUME NEW i \in Nat, f[i] = w[i], i + 1 <= n PROVE f[i + 1] = w[i + 1]
    OBVIOUS
  <2>1. i + 1 \in 0..n /\ i + 1 # 0 /\ (i + 1) - 1 = i
    OBVIOUS
  <2>2. f[i + 1] = step[f[i]]
    BY <1>6, <2>1
  <2>3. w[i + 1] = step[w[i]]
    BY <1>7, <2>1
  <2> QED
    BY <2>2, <2>3
<1>10. \A i \in Nat : i \in U
  <2> HIDE DEF U
  <2> QED
    BY <1>8, <1>9, AllNaturals
<1>11. \A i \in 0..n : f[i] = w[i]
  BY <1>10
<1> QED
  BY <1>5, <1>6, <1>7, <1>11

Once(s) == \A a, b \in 1..Len(s) : s[a] = s[b] => a = b

LEMMA NodesEnough ==
  ASSUME NEW s \in Seq(Nodes), Once(s)
  PROVE  Len(s) <= Cardinality(Nodes)
<1>1. PICK n \in Nat : n = Len(s)
  OBVIOUS
<1>2. IsFiniteSet(1..n) /\ Cardinality(1..n) = n
  <2>1. n - 1 + 1 = n /\ 1 \in Int /\ n \in Int
    OBVIOUS
  <2>2. IsFiniteSet(1..n) /\ Cardinality(1..n) = IF 1 > n THEN 0 ELSE n - 1 + 1
    BY <2>1, FS_Interval
  <2> QED
    BY <2>1, <2>2
<1>3. PICK f : f = [a \in 1..n |-> s[a]]
  OBVIOUS
<1>4. f \in Injection(1..n, Nodes)
  <2>1. f \in [1..n -> Nodes] /\ \A a, b \in 1..n : f[a] = f[b] => a = b
    BY <1>1, <1>3 DEF Once
  <2> QED
    BY <2>1 DEF Injection, IsInjective
<1> QED
  BY <1>1, <1>2, <1>4, HashAssumption, FS_Injection

(* A step along a chain.                                                   *)
LEMMA FollowsOn ==
  ASSUME NEW name, NEW x, NEW s \in Seq(Nodes), Linked(name, x, s), NEW a \in 0..Len(s)
  PROVE  /\ Follows(s, a) \in Pointers
         /\ a < Len(s) => Follows(s, a) = s[a + 1] /\ name[Follows(s, a)] = Follows(s, a + 1)
         /\ a = Len(s) => Follows(s, a) = Null
<1>1. CASE a = Len(s)
  BY <1>1 DEF Follows, Pointers
<1>2. CASE a < Len(s)
  <2>1. a + 1 \in 1..Len(s) /\ a + 1 \in DOMAIN s /\ s[a + 1] \in Nodes
    BY <1>2
  <2> QED
    BY <1>2, <2>1 DEF Follows, Pointers, Linked
<1> QED
  BY <1>1, <1>2

LEMMA UntilFinds ==
  ASSUME NEW m, NEW x, NEW s \in Seq(Nodes), Linked(m.name, x, s), Once(s), NEW S,
         NEW e \in 0..Len(s), Follows(s, e) \in S,
         \A a \in 0..(e - 1) : Follows(s, a) \notin S
  PROVE  Until(m, x, S) = Follows(s, e)
<1>1. PICK n \in Nat : n = Cardinality(Nodes) /\ Len(s) <= n
  BY CountOfNodes, NodesEnough
<1>2. PICK step : step = [y \in Pointers |-> IF y \in S THEN y ELSE m.name[y]]
  OBVIOUS
<1>3. PICK w : w = [i \in 0..n |-> Follows(s, IF i < e THEN i ELSE e)]
  OBVIOUS
<1>4. ASSUME NEW i \in 0..n PROVE w[i] = IF i = 0 THEN x ELSE step[w[i - 1]]
  <2>1. CASE i = 0
    <3>1. w[0] = Follows(s, 0)
      BY <1>3
    <3> QED
      BY <2>1, <3>1 DEF Linked
  <2>2. CASE i # 0 /\ i - 1 < e
    <3>1. i - 1 \in 0..n /\ i - 1 \in 0..(e - 1) /\ i - 1 \in 0..Len(s) /\ i - 1 < Len(s)
      BY <2>2
    <3>2. w[i - 1] = Follows(s, i - 1)
      BY <1>3, <2>2, <3>1
    <3>3. w[i] = Follows(s, i)
      BY <1>3, <2>2
    <3>4. /\ Follows(s, i - 1) \in Pointers
          /\ m.name[Follows(s, i - 1)] = Follows(s, (i - 1) + 1)
      BY <3>1, FollowsOn
    <3>5. (i - 1) + 1 = i
      OBVIOUS
    <3> QED
      BY <1>2, <2>2, <3>1, <3>2, <3>3, <3>4, <3>5
  <2>3. CASE i # 0 /\ ~ i - 1 < e
    <3>1. i - 1 \in 0..n /\ ~ i < e
      BY <2>3
    <3>2. w[i - 1] = Follows(s, e) /\ w[i] = Follows(s, e)
      BY <1>3, <2>3, <3>1
    <3>3. Follows(s, e) \in Pointers
      BY FollowsOn
    <3> QED
      BY <1>2, <2>3, <3>2, <3>3
  <2> QED
    BY <2>1, <2>2, <2>3
<1>5. Walks(w, step, x)
  <2>1. w = [i \in 0..n |-> w[i]]
    BY <1>3
  <2>2. w = [i \in 0..n |-> IF i = 0 THEN x ELSE step[w[i - 1]]]
    BY <1>4, <2>1
  <2> QED
    BY <1>1, <2>2 DEF Walks
<1>6. Until(m, x, S) = w[n]
  BY <1>1, <1>2, <1>5, WalkIs DEF Until
<1>7. n \in 0..n /\ ~ n < e
  BY <1>1
<1> QED
  BY <1>3, <1>6, <1>7

LEMMA ChainIs ==
  ASSUME NEW m, NEW x, NEW s \in Seq(Nodes), Linked(m.name, x, s), Once(s)
  PROVE  Chain(m, x) = s
<1>1. PICK n \in Nat, l \in Nat : n = Cardinality(Nodes) /\ l = Len(s) /\ l <= n
  BY CountOfNodes, NodesEnough
<1>2. PICK longer :
        longer = [t \in Seq(Nodes) |->
                    LET y == IF t = <<>> THEN x ELSE m.name[t[Len(t)]]
                    IN  IF y \in Nodes \ Members(t) THEN Append(t, y) ELSE t]
  OBVIOUS
<1>3. PICK w : w = [i \in 0..n |-> SubSeq(s, 1, IF i < l THEN i ELSE l)]
  OBVIOUS
<1>4. ASSUME NEW a \in 0..l
      PROVE  /\ SubSeq(s, 1, a) \in Seq(Nodes) /\ Len(SubSeq(s, 1, a)) = a
             /\ \A b \in 1..a : SubSeq(s, 1, a)[b] = s[b]
  <2>1. \A b \in 1..a : s[b] \in Nodes
    BY <1>1
  <2> QED
    BY <1>1, <2>1, SubSeqProperties
<1>5. ASSUME NEW a \in 0..l
      PROVE  longer[SubSeq(s, 1, a)] = SubSeq(s, 1, IF a < l THEN a + 1 ELSE l)
  <2>1. PICK t \in Seq(Nodes) : /\ t = SubSeq(s, 1, a) /\ Len(t) = a
                                /\ \A b \in 1..a : t[b] = s[b]
    BY <1>4
  <2>2. PICK y : y = IF t = <<>> THEN x ELSE m.name[t[Len(t)]]
    OBVIOUS
  <2>3. y = Follows(s, a)
    <3>1. CASE a = 0
      <4>1. t = <<>>
        BY <2>1, <3>1, EmptySeq
      <4> QED
        BY <2>2, <3>1, <4>1 DEF Linked
    <3>2. CASE a # 0
      <4>1. t # <<>> /\ t[Len(t)] = s[a] /\ a \in DOMAIN s
        BY <1>1, <2>1, <3>2
      <4> QED
        BY <2>2, <4>1 DEF Linked
    <3> QED
      BY <3>1, <3>2
  <2>4. longer[t] = IF y \in Nodes \ Members(t) THEN Append(t, y) ELSE t
    BY <1>2, <2>1, <2>2
  <2>5. CASE a < l
    <3>1. a + 1 \in 1..l /\ y = s[a + 1] /\ y \in Nodes
      BY <1>1, <2>3, <2>5 DEF Follows
    <3>2. y \notin Members(t)
      <4>1. \A b \in 1..a : b \in 1..l /\ b # a + 1
        BY <2>5
      <4>2. DOMAIN t = 1..a
        BY <2>1
      <4> QED
        BY <1>1, <2>1, <3>1, <4>1, <4>2 DEF Members, Once
    <3>3. PICK r, q : r = Append(t, y) /\ q = SubSeq(s, 1, a + 1)
      OBVIOUS
    <3>4. r \in Seq(Nodes) /\ Len(r) = a + 1 /\ (\A b \in 1..a : r[b] = s[b]) /\ r[a + 1] = s[a + 1]
      <4>1. /\ r \in Seq(Nodes) /\ Len(r) = Len(t) + 1
            /\ \A b \in 1..Len(t) : r[b] = t[b]
            /\ r[Len(t) + 1] = y
        BY <2>1, <3>1, <3>3, AppendProperties
      <4> QED
        BY <2>1, <3>1, <4>1
    <3>5. q \in Seq(Nodes) /\ Len(q) = a + 1 /\ \A b \in 1..(a + 1) : q[b] = s[b]
      BY <1>1, <1>4, <3>1, <3>3
    <3>6. r = q
      <4>1. \A b \in 1..(a + 1) : r[b] = q[b]
        BY <3>4, <3>5
      <4> QED
        BY <3>4, <3>5, <4>1, SeqEqual
    <3> QED
      BY <2>1, <2>4, <2>5, <3>1, <3>2, <3>3, <3>6
  <2>6. CASE a = l
    <3>1. y = Null /\ y \notin Nodes
      BY <1>1, <2>3, <2>6, NullIsNoNode DEF Follows
    <3> QED
      BY <2>1, <2>4, <2>6, <3>1
  <2> QED
    BY <2>5, <2>6
<1>6. ASSUME NEW i \in 0..n PROVE w[i] = IF i = 0 THEN <<>> ELSE longer[w[i - 1]]
  <2>1. CASE i = 0
    <3>1. w[0] = SubSeq(s, 1, 0)
      BY <1>1, <1>3
    <3>2. SubSeq(s, 1, 0) \in Seq(Nodes) /\ Len(SubSeq(s, 1, 0)) = 0
      BY <1>1, <1>4
    <3> QED
      BY <2>1, <3>1, <3>2, EmptySeq
  <2>2. CASE i # 0
    <3>1. PICK a \in 0..l : a = IF i - 1 < l THEN i - 1 ELSE l
      BY <1>1, <2>2
    <3>2. i - 1 \in 0..n /\ w[i - 1] = SubSeq(s, 1, a)
      BY <1>3, <2>2, <3>1
    <3>3. (IF i < l THEN i ELSE l) = IF a < l THEN a + 1 ELSE l
      BY <1>1, <3>1
    <3>4. w[i] = SubSeq(s, 1, IF a < l THEN a + 1 ELSE l)
      BY <1>3, <3>3
    <3> QED
      BY <1>5, <2>2, <3>2, <3>4
  <2> QED
    BY <2>1, <2>2
<1>7. Walks(w, longer, <<>>)
  <2>1. w = [i \in 0..n |-> w[i]]
    BY <1>3
  <2>2. w = [i \in 0..n |-> IF i = 0 THEN <<>> ELSE longer[w[i - 1]]]
    BY <1>6, <2>1
  <2> QED
    BY <1>1, <2>2 DEF Walks
<1>8. Chain(m, x) = w[n]
  BY <1>1, <1>2, <1>7, WalkIs DEF Chain
<1>9. w[n] = SubSeq(s, 1, l)
  BY <1>1, <1>3
<1>10. SubSeq(s, 1, l) = s
  <2>1. PICK q : q = SubSeq(s, 1, l)
    OBVIOUS
  <2>2. q \in Seq(Nodes) /\ Len(q) = Len(s) /\ \A b \in 1..Len(s) : q[b] = s[b]
    BY <1>1, <1>4, <2>1
  <2> QED
    BY <2>1, <2>2, SeqEqual
<1> QED
  BY <1>8, <1>9, <1>10

-----------------------------------------------------------------------------
(***************************************************************************)
(* The nodes of a chain with one key.                                      *)
(***************************************************************************)
Selects(f, n, s, k) ==
  f = [i \in 0..n |-> IF i = 0 THEN <<>>
                      ELSE IF KeyOf[s[i]] = k THEN Append(f[i - 1], s[i]) ELSE f[i - 1]]

LEMMA SelectionExists ==
  ASSUME NEW s, NEW k
  PROVE  \A n \in Nat : \E f : Selects(f, n, s, k)
<1> DEFINE U == {n \in Nat : \E f : Selects(f, n, s, k)}
<1>1. 0 \in U
  <2>1. PICK f : f = [i \in 0..0 |-> <<>>]
    OBVIOUS
  <2>2. f = [i \in 0..0 |-> IF i = 0 THEN <<>>
               ELSE IF KeyOf[s[i]] = k THEN Append(f[i - 1], s[i]) ELSE f[i - 1]]
    BY <2>1
  <2> QED
    BY <2>2 DEF Selects
<1>2. \A n \in Nat : n \in U => n + 1 \in U
  <2> SUFFICES ASSUME NEW n \in Nat, NEW f, Selects(f, n, s, k)
               PROVE  \E g : Selects(g, n + 1, s, k)
    OBVIOUS
  <2> DEFINE Last == IF KeyOf[s[n + 1]] = k THEN Append(f[n], s[n + 1]) ELSE f[n]
  <2>1. PICK g : g = [i \in 0..(n + 1) |-> IF i = n + 1 THEN Last ELSE f[i]]
    OBVIOUS
  <2>2. ASSUME NEW i \in 0..(n + 1)
        PROVE  g[i] = IF i = 0 THEN <<>>
                      ELSE IF KeyOf[s[i]] = k THEN Append(g[i - 1], s[i]) ELSE g[i - 1]
    <3>1. CASE i = n + 1
      <4>1. n \in 0..(n + 1) /\ n # n + 1 /\ i - 1 = n /\ i # 0
        BY <3>1
      <4>2. g[n] = f[n] /\ g[i] = Last
        BY <2>1, <3>1, <4>1
      <4> QED
        BY <3>1, <4>1, <4>2
    <3>2. CASE i # n + 1
      <4>1. i \in 0..n
        BY <3>2
      <4>2. g[i] = f[i]
        BY <2>1, <3>2
      <4>3. i # 0 => i - 1 \in 0..(n + 1) /\ i - 1 # n + 1
        BY <4>1
      <4>4. i # 0 => g[i - 1] = f[i - 1]
        BY <2>1, <4>3
      <4>5. f[i] = IF i = 0 THEN <<>>
                   ELSE IF KeyOf[s[i]] = k THEN Append(f[i - 1], s[i]) ELSE f[i - 1]
        BY <4>1 DEF Selects
      <4> QED
        BY <4>2, <4>4, <4>5
    <3> QED
      BY <3>1, <3>2
  <2>3. g = [i \in 0..(n + 1) |-> g[i]]
    BY <2>1
  <2> QED
    BY <2>2, <2>3 DEF Selects
<1> HIDE DEF U
<1>3. \A n \in Nat : n \in U
  BY <1>1, <1>2, AllNaturals
<1> QED
  BY <1>3 DEF U

LEMMA SelectionIs ==
  ASSUME NEW s \in Seq(Nodes), NEW k
  PROVE  \E f : Selects(f, Len(s), s, k) /\ WithKey(s, k) = f[Len(s)]
<1> DEFINE Is(f) == Selects(f, Len(s), s, k)
           g == CHOOSE f : Is(f)
<1>1. Len(s) \in Nat
  OBVIOUS
<1>2. Is(g)
  <2>1. \E f : Is(f)
    BY <1>1, SelectionExists
  <2> QED
    BY <2>1
<1>3. WithKey(s, k) = g[Len(s)]
  BY DEF WithKey, Selects
<1> QED
  BY <1>2, <1>3

LEMMA SelectionsAgree ==
  ASSUME NEW s, NEW r, NEW k, NEW n \in Nat, NEW m \in Nat, NEW f, NEW g,
         Selects(f, n, s, k), Selects(g, m, r, k), n <= m, \A i \in 1..n : s[i] = r[i]
  PROVE  f[n] = g[n]
<1> DEFINE U == {i \in Nat : i <= n => f[i] = g[i]}
<1>1. 0 \in U
  BY DEF Selects
<1>2. \A i \in Nat : i \in U => i + 1 \in U
  <2> SUFFICES ASSUME NEW i \in Nat, f[i] = g[i], i + 1 <= n PROVE f[i + 1] = g[i + 1]
    OBVIOUS
  <2>1. i + 1 \in 0..n /\ i + 1 \in 0..m /\ i + 1 # 0 /\ (i + 1) - 1 = i /\ s[i + 1] = r[i + 1]
    OBVIOUS
  <2>2. f[i + 1] = IF KeyOf[s[i + 1]] = k THEN Append(f[i], s[i + 1]) ELSE f[i]
    <3>1. f = [h \in 0..n |-> IF h = 0 THEN <<>>
                 ELSE IF KeyOf[s[h]] = k THEN Append(f[h - 1], s[h]) ELSE f[h - 1]]
      BY DEF Selects
    <3> QED
      BY <2>1, <3>1
  <2>3. g[i + 1] = IF KeyOf[r[i + 1]] = k THEN Append(g[i], r[i + 1]) ELSE g[i]
    <3>1. g = [h \in 0..m |-> IF h = 0 THEN <<>>
                 ELSE IF KeyOf[r[h]] = k THEN Append(g[h - 1], r[h]) ELSE g[h - 1]]
      BY DEF Selects
    <3> QED
      BY <2>1, <3>1
  <2> QED
    BY <2>1, <2>2, <2>3
<1> HIDE DEF U
<1>3. \A i \in Nat : i \in U
  BY <1>1, <1>2, AllNaturals
<1> QED
  BY <1>3 DEF U

LEMMA WithKeyOfNone == ASSUME NEW k PROVE WithKey(<<>>, k) = <<>>
<1>1. <<>> \in Seq(Nodes) /\ Len(<<>>) = 0
  BY EmptySeq
<1>2. PICK f : Selects(f, 0, <<>>, k) /\ WithKey(<<>>, k) = f[0]
  BY <1>1, SelectionIs
<1> QED
  BY <1>2 DEF Selects

LEMMA WithKeyAppended ==
  ASSUME NEW s \in Seq(Nodes), NEW x \in Nodes, NEW k
  PROVE  WithKey(Append(s, x), k)
           = IF KeyOf[x] = k THEN Append(WithKey(s, k), x) ELSE WithKey(s, k)
<1>1. PICK n \in Nat, r \in Seq(Nodes) :
        /\ n = Len(s) /\ r = Append(s, x) /\ Len(r) = n + 1
        /\ \A i \in 1..n : r[i] = s[i]
        /\ r[n + 1] = x
  <2>0. PICK n \in Nat : n = Len(s)
    OBVIOUS
  <2>1. PICK r : r = Append(s, x)
    OBVIOUS
  <2>2. /\ r \in Seq(Nodes) /\ Len(r) = Len(s) + 1
        /\ \A i \in 1..Len(s) : r[i] = s[i]
        /\ r[Len(s) + 1] = x
    BY <2>1, AppendProperties
  <2> QED
    BY <2>0, <2>1, <2>2
<1>2. PICK f : Selects(f, n, s, k) /\ WithKey(s, k) = f[n]
  BY <1>1, SelectionIs
<1>3. PICK g : Selects(g, n + 1, r, k) /\ WithKey(r, k) = g[n + 1]
  BY <1>1, SelectionIs
<1>4. f[n] = g[n]
  <2>1. n + 1 \in Nat /\ n <= n + 1 /\ \A i \in 1..n : s[i] = r[i]
    BY <1>1
  <2> QED
    BY <1>2, <1>3, <2>1, SelectionsAgree
<1>5. n + 1 \in 0..(n + 1) /\ n + 1 # 0 /\ (n + 1) - 1 = n
  OBVIOUS
<1>6. g[n + 1] = IF KeyOf[r[n + 1]] = k THEN Append(g[n], r[n + 1]) ELSE g[n]
  BY <1>3, <1>5 DEF Selects
<1> QED
  BY <1>1, <1>2, <1>3, <1>4, <1>6

(* The nodes of the selection are those of the chain that have the key.    *)
Selection(q, s, k) ==
  /\ q \in Seq(Nodes)
  /\ \A d \in 1..Len(q) : KeyOf[q[d]] = k /\ \E a \in 1..Len(s) : s[a] = q[d]
  /\ \A a \in 1..Len(s) : KeyOf[s[a]] = k => \E d \in 1..Len(q) : q[d] = s[a]

(* r is t and behind it x.                                                 *)
LongerBy(r, t, n, x) ==
  /\ Len(t) = n /\ Len(r) = n + 1
  /\ \A i \in 1..n : r[i] = t[i]
  /\ r[n + 1] = x

LEMMA SelectionGrows ==
  ASSUME NEW k, NEW n \in Nat, NEW t \in Seq(Nodes), NEW r \in Seq(Nodes), NEW x \in Nodes,
         LongerBy(r, t, n, x),
         NEW q, Selection(q, t, k)
  PROVE  /\ KeyOf[x] # k => Selection(q, r, k)
         /\ KeyOf[x] = k => Selection(Append(q, x), r, k)
<1> USE DEF LongerBy
<1>1. PICK l \in Nat : l = Len(q) /\ q \in Seq(Nodes)
  BY DEF Selection
<1>2. ASSUME NEW d \in 1..l
      PROVE  KeyOf[q[d]] = k /\ \E a \in 1..Len(r) : r[a] = q[d]
  <2>1. PICK a \in 1..n : t[a] = q[d] /\ KeyOf[q[d]] = k
    BY <1>1 DEF Selection
  <2>2. a \in 1..Len(r) /\ r[a] = q[d]
    BY <2>1
  <2> QED
    BY <2>1, <2>2
<1>3. ASSUME NEW a \in 1..n, KeyOf[r[a]] = k
      PROVE  \E d \in 1..l : q[d] = r[a]
  <2>1. r[a] = t[a] /\ a \in 1..Len(t)
    OBVIOUS
  <2> QED
    BY <1>1, <1>3, <2>1 DEF Selection
<1>4. CASE KeyOf[x] # k
  <2>2. ASSUME NEW a \in 1..Len(r), KeyOf[r[a]] = k PROVE \E d \in 1..l : q[d] = r[a]
    <3>1. a \in 1..n
      BY <1>4, <2>2
    <3> QED
      BY <1>3, <2>2, <3>1
  <2>3. Selection(q, r, k)
    BY <1>1, <1>2, <2>2 DEF Selection
  <2> QED
    BY <1>4, <2>3
<1>5. CASE KeyOf[x] = k
  <2>1. PICK u : u = Append(q, x)
    OBVIOUS
  <2>2. /\ u \in Seq(Nodes) /\ Len(u) = Len(q) + 1
        /\ \A d \in 1..Len(q) : u[d] = q[d]
        /\ u[Len(q) + 1] = x
    BY <1>1, <2>1, AppendProperties
  <2>3. Len(u) = l + 1 /\ (\A d \in 1..l : u[d] = q[d]) /\ u[l + 1] = x
    BY <1>1, <2>2
  <2>4. ASSUME NEW d \in 1..(l + 1)
        PROVE  KeyOf[u[d]] = k /\ \E a \in 1..Len(r) : r[a] = u[d]
    <3>1. CASE d = l + 1
      <4>1. n + 1 \in 1..Len(r) /\ r[n + 1] = u[d] /\ u[d] = x
        BY <2>3, <3>1
      <4> QED
        BY <1>5, <4>1
    <3>2. CASE d \in 1..l
      BY <1>2, <2>3, <3>2
    <3> QED
      BY <1>1, <3>1, <3>2
  <2>5. ASSUME NEW a \in 1..Len(r), KeyOf[r[a]] = k PROVE \E d \in 1..(l + 1) : u[d] = r[a]
    <3>1. CASE a = n + 1
      <4>1. l + 1 \in 1..(l + 1) /\ u[l + 1] = r[a]
        BY <2>3, <3>1
      <4> QED
        BY <4>1
    <3>2. CASE a \in 1..n
      <4>1. PICK d \in 1..l : q[d] = r[a]
        BY <1>3, <2>5, <3>2
      <4>2. d \in 1..(l + 1) /\ u[d] = r[a]
        BY <2>3, <4>1
      <4> QED
        BY <4>2
    <3>3. a = n + 1 \/ a \in 1..n
      OBVIOUS
    <3> QED
      BY <3>1, <3>2, <3>3
  <2>6. \A d \in 1..Len(u) : KeyOf[u[d]] = k /\ \E a \in 1..Len(r) : r[a] = u[d]
    BY <2>3, <2>4
  <2>7. \A a \in 1..Len(r) : KeyOf[r[a]] = k => \E d \in 1..Len(u) : u[d] = r[a]
    BY <2>3, <2>5
  <2>8. Selection(u, r, k)
    BY <2>2, <2>6, <2>7 DEF Selection
  <2> QED
    BY <1>5, <2>1, <2>8
<1> QED
  BY <1>4, <1>5

LEMMA WithKeySelects ==
  ASSUME NEW s \in Seq(Nodes), NEW k
  PROVE  Selection(WithKey(s, k), s, k)
<1> DEFINE U == {n \in Nat : \A r \in Seq(Nodes) : Len(r) = n => Selection(WithKey(r, k), r, k)}
<1>1. 0 \in U
  <2> SUFFICES ASSUME NEW r \in Seq(Nodes), Len(r) = 0 PROVE Selection(WithKey(r, k), r, k)
    OBVIOUS
  <2>1. r = <<>>
    BY EmptySeq
  <2>2. PICK q : q = WithKey(r, k) /\ q = <<>>
    BY <2>1, WithKeyOfNone
  <2>3. q \in Seq(Nodes) /\ Len(q) = 0
    BY <2>2, EmptySeq
  <2>4. Selection(q, r, k)
    BY <2>3 DEF Selection
  <2> QED
    BY <2>2, <2>4
<1>2. ASSUME NEW n \in Nat, n \in U PROVE n + 1 \in U
  <2> SUFFICES ASSUME NEW r \in Seq(Nodes), Len(r) = n + 1
               PROVE  Selection(WithKey(r, k), r, k)
    OBVIOUS
  <2>1. PICK t \in Seq(Nodes), x \in Nodes : r = Append(t, x)
    <3>1. r # <<>>
      BY EmptySeq
    <3> QED
      BY <3>1, SequenceEmptyOrAppend
  <2>2. Len(t) = n /\ (\A i \in 1..n : r[i] = t[i]) /\ r[n + 1] = x
    BY <2>1, AppendProperties
  <2>3. PICK q : q = WithKey(t, k) /\ Selection(q, t, k)
    BY <1>2, <2>2
  <2>4. PICK u : u = WithKey(r, k) /\ u = IF KeyOf[x] = k THEN Append(q, x) ELSE q
    BY <2>1, <2>3, WithKeyAppended
  <2>5. Selection(u, r, k)
    <3>1. Selection(q, t, k)
      BY <2>3
    <3>2. LongerBy(r, t, n, x)
      BY <2>2 DEF LongerBy
    <3>3. /\ KeyOf[x] # k => Selection(q, r, k)
          /\ KeyOf[x] = k => Selection(Append(q, x), r, k)
      BY <3>1, <3>2, SelectionGrows
    <3> QED
      BY <2>4, <3>3
  <2> QED
    BY <2>4, <2>5
<1> HIDE DEF U
<1>3. \A n \in Nat : n \in U
  BY <1>1, <1>2, AllNaturals
<1>4. Len(s) \in U
  BY <1>3
<1> QED
  BY <1>4 DEF U

LEMMA Reassociated ==
  ASSUME NEW s \in Seq(Nodes), NEW t \in Seq(Nodes), NEW u \in Seq(Nodes)
  PROVE  (s \o t) \o u = s \o (t \o u)
BY ConcatAssociative

LEMMA AppendedBehind ==
  ASSUME NEW s \in Seq(Nodes), NEW t \in Seq(Nodes), NEW x \in Nodes
  PROVE  Append(s \o t, x) = s \o Append(t, x)
<1>1. s \o t \in Seq(Nodes) /\ <<x>> \in Seq(Nodes)
  BY ConcatProperties
<1>2. Append(s \o t, x) = (s \o t) \o <<x>> /\ Append(t, x) = t \o <<x>>
  BY <1>1, AppendIsConcat
<1>3. (s \o t) \o <<x>> = s \o (t \o <<x>>)
  BY <1>1, Reassociated
<1> QED
  BY <1>2, <1>3

LEMMA WithKeyJoined ==
  ASSUME NEW s \in Seq(Nodes), NEW r \in Seq(Nodes), NEW k
  PROVE  WithKey(s \o r, k) = WithKey(s, k) \o WithKey(r, k)
<1> DEFINE U == {n \in Nat : \A t \in Seq(Nodes) :
                   Len(t) = n => WithKey(s \o t, k) = WithKey(s, k) \o WithKey(t, k)}
<1>1. \A t \in Seq(Nodes) : WithKey(t, k) \in Seq(Nodes)
  BY WithKeySelects DEF Selection
<1>2. 0 \in U
  <2> SUFFICES ASSUME NEW t \in Seq(Nodes), Len(t) = 0
               PROVE  WithKey(s \o t, k) = WithKey(s, k) \o WithKey(t, k)
    OBVIOUS
  <2>1. t = <<>>
    BY EmptySeq
  <2>2. s \o <<>> = s /\ WithKey(<<>>, k) = <<>>
    BY ConcatEmptySeq, WithKeyOfNone
  <2>3. WithKey(s, k) \o <<>> = WithKey(s, k)
    BY <1>1, ConcatEmptySeq
  <2> QED
    BY <2>1, <2>2, <2>3
<1>3. ASSUME NEW n \in Nat, n \in U PROVE n + 1 \in U
  <2> SUFFICES ASSUME NEW t \in Seq(Nodes), Len(t) = n + 1
               PROVE  WithKey(s \o t, k) = WithKey(s, k) \o WithKey(t, k)
    OBVIOUS
  <2>1. PICK u \in Seq(Nodes), x \in Nodes : t = Append(u, x)
    <3>1. t # <<>>
      BY EmptySeq
    <3> QED
      BY <3>1, SequenceEmptyOrAppend
  <2>2. Len(u) = n
    BY <2>1, AppendProperties
  <2>3. WithKey(s \o u, k) = WithKey(s, k) \o WithKey(u, k)
    BY <1>3, <2>2
  <2>4. s \o t = Append(s \o u, x) /\ s \o u \in Seq(Nodes)
    BY <2>1, AppendedBehind, ConcatProperties
  <2>5. PICK a \in Seq(Nodes), b \in Seq(Nodes) : a = WithKey(s, k) /\ b = WithKey(u, k)
    BY <1>1
  <2>6. WithKey(s \o t, k) = IF KeyOf[x] = k THEN Append(a \o b, x) ELSE a \o b
    <3>1. PICK v \in Seq(Nodes) : v = s \o u /\ s \o t = Append(v, x) /\ WithKey(v, k) = a \o b
      BY <2>3, <2>4, <2>5
    <3>2. WithKey(Append(v, x), k)
            = IF KeyOf[x] = k THEN Append(WithKey(v, k), x) ELSE WithKey(v, k)
      BY WithKeyAppended
    <3> QED
      BY <3>1, <3>2
  <2>7. WithKey(t, k) = IF KeyOf[x] = k THEN Append(b, x) ELSE b
    BY <2>1, <2>5, WithKeyAppended
  <2>8. Append(a \o b, x) = a \o Append(b, x)
    <3>1. \A c, d \in Seq(Nodes) : Append(c \o d, x) = c \o Append(d, x)
      BY AppendedBehind
    <3> QED
      BY <3>1
  <2> QED
    BY <2>5, <2>6, <2>7, <2>8
<1> HIDE DEF U
<1>4. \A n \in Nat : n \in U
  BY <1>2, <1>3, AllNaturals
<1>5. Len(r) \in U
  BY <1>4
<1> QED
  BY <1>5 DEF U

LEMMA WithKeyOfOne ==
  ASSUME NEW x \in Nodes, NEW k
  PROVE  WithKey(<<x>>, k) = IF KeyOf[x] = k THEN <<x>> ELSE <<>>
<1>1. <<>> \in Seq(Nodes) /\ <<x>> = Append(<<>>, x)
  BY EmptySeq
<1>2. WithKey(Append(<<>>, x), k)
        = IF KeyOf[x] = k THEN Append(WithKey(<<>>, k), x) ELSE WithKey(<<>>, k)
  BY <1>1, WithKeyAppended
<1> QED
  BY <1>1, <1>2, WithKeyOfNone

LEMMA NoneWithKey ==
  ASSUME NEW s \in Seq(Nodes), NEW k, \A a \in 1..Len(s) : KeyOf[s[a]] # k
  PROVE  WithKey(s, k) = <<>>
<1>1. PICK q : q = WithKey(s, k)
  OBVIOUS
<1>2. Selection(q, s, k)
  BY <1>1, WithKeySelects
<1>3. q \in Seq(Nodes) /\ \A d \in 1..Len(q) : FALSE
  BY <1>2 DEF Selection
<1>4. Len(q) = 0
  <2>1. 1 \notin 1..Len(q)
    BY <1>3
  <2>2. Len(q) \in Nat
    BY <1>3
  <2> QED
    BY <2>1, <2>2
<1> QED
  BY <1>1, <1>3, <1>4, EmptySeq

LEMMA WithoutExists ==
  ASSUME NEW s \in Seq(Nodes), NEW i \in 1..Len(s)
  PROVE  \E w : Without(w, s, i)
<1>1. PICK n \in Nat : n = Len(s) /\ n > 0
  OBVIOUS
<1>2. PICK w : w = [a \in 1..(n - 1) |-> IF a < i THEN s[a] ELSE s[a + 1]]
  OBVIOUS
<1>3. w \in Seq(Nodes) /\ Len(w) = Len(s) - 1
  <2>1. \A a \in 1..(n - 1) : (IF a < i THEN s[a] ELSE s[a + 1]) \in Nodes
    BY <1>1
  <2>2. w \in [1..(n - 1) -> Nodes] /\ n - 1 \in Nat
    BY <1>1, <1>2, <2>1
  <2> QED
    BY <1>1, <2>2
<1>4. \A a \in 1..(Len(s) - 1) : w[a] = IF a < i THEN s[a] ELSE s[a + 1]
  BY <1>1, <1>2
<1>5. Without(w, s, i)
  BY <1>3, <1>4 DEF Without
<1> QED
  BY <1>5

(* s around its i-th node.                                                 *)
Apart(s, i, w, a, b) ==
  /\ s = (a \o <<s[i]>>) \o b
  /\ w = a \o b
  /\ Len(a) = i - 1 /\ \A c \in 1..(i - 1) : a[c] = s[c]

LEMMA TakenApart ==
  ASSUME NEW s \in Seq(Nodes), NEW i \in 1..Len(s), NEW w, Without(w, s, i)
  PROVE  \E a, b \in Seq(Nodes) : Apart(s, i, w, a, b)
<1>1. PICK n \in Nat : n = Len(s) /\ n > 0 /\ i <= n /\ i \in Nat
  OBVIOUS
<1>2. PICK a : a = SubSeq(s, 1, i - 1)
  OBVIOUS
<1>3. PICK b : b = SubSeq(s, i + 1, n)
  OBVIOUS
<1>4. a \in Seq(Nodes) /\ Len(a) = i - 1 /\ \A c \in 1..(i - 1) : a[c] = s[c]
  <2>1. 1 \in Int /\ i - 1 \in Int /\ \A c \in 1..(i - 1) : s[c] \in Nodes
    BY <1>1
  <2>2. /\ a \in Seq(Nodes)
        /\ Len(a) = IF 1 <= i - 1 THEN i - 1 - 1 + 1 ELSE 0
        /\ \A c \in 1..(i - 1 - 1 + 1) : a[c] = s[1 + c - 1]
    BY <1>2, <2>1, SubSeqProperties
  <2> QED
    BY <1>1, <2>2
<1>5. b \in Seq(Nodes) /\ Len(b) = n - i /\ \A c \in 1..(n - i) : b[c] = s[i + c]
  <2>1. i + 1 \in Int /\ n \in Int /\ \A c \in (i + 1)..n : s[c] \in Nodes
    BY <1>1
  <2>2. /\ b \in Seq(Nodes)
        /\ Len(b) = IF i + 1 <= n THEN n - (i + 1) + 1 ELSE 0
        /\ \A c \in 1..(n - (i + 1) + 1) : b[c] = s[(i + 1) + c - 1]
    BY <1>3, <2>1, SubSeqProperties
  <2> QED
    BY <1>1, <2>2
<1>6. PICK x \in Nodes, u \in Seq(Nodes) :
        /\ x = s[i] /\ u = Append(a, x) /\ Len(u) = i
        /\ \A c \in 1..(i - 1) : u[c] = a[c]
        /\ u[i] = x
  <2>1. PICK x \in Nodes : x = s[i]
    OBVIOUS
  <2>2. PICK u : u = Append(a, x)
    OBVIOUS
  <2>3. /\ u \in Seq(Nodes) /\ Len(u) = Len(a) + 1
        /\ \A c \in 1..Len(a) : u[c] = a[c]
        /\ u[Len(a) + 1] = x
    BY <1>4, <2>2, AppendProperties
  <2>4. Len(a) + 1 = i
    BY <1>1, <1>4
  <2> QED
    BY <1>4, <2>1, <2>2, <2>3, <2>4
<1>7. u = a \o <<s[i]>>
  BY <1>4, <1>6, AppendIsConcat
<1>8. s = u \o b
  <2>1. PICK r : r = u \o b
    OBVIOUS
  <2>2. /\ r \in Seq(Nodes) /\ Len(r) = Len(u) + Len(b)
        /\ \A c \in 1..(Len(u) + Len(b)) : r[c] = IF c <= Len(u) THEN u[c] ELSE b[c - Len(u)]
    BY <1>5, <2>1, ConcatProperties
  <2>3. Len(r) = n /\ \A c \in 1..n : r[c] = IF c <= i THEN u[c] ELSE b[c - i]
    BY <1>1, <1>5, <1>6, <2>2
  <2>4. ASSUME NEW c \in 1..n PROVE r[c] = s[c]
    <3>1. CASE c < i
      BY <1>1, <1>4, <1>6, <2>3, <3>1
    <3>2. CASE c = i
      BY <1>1, <1>6, <2>3, <3>2
    <3>3. CASE c > i
      <4>1. c - i \in 1..(n - i) /\ i + (c - i) = c
        BY <1>1, <3>3
      <4> QED
        BY <1>1, <1>5, <2>3, <3>3, <4>1
    <3> QED
      BY <1>1, <3>1, <3>2, <3>3
  <2>5. r = s
    BY <1>1, <2>2, <2>3, <2>4, SeqEqual
  <2> QED
    BY <2>1, <2>5
<1>9. w = a \o b
  <2>1. PICK r : r = a \o b
    OBVIOUS
  <2>2. /\ r \in Seq(Nodes) /\ Len(r) = Len(a) + Len(b)
        /\ \A c \in 1..(Len(a) + Len(b)) : r[c] = IF c <= Len(a) THEN a[c] ELSE b[c - Len(a)]
    BY <1>4, <1>5, <2>1, ConcatProperties
  <2>3. Len(r) = n - 1 /\ \A c \in 1..(n - 1) : r[c] = IF c <= i - 1 THEN a[c] ELSE b[c - (i - 1)]
    BY <1>1, <1>4, <1>5, <2>2
  <2>4. /\ w \in Seq(Nodes) /\ Len(w) = n - 1
        /\ \A c \in 1..(n - 1) : w[c] = IF c < i THEN s[c] ELSE s[c + 1]
    BY <1>1 DEF Without
  <2>5. ASSUME NEW c \in 1..(n - 1) PROVE r[c] = w[c]
    <3>1. CASE c < i
      BY <1>1, <1>4, <2>3, <2>4, <3>1
    <3>2. CASE ~ c < i
      <4>1. c - (i - 1) \in 1..(n - i) /\ i + (c - (i - 1)) = c + 1
        BY <1>1, <3>2
      <4> QED
        BY <1>1, <1>5, <2>3, <2>4, <3>2, <4>1
    <3> QED
      BY <3>1, <3>2
  <2>6. r = w
    BY <2>2, <2>3, <2>4, <2>5, SeqEqual
  <2> QED
    BY <2>1, <2>6
<1>10. Apart(s, i, w, a, b)
  BY <1>4, <1>7, <1>8, <1>9 DEF Apart
<1> QED
  BY <1>4, <1>5, <1>10

KeyAround(a, x, b, k) ==
  WithKey((a \o <<x>>) \o b, k) = (WithKey(a, k) \o WithKey(<<x>>, k)) \o WithKey(b, k)

LEMMA WithKeyAround ==
  ASSUME NEW a \in Seq(Nodes), NEW b \in Seq(Nodes), NEW x \in Nodes, NEW k
  PROVE  KeyAround(a, x, b, k)
<1>1. PICK u : u = <<x>>
  OBVIOUS
<1>2. u \in Seq(Nodes)
  BY <1>1
<1>3. a \o u \in Seq(Nodes)
  BY <1>2, ConcatProperties
<1>4. WithKey(a \o u, k) = WithKey(a, k) \o WithKey(u, k)
  BY <1>2, WithKeyJoined
<1>5. WithKey((a \o u) \o b, k) = WithKey(a \o u, k) \o WithKey(b, k)
  BY <1>3, WithKeyJoined
<1> QED
  BY <1>1, <1>4, <1>5 DEF KeyAround

KeyApart(s, i, w, a, b, k) ==
  /\ WithKey(s, k) = (WithKey(a, k) \o WithKey(<<s[i]>>, k)) \o WithKey(b, k)
  /\ WithKey(w, k) = WithKey(a, k) \o WithKey(b, k)

LEMMA WithKeyApart ==
  ASSUME NEW s, NEW i, NEW w, NEW a \in Seq(Nodes), NEW b \in Seq(Nodes), Apart(s, i, w, a, b),
         NEW k, s[i] \in Nodes
  PROVE  KeyApart(s, i, w, a, b, k)
<1>1. PICK x \in Nodes : x = s[i]
  OBVIOUS
<1>2. WithKey(a \o b, k) = WithKey(a, k) \o WithKey(b, k)
  BY WithKeyJoined
<1>3. KeyAround(a, x, b, k)
  BY WithKeyAround
<1>4. s = (a \o <<x>>) \o b /\ w = a \o b
  BY <1>1 DEF Apart
<1> QED
  BY <1>1, <1>2, <1>3, <1>4 DEF KeyAround, KeyApart

KeyTaken(s, i, w, k) ==
  /\ KeyOf[s[i]] # k => WithKey(w, k) = WithKey(s, k)
  /\ KeyOf[s[i]] = k => \E g, h \in Seq(Nodes) :
       /\ WithKey(s, k) = (g \o <<s[i]>>) \o h
       /\ WithKey(w, k) = g \o h
       /\ (\A c \in 1..(i - 1) : KeyOf[s[c]] # k) => g = <<>>

LEMMA WithKeyWithout ==
  ASSUME NEW s \in Seq(Nodes), NEW i \in 1..Len(s), NEW w, Without(w, s, i), NEW k
  PROVE  KeyTaken(s, i, w, k)
<1>1. PICK a \in Seq(Nodes), b \in Seq(Nodes) : Apart(s, i, w, a, b)
  BY TakenApart
<1>2. s[i] \in Nodes
  OBVIOUS
<1>3. KeyApart(s, i, w, a, b, k)
  BY <1>1, <1>2, WithKeyApart
<1>4. WithKey(<<s[i]>>, k) = IF KeyOf[s[i]] = k THEN <<s[i]>> ELSE <<>>
  BY <1>2, WithKeyOfOne
<1>5. WithKey(a, k) \in Seq(Nodes) /\ WithKey(b, k) \in Seq(Nodes)
  BY WithKeySelects DEF Selection
<1>6. (\A c \in 1..(i - 1) : KeyOf[s[c]] # k) => WithKey(a, k) = <<>>
  <2> SUFFICES ASSUME \A c \in 1..(i - 1) : KeyOf[s[c]] # k
               PROVE  WithKey(a, k) = <<>>
    OBVIOUS
  <2>1. \A c \in 1..Len(a) : KeyOf[a[c]] # k
    BY <1>1 DEF Apart
  <2> QED
    BY <2>1, NoneWithKey
<1>7. WithKey(a, k) \o <<>> = WithKey(a, k)
  BY <1>5, ConcatEmptySeq
<1> QED
  BY <1>3, <1>4, <1>5, <1>6, <1>7 DEF KeyApart, KeyTaken

-----------------------------------------------------------------------------
(***************************************************************************)
(* The memory, and what the macros do to it.                               *)
(***************************************************************************)
CellArrays == UNION {[0..(n - 1) -> Pointers] : n \in Nat}

MemoryType(m) ==
  /\ m = [cell |-> m.cell, name |-> m.name]
  /\ m.cell \in [Tables -> CellArrays]
  /\ m.name \in [Nodes -> Pointers]

LEMMA CellsAre ==
  ASSUME NEW m, MemoryType(m), NEW t \in Tables
  PROVE  \E n \in Nat : /\ DOMAIN m.cell[t] = 0..(n - 1)
                        /\ Cardinality(DOMAIN m.cell[t]) = n
                        /\ m.cell[t] \in [0..(n - 1) -> Pointers]
<1>1. PICK n \in Nat : m.cell[t] \in [0..(n - 1) -> Pointers]
  <2>1. m.cell[t] \in CellArrays
    BY DEF MemoryType
  <2> QED
    BY <2>1 DEF CellArrays
<1>2. Cardinality(0..(n - 1)) = n
  <2>1. 0 \in Int /\ n - 1 \in Int
    OBVIOUS
  <2>2. Cardinality(0..(n - 1)) = IF 0 > n - 1 THEN 0 ELSE (n - 1) - 0 + 1
    BY <2>1, FS_Interval
  <2> QED
    BY <2>2
<1> QED
  BY <1>1, <1>2

LEMMA CellOfIsCell ==
  ASSUME NEW m, MemoryType(m), NEW t \in Tables, DOMAIN m.cell[t] # {}, NEW k \in Keys
  PROVE  CellOf(m, t, k) \in DOMAIN m.cell[t] /\ CellOf(m, t, k) \in Nat
<1>1. PICK n \in Nat : DOMAIN m.cell[t] = 0..(n - 1) /\ Cardinality(DOMAIN m.cell[t]) = n
  BY CellsAre
<1>2. n > 0
  BY <1>1
<1>3. HashOf[k] \in Nat
  BY HashAssumption
<1>4. PICK h \in Nat : h = HashOf[k]
  BY <1>3
<1>5. h % n \in 0..(n - 1)
  BY <1>2
<1> QED
  BY <1>1, <1>4, <1>5 DEF CellOf

(* m1 is m with v in the cell c of t and with other links.                 *)
Rewired(m1, m, t, c, v) ==
  /\ MemoryType(m1)
  /\ \A u \in Tables : DOMAIN m1.cell[u] = DOMAIN m.cell[u]
  /\ \A u \in Tables : \A d \in DOMAIN m.cell[u] :
       m1.cell[u][d] = IF u = t /\ d = c THEN v ELSE m.cell[u][d]

LEMMA CellSet ==
  ASSUME NEW m, MemoryType(m), NEW t \in Tables, NEW c \in DOMAIN m.cell[t],
         NEW v \in Pointers, NEW name \in [Nodes -> Pointers],
         NEW m1, m1 = [cell |-> [m.cell EXCEPT ![t] = [m.cell[t] EXCEPT ![c] = v]], name |-> name]
  PROVE  Rewired(m1, m, t, c, v)
<1>1. m.cell \in [Tables -> CellArrays]
  BY DEF MemoryType
<1>2. PICK n \in Nat : m.cell[t] \in [0..(n - 1) -> Pointers]
  BY CellsAre
<1>3. PICK r : r = [m.cell[t] EXCEPT ![c] = v]
  OBVIOUS
<1>4. /\ r \in [0..(n - 1) -> Pointers] /\ DOMAIN r = DOMAIN m.cell[t]
      /\ \A d \in DOMAIN m.cell[t] : r[d] = IF d = c THEN v ELSE m.cell[t][d]
  BY <1>2, <1>3
<1>5. r \in CellArrays
  BY <1>4 DEF CellArrays
<1>6. m1.cell = [m.cell EXCEPT ![t] = r] /\ m1.name = name
  BY <1>3
<1>7. /\ m1.cell \in [Tables -> CellArrays] /\ m1.cell[t] = r
      /\ \A u \in Tables : u # t => m1.cell[u] = m.cell[u]
  BY <1>1, <1>5, <1>6
<1>8. m1 = [cell |-> m1.cell, name |-> m1.name]
  BY <1>6
<1> QED
  BY <1>4, <1>6, <1>7, <1>8 DEF Rewired, MemoryType

LEMMA CellKept ==
  ASSUME NEW m, MemoryType(m), NEW t \in Tables, NEW c \in DOMAIN m.cell[t],
         NEW name \in [Nodes -> Pointers],
         NEW m1, m1 = [cell |-> m.cell, name |-> name]
  PROVE  Rewired(m1, m, t, c, m.cell[t][c])
<1>1. m1.cell = m.cell /\ m1.name = name /\ m1 = [cell |-> m1.cell, name |-> m1.name]
  OBVIOUS
<1> QED
  BY <1>1 DEF Rewired, MemoryType

(* The last node of a chain.                                               *)
LEMMA LastOfIs ==
  ASSUME NEW m, NEW x, NEW s \in Seq(Nodes), Linked(m.name, x, s), Once(s), x # Null
  PROVE  LastOf(m, x) = s[Len(s)] /\ Len(s) \in 1..Len(s)
<1>1. PICK n \in Nat : n = Len(s) /\ n > 0
  <2>1. Len(s) > 0
    BY Ends
  <2> QED
    BY <2>1
<1>2. PICK S : S = {y \in Nodes : m.name[y] = Null}
  OBVIOUS
<1>3. \A a \in 1..n : s[a] \in Nodes /\ (m.name[s[a]] = Null <=> a = n)
  BY <1>1, Ends
<1>4. \A a \in 0..(n - 1) : Follows(s, a) = s[a + 1] /\ a + 1 \in 1..n
  BY <1>1 DEF Follows
<1>5. n - 1 \in 0..Len(s) /\ n - 1 \in 0..(n - 1) /\ (n - 1) + 1 = n
  BY <1>1
<1>6. Follows(s, n - 1) = s[n]
  BY <1>4, <1>5
<1>7. Follows(s, n - 1) \in S
  BY <1>1, <1>2, <1>3, <1>6
<1>8. \A a \in 0..((n - 1) - 1) : Follows(s, a) \notin S
  <2> SUFFICES ASSUME NEW a \in 0..((n - 1) - 1) PROVE Follows(s, a) \notin S
    OBVIOUS
  <2>1. a \in 0..(n - 1) /\ a + 1 # n
    OBVIOUS
  <2> QED
    BY <1>2, <1>3, <1>4, <2>1
<1>9. Until(m, x, S) = Follows(s, n - 1)
  BY <1>5, <1>7, <1>8, UntilFinds
<1> QED
  BY <1>1, <1>2, <1>6, <1>9 DEF LastOf

(* The node of a chain in front of its i-th.                               *)
LEMMA PredecessorIs ==
  ASSUME NEW m, NEW x, NEW s \in Seq(Nodes), Linked(m.name, x, s), Once(s),
         NEW i \in 1..Len(s), i > 1
  PROVE  Predecessor(m, x, s[i]) = s[i - 1]
<1>1. PICK n \in Nat : n = Len(s) /\ i <= n /\ i \in 1..n
  OBVIOUS
<1>2. PICK S : S = {y \in Nodes : m.name[y] = s[i]}
  OBVIOUS
<1>3. \A a \in 1..(n - 1) : a \in 1..n /\ a + 1 \in 1..n /\ s[a] \in Nodes /\ m.name[s[a]] = s[a + 1]
  BY <1>1 DEF Linked, Follows
<1>4. \A a \in 0..(n - 1) : Follows(s, a) = s[a + 1]
  BY <1>1 DEF Follows
<1>5. i - 2 \in 0..Len(s) /\ i - 2 \in 0..(n - 1) /\ (i - 2) + 1 = i - 1 /\ i - 1 \in 1..(n - 1)
      /\ (i - 1) + 1 = i
  BY <1>1
<1>6. Follows(s, i - 2) = s[i - 1]
  BY <1>4, <1>5
<1>7. Follows(s, i - 2) \in S
  BY <1>2, <1>3, <1>5, <1>6
<1>8. \A a \in 0..((i - 2) - 1) : Follows(s, a) \notin S
  <2> SUFFICES ASSUME NEW a \in 0..((i - 2) - 1) PROVE Follows(s, a) \notin S
    OBVIOUS
  <2>1. a \in 0..(n - 1) /\ a + 1 \in 1..(n - 1) /\ (a + 1) + 1 # i /\ (a + 1) + 1 \in 1..n
    BY <1>1
  <2>2. m.name[s[a + 1]] = s[(a + 1) + 1]
    BY <1>3, <2>1
  <2>3. s[(a + 1) + 1] # s[i]
    BY <1>1, <2>1 DEF Once
  <2> QED
    BY <1>2, <1>4, <2>1, <2>2, <2>3
<1>9. Until(m, x, S) = Follows(s, i - 2)
  BY <1>5, <1>7, <1>8, UntilFinds
<1> QED
  BY <1>2, <1>6, <1>9 DEF Predecessor

LEMMA OnceInFamily ==
  ASSUME NEW name, NEW J, NEW st, NEW p, Family(name, J, st, p), NEW j \in J
  PROVE  p[j] \in Seq(Nodes) /\ Linked(name, st[j], p[j]) /\ Once(p[j])
BY DEF Family, Distinct, Once

(* HASH_INSERT appends the node to the chain of its cell.                  *)
LEMMA InsertAppends ==
  ASSUME NEW m, MemoryType(m), NEW t \in Tables, NEW c \in DOMAIN m.cell[t],
         NEW x \in Nodes, c = CellOf(m, t, KeyOf[x]),
         NEW J, NEW st, NEW p, Family(m.name, J, st, p), Outside(x, J, p),
         NEW j \in J, st[j] = m.cell[t][c],
         NEW p1, p1 = [p EXCEPT ![j] = Append(p[j], x)]
  PROVE  \E v \in Pointers :
           /\ Rewired(Insert(m, t, x), m, t, c, v)
           /\ Family(Insert(m, t, x).name, J, [st EXCEPT ![j] = v], p1)
<1>1. PICK name : name = [m.name EXCEPT ![x] = Null]
  OBVIOUS
<1>2. PICK k : k = [m EXCEPT !.name[x] = Null]
  OBVIOUS
<1>3. k = [cell |-> m.cell, name |-> name] /\ k.cell = m.cell /\ k.name = name
  BY <1>1, <1>2 DEF MemoryType
<1>4. Null \in Pointers /\ x \in Pointers /\ m.name \in [Nodes -> Pointers] /\ st \in [J -> Pointers]
  BY DEF Pointers, MemoryType, Family
<1>5. name \in [Nodes -> Pointers] /\ m.cell[t][c] \in Pointers
  BY <1>1, <1>4 DEF Family
<1>6. Family(name, J, st, p)
  BY <1>1, <1>4, Invalidated
<1>7. CASE m.cell[t][c] = Null
  <2>1. PICK m1 : m1 = [cell |-> [m.cell EXCEPT ![t] = [m.cell[t] EXCEPT ![c] = x]], name |-> name]
    OBVIOUS
  <2>2. Insert(m, t, x) = m1
    <3>1. Insert(m, t, x) = [k EXCEPT !.cell[t][c] = x]
      BY <1>2, <1>3, <1>7 DEF Insert
    <3> QED
      BY <1>3, <2>1, <3>1
  <2>3. Rewired(m1, m, t, c, x)
    BY <1>4, <1>5, <2>1, CellSet
  <2>4. PICK st1 : st1 = [st EXCEPT ![j] = x]
    OBVIOUS
  <2>5. Family(name, J, st1, p1)
    BY <1>1, <1>7, <2>4, Appended
  <2>6. m1.name = name
    BY <2>1
  <2> QED
    BY <1>4, <2>2, <2>3, <2>4, <2>5, <2>6
<1>8. CASE m.cell[t][c] # Null
  <2>1. PICK s \in Seq(Nodes), e \in Nat : s = p[j] /\ e = Len(s)
    BY OnceInFamily
  <2>2. Linked(k.name, st[j], s) /\ Once(s)
    BY <1>3, <1>6, <2>1, OnceInFamily
  <2>3. LastOf(k, st[j]) = s[e] /\ e \in 1..Len(p[j])
    BY <1>8, <2>1, <2>2, LastOfIs
  <2>4. PICK name1 : name1 = [name EXCEPT ![s[e]] = x]
    OBVIOUS
  <2>5. name1 \in [Nodes -> Pointers]
    BY <1>4, <1>5, <2>4
  <2>6. PICK m1 : m1 = [cell |-> m.cell, name |-> name1]
    OBVIOUS
  <2>7. Insert(m, t, x) = m1
    <3>1. Insert(m, t, x) = [k EXCEPT !.name[s[e]] = x]
      BY <1>2, <1>3, <1>8, <2>3 DEF Insert
    <3> QED
      BY <1>3, <2>4, <2>6, <3>1
  <2>8. Rewired(m1, m, t, c, m.cell[t][c])
    BY <2>5, <2>6, CellKept
  <2>9. Family(name1, J, st, p1)
    <3>1. \E i \in 1..Len(p[j]) : i = Len(p[j]) /\ name1 = [[m.name EXCEPT ![x] = Null] EXCEPT ![p[j][i]] = x]
      BY <1>1, <2>1, <2>3, <2>4
    <3>2. st[j] # Null
      BY <1>8
    <3> QED
      BY <3>1, <3>2, Appended
  <2>10. [st EXCEPT ![j] = m.cell[t][c]] = st
    BY <1>4
  <2>11. m1.name = name1
    BY <2>6
  <2> QED
    BY <1>5, <2>7, <2>8, <2>9, <2>10, <2>11
<1> QED
  BY <1>7, <1>8

(* As one hypothesis.                                                      *)
Unlinks(name, J, st, p, j, e, w, name1, p1) ==
  /\ Family(name, J, st, p) /\ j \in J
  /\ e \in Nat \ {0} /\ e + 1 <= Len(p[j])
  /\ Without(w, p[j], e + 1)
  /\ name1 = [name EXCEPT ![p[j][e]] = name[p[j][e + 1]]]
  /\ p1 = [p EXCEPT ![j] = w]

LEMMA UnlinksNode ==
  ASSUME NEW name, NEW J, NEW st, NEW p, NEW j, NEW e, NEW w, NEW name1, NEW p1,
         Unlinks(name, J, st, p, j, e, w, name1, p1)
  PROVE  Family(name1, J, st, p1) /\ Outside(p[j][e + 1], J, p1)
<1>1. Family(name, J, st, p) /\ j \in J /\ e \in Nat \ {0} /\ e + 1 <= Len(p[j])
  BY DEF Unlinks
<1>2. Without(w, p[j], e + 1)
  BY DEF Unlinks
<1>3. name1 = [name EXCEPT ![p[j][e]] = name[p[j][e + 1]]] /\ p1 = [p EXCEPT ![j] = w]
  BY DEF Unlinks
<1> QED
  BY <1>1, <1>2, <1>3, Unlinked

(* HASH_DELETE takes the node out of the chain of its cell.                *)
LEMMA DeleteTakesOut ==
  ASSUME NEW m, MemoryType(m), NEW t \in Tables, NEW c \in DOMAIN m.cell[t],
         NEW J, NEW st, NEW p, Family(m.name, J, st, p),
         NEW j \in J, st[j] = m.cell[t][c], NEW i \in 1..Len(p[j]),
         c = CellOf(m, t, KeyOf[p[j][i]]), NEW w, Without(w, p[j], i),
         NEW p1, p1 = [p EXCEPT ![j] = w]
  PROVE  \E v \in Pointers :
           /\ Rewired(Delete(m, t, p[j][i]), m, t, c, v)
           /\ Family(Delete(m, t, p[j][i]).name, J, [st EXCEPT ![j] = v], p1)
<1>1. PICK s \in Seq(Nodes) : s = p[j] /\ Linked(m.name, st[j], s) /\ Once(s)
  BY OnceInFamily
<1>2. PICK x \in Nodes : x = s[i] /\ x = p[j][i] /\ i \in 1..Len(s)
  BY <1>1
<1>3. m.name \in [Nodes -> Pointers] /\ st \in [J -> Pointers] /\ Invalid \in Pointers
  BY DEF Pointers, MemoryType, Family
<1>4. m.cell[t][c] \in Pointers /\ m.name[x] \in Pointers
  BY <1>3
<1>5. st[j] = s[1] /\ st[j] # Null /\ 1 \in 1..Len(s)
  <2>1. 1 \in 1..Len(s)
    BY <1>2
  <2>2. Len(s) # 0 /\ s # <<>>
    BY <2>1, EmptySeq
  <2> QED
    BY <1>1, <2>1, <2>2, Ends
<1>6. CASE i = 1
  <2>1. x = st[j]
    BY <1>2, <1>5, <1>6
  <2>2. PICK st1 : st1 = [st EXCEPT ![j] = m.name[x]]
    OBVIOUS
  <2>3. Family(m.name, J, st1, p1) /\ Outside(x, J, p1)
    <3>1. Pops(m.name, J, st, p, j, w, st1, p1)
      BY <1>5, <1>6, <2>1, <2>2 DEF Pops
    <3>2. Family(m.name, J, st1, p1) /\ Outside(x, J, p1)
      BY <2>1, <3>1, Popped
    <3> QED
      BY <3>2
  <2>4. PICK name : name = [m.name EXCEPT ![x] = Invalid]
    OBVIOUS
  <2>5. Family(name, J, st1, p1)
    BY <1>3, <2>3, <2>4, Invalidated
  <2>6. PICK m1 : m1 = [cell |-> [m.cell EXCEPT ![t] = [m.cell[t] EXCEPT ![c] = m.name[x]]], name |-> name]
    OBVIOUS
  <2>7. Delete(m, t, x) = m1
    <3>1. m.cell[t][c] = x
      BY <2>1
    <3>2. c = CellOf(m, t, KeyOf[x])
      BY <1>2
    <3>3. Delete(m, t, x) = [[m EXCEPT !.cell[t][c] = m.name[x]] EXCEPT !.name[x] = Invalid]
      BY <3>1, <3>2 DEF Delete
    <3> QED
      BY <2>4, <2>6, <3>3 DEF MemoryType
  <2>8. name \in [Nodes -> Pointers]
    BY <1>3, <2>4
  <2>9. Rewired(m1, m, t, c, m.name[x])
    BY <1>4, <2>6, <2>8, CellSet
  <2>10. m1.name = name
    BY <2>6
  <2> QED
    BY <1>2, <1>4, <2>2, <2>5, <2>7, <2>9, <2>10
<1>7. CASE i # 1
  <2>1. PICK e \in Nat \ {0} : e = i - 1 /\ e + 1 = i /\ e + 1 <= Len(p[j]) /\ i > 1 /\ e \in 1..Len(s)
    BY <1>1, <1>7
  <2>2. m.cell[t][c] # x
    BY <1>1, <1>2, <1>5, <1>7 DEF Once
  <2>3. Predecessor(m, m.cell[t][c], x) = s[e]
    <3>1. Linked(m.name, m.cell[t][c], s) /\ Once(s)
      BY <1>1
    <3>2. Predecessor(m, m.cell[t][c], s[i]) = s[i - 1]
      BY <1>2, <2>1, <3>1, PredecessorIs
    <3> QED
      BY <1>2, <2>1, <3>2
  <2>4. PICK name : name = [m.name EXCEPT ![s[e]] = m.name[x]]
    OBVIOUS
  <2>5. Family(name, J, st, p1) /\ Outside(x, J, p1)
    <3>1. name = [m.name EXCEPT ![p[j][e]] = m.name[p[j][e + 1]]]
      BY <1>1, <1>2, <2>1, <2>4
    <3>2. Unlinks(m.name, J, st, p, j, e, w, name, p1)
      BY <2>1, <3>1 DEF Unlinks
    <3>3. Family(name, J, st, p1) /\ Outside(p[j][e + 1], J, p1)
      BY <3>2, UnlinksNode
    <3> QED
      BY <1>2, <2>1, <3>3
  <2>6. PICK name1 : name1 = [name EXCEPT ![x] = Invalid]
    OBVIOUS
  <2>7. Family(name1, J, st, p1)
    BY <1>3, <2>5, <2>6, Invalidated
  <2>8. PICK m1 : m1 = [cell |-> m.cell, name |-> name1]
    OBVIOUS
  <2>9. Delete(m, t, x) = m1
    <3>1. c = CellOf(m, t, KeyOf[x])
      BY <1>2
    <3>2. Delete(m, t, x) = [[m EXCEPT !.name[s[e]] = m.name[x]] EXCEPT !.name[x] = Invalid]
      BY <2>2, <2>3, <3>1 DEF Delete
    <3> QED
      BY <2>4, <2>6, <2>8, <3>2 DEF MemoryType
  <2>10. name1 \in [Nodes -> Pointers]
    BY <1>3, <1>4, <2>4, <2>6
  <2>11. Rewired(m1, m, t, c, m.cell[t][c])
    BY <2>8, <2>10, CellKept
  <2>12. [st EXCEPT ![j] = m.cell[t][c]] = st /\ m1.name = name1
    BY <1>3, <2>8
  <2> QED
    BY <1>2, <1>4, <2>7, <2>9, <2>11, <2>12
<1> QED
  BY <1>6, <1>7

-----------------------------------------------------------------------------
(***************************************************************************)
(* The chains of the cells J of a memory.  st[j] is the content of the     *)
(* cell j, except while HASH_MIGRATE empties j: then it is the node the    *)
(* loop is at.                                                             *)
(***************************************************************************)
At(m, j) == m.cell[j[1]][j[2]]

InPlace(m, J, p) ==
  \A j \in J : \A a \in 1..Len(p[j]) : CellOf(m, j[1], KeyOf[p[j][a]]) = j[2]

AreCells(m, J) ==
  \A j \in J : \E t \in Tables : \E c \in Nat : j = <<t, c>> /\ c \in DOMAIN m.cell[t]

Chains(m, J, st, p) ==
  /\ MemoryType(m)
  /\ AreCells(m, J)
  /\ Family(m.name, J, st, p)
  /\ InPlace(m, J, p)

SameCells(m1, m) == \A u \in Tables : DOMAIN m1.cell[u] = DOMAIN m.cell[u]

(* Only what the cell j holds has changed.                                 *)
ChangedAt(m1, st1, m, st, J, j) ==
  /\ SameCells(m1, m)
  /\ st1[j] = At(m1, j)
  /\ \A k \in J : k # j => st1[k] = st[k] /\ At(m1, k) = At(m, k)

LEMMA RewiredChains ==
  ASSUME NEW m, NEW J, NEW st, NEW p, Chains(m, J, st, p),
         NEW t \in Tables, NEW c \in DOMAIN m.cell[t], NEW j \in J, j = <<t, c>>,
         NEW m1, NEW v \in Pointers, Rewired(m1, m, t, c, v),
         NEW st1, st1 = [st EXCEPT ![j] = v], NEW p1, Family(m1.name, J, st1, p1),
         InPlace(m, J, p1)
  PROVE  Chains(m1, J, st1, p1) /\ ChangedAt(m1, st1, m, st, J, j)
<1>1. SameCells(m1, m) /\ MemoryType(m1)
  BY DEF Rewired, SameCells
<1>2. AreCells(m1, J)
  BY <1>1 DEF SameCells, AreCells, Chains
<1>3. ASSUME NEW k \in J
      PROVE  k[1] \in Tables /\ k[2] \in DOMAIN m.cell[k[1]] /\ k = <<k[1], k[2]>>
  BY DEF Chains, AreCells
<1>4. InPlace(m1, J, p1)
  <2> SUFFICES ASSUME NEW k \in J, NEW a \in 1..Len(p1[k])
               PROVE  CellOf(m1, k[1], KeyOf[p1[k][a]]) = k[2]
    BY DEF InPlace
  <2>1. CellOf(m, k[1], KeyOf[p1[k][a]]) = k[2]
    BY DEF InPlace
  <2>2. DOMAIN m1.cell[k[1]] = DOMAIN m.cell[k[1]]
    BY <1>1, <1>3 DEF SameCells
  <2> QED
    BY <2>1, <2>2 DEF CellOf
<1>5. st \in [J -> Pointers]
  BY DEF Chains, Family
<1>6. st1[j] = v /\ At(m1, j) = v
  BY <1>5 DEF Rewired, At
<1>7. ASSUME NEW k \in J, k # j PROVE st1[k] = st[k] /\ At(m1, k) = At(m, k)
  <2>1. ~ (k[1] = t /\ k[2] = c)
    BY <1>3, <1>7
  <2>2. m1.cell[k[1]][k[2]] = m.cell[k[1]][k[2]]
    BY <1>3, <2>1 DEF Rewired
  <2> QED
    BY <1>5, <1>7, <2>2 DEF At
<1> QED
  BY <1>1, <1>2, <1>4, <1>6, <1>7 DEF Chains, ChangedAt

(* A node is appended to the chain of its cell.                            *)
Inserts(m1, p1, m, t, x, J, st, p, j) ==
  /\ Chains(m, J, st, p)
  /\ t \in Tables /\ DOMAIN m.cell[t] # {} /\ x \in Nodes
  /\ Outside(x, J, p)
  /\ j = <<t, CellOf(m, t, KeyOf[x])>> /\ j \in J /\ st[j] = At(m, j)
  /\ m1 = Insert(m, t, x)
  /\ p1 = [p EXCEPT ![j] = Append(p[j], x)]

LEMMA Inserted ==
  ASSUME NEW m1, NEW p1, NEW m, NEW t, NEW x, NEW J, NEW st, NEW p, NEW j,
         Inserts(m1, p1, m, t, x, J, st, p, j)
  PROVE  \E st1 : Chains(m1, J, st1, p1) /\ ChangedAt(m1, st1, m, st, J, j)
<1>1. /\ Chains(m, J, st, p)
      /\ t \in Tables /\ DOMAIN m.cell[t] # {} /\ x \in Nodes /\ KeyOf[x] \in Keys
      /\ Outside(x, J, p)
  BY HashAssumption DEF Inserts
<1>2. MemoryType(m)
  BY <1>1 DEF Chains
<1>3. PICK c \in DOMAIN m.cell[t] : c = CellOf(m, t, KeyOf[x])
  BY <1>1, <1>2, CellOfIsCell
<1>4. j \in J /\ j = <<t, c>> /\ st[j] = m.cell[t][c]
  BY <1>3 DEF Inserts, At
<1>5. p1 = [p EXCEPT ![j] = Append(p[j], x)]
  BY DEF Inserts
<1>6. Family(m.name, J, st, p)
  BY <1>1 DEF Chains
<1>7. \E v \in Pointers :
        /\ Rewired(Insert(m, t, x), m, t, c, v)
        /\ Family(Insert(m, t, x).name, J, [st EXCEPT ![j] = v], p1)
  BY <1>1, <1>2, <1>3, <1>4, <1>5, <1>6, InsertAppends
<1>8. PICK v, st1 :
        /\ v \in Pointers
        /\ Rewired(m1, m, t, c, v)
        /\ st1 = [st EXCEPT ![j] = v]
        /\ Family(m1.name, J, st1, p1)
  BY <1>7 DEF Inserts
<1>9. InPlace(m, J, p1)
  <2> SUFFICES ASSUME NEW k \in J, NEW a \in 1..Len(p1[k])
               PROVE  CellOf(m, k[1], KeyOf[p1[k][a]]) = k[2]
    BY DEF InPlace
  <2>1. p \in [J -> Seq(Nodes)] /\ InPlace(m, J, p)
    BY <1>1 DEF Chains, Family
  <2>2. CASE k # j
    BY <1>5, <2>1, <2>2 DEF InPlace
  <2>3. CASE k = j
    <3>1. PICK s, r : s \in Seq(Nodes) /\ s = p[j] /\ r = Append(s, x) /\ p1[k] = r
      BY <1>4, <1>5, <2>1, <2>3
    <3>2. /\ Len(r) = Len(s) + 1
          /\ \A i \in 1..Len(s) : r[i] = s[i]
          /\ r[Len(s) + 1] = x
      BY <1>1, <3>1, AppendProperties
    <3>3. CASE a = Len(s) + 1
      BY <1>3, <1>4, <2>3, <3>1, <3>2, <3>3
    <3>4. CASE a \in 1..Len(s)
      <4>1. p1[k][a] = p[j][a] /\ a \in 1..Len(p[j])
        BY <3>1, <3>2, <3>4
      <4>2. CellOf(m, j[1], KeyOf[p[j][a]]) = j[2]
        BY <1>4, <2>1, <4>1 DEF InPlace
      <4> QED
        BY <2>3, <4>1, <4>2
    <3>5. a = Len(s) + 1 \/ a \in 1..Len(s)
      BY <3>1, <3>2
    <3> QED
      BY <3>3, <3>4, <3>5
  <2> QED
    BY <2>2, <2>3
<1>10. Chains(m1, J, st1, p1) /\ ChangedAt(m1, st1, m, st, J, j)
  BY <1>1, <1>3, <1>4, <1>8, <1>9, RewiredChains
<1> QED
  BY <1>10

(* A chain without one of its nodes.                                       *)
LEMMA InPlaceWithout ==
  ASSUME NEW m, NEW J, NEW p \in [J -> Seq(Nodes)], InPlace(m, J, p),
         NEW j \in J, NEW i \in 1..Len(p[j]), NEW w, Without(w, p[j], i),
         NEW p1, p1 = [p EXCEPT ![j] = w]
  PROVE  InPlace(m, J, p1)
<1> SUFFICES ASSUME NEW k \in J, NEW a \in 1..Len(p1[k])
             PROVE  CellOf(m, k[1], KeyOf[p1[k][a]]) = k[2]
  BY DEF InPlace
<1>1. CASE k # j
  BY <1>1 DEF InPlace
<1>2. CASE k = j
  <2>1. PICK n \in Nat : n = Len(p[j]) /\ n > 0
    OBVIOUS
  <2>2. a \in 1..(n - 1) /\ p1[k][a] = IF a < i THEN p[j][a] ELSE p[j][a + 1]
    BY <1>2, <2>1 DEF Without
  <2>3. a \in 1..Len(p[j]) /\ a + 1 \in 1..Len(p[j])
    BY <2>1, <2>2
  <2>4. CASE a < i
    BY <1>2, <2>2, <2>3, <2>4 DEF InPlace
  <2>5. CASE ~ a < i
    BY <1>2, <2>2, <2>3, <2>5 DEF InPlace
  <2> QED
    BY <2>4, <2>5
<1> QED
  BY <1>1, <1>2

Deletes(m1, p1, m, t, J, st, p, j, i) ==
  /\ Chains(m, J, st, p)
  /\ j \in J /\ t = j[1] /\ st[j] = At(m, j) /\ i \in 1..Len(p[j])
  /\ m1 = Delete(m, t, p[j][i])
  /\ \E w : Without(w, p[j], i) /\ p1 = [p EXCEPT ![j] = w]

LEMMA Deleted ==
  ASSUME NEW m1, NEW p1, NEW m, NEW t, NEW J, NEW st, NEW p, NEW j, NEW i,
         Deletes(m1, p1, m, t, J, st, p, j, i)
  PROVE  \E st1 : Chains(m1, J, st1, p1) /\ ChangedAt(m1, st1, m, st, J, j)
<1>1. /\ Chains(m, J, st, p) /\ MemoryType(m) /\ Family(m.name, J, st, p)
      /\ InPlace(m, J, p) /\ p \in [J -> Seq(Nodes)]
      /\ j \in J /\ t = j[1] /\ i \in 1..Len(p[j])
  BY DEF Deletes, Chains, Family
<1>2. PICK c : c \in DOMAIN m.cell[t] /\ j = <<t, c>> /\ t \in Tables
  BY <1>1 DEF Chains, AreCells
<1>3. st[j] = m.cell[t][c]
  BY <1>2 DEF Deletes, At
<1>4. c = CellOf(m, t, KeyOf[p[j][i]])
  BY <1>1, <1>2 DEF InPlace
<1>5. PICK w : Without(w, p[j], i) /\ p1 = [p EXCEPT ![j] = w]
  BY DEF Deletes
<1>6. \E v \in Pointers :
        /\ Rewired(Delete(m, t, p[j][i]), m, t, c, v)
        /\ Family(Delete(m, t, p[j][i]).name, J, [st EXCEPT ![j] = v], p1)
  BY <1>1, <1>2, <1>3, <1>4, <1>5, DeleteTakesOut
<1>7. PICK v, st1 :
        /\ v \in Pointers
        /\ Rewired(m1, m, t, c, v)
        /\ st1 = [st EXCEPT ![j] = v]
        /\ Family(m1.name, J, st1, p1)
  BY <1>6 DEF Deletes
<1>8. InPlace(m, J, p1)
  BY <1>1, <1>5, InPlaceWithout
<1>9. Chains(m1, J, st1, p1) /\ ChangedAt(m1, st1, m, st, J, j)
  BY <1>1, <1>2, <1>7, <1>8, RewiredChains
<1> QED
  BY <1>9

-----------------------------------------------------------------------------
(***************************************************************************)
(* HASH_MIGRATE.  A round of its inner loop takes the first node of the    *)
(* chain from and appends it to a chain of the table new; m0 says what the *)
(* tables are.                                                             *)
(***************************************************************************)
Target(m0, J, new, from) ==
  /\ MemoryType(m0)
  /\ new \in Tables /\ DOMAIN m0.cell[new] # {}
  /\ from \in J /\ from[1] # new
  /\ \A c \in DOMAIN m0.cell[new] : <<new, c>> \in J

ExceptAt(m, J, st, from) == \A k \in J : k # from => st[k] = At(m, k)

Carried(q, J, p, m0, from) ==
  /\ SameCells(q.mem, m0)
  /\ \E st : /\ Chains(q.mem, J, st, p)
             /\ st[from] = q.at
             /\ ExceptAt(q.mem, J, st, from)

(* p1 is p with the first node of a chain moved over.                      *)
Passes(p1, p, m0, new, J, from) ==
  /\ p \in [J -> Seq(Nodes)] /\ Len(p[from]) > 0
  /\ \E w, j : /\ Without(w, p[from], 1)
               /\ j = <<new, CellOf(m0, new, KeyOf[p[from][1]])>> /\ j \in J /\ j # from
               /\ p1 = [[p EXCEPT ![from] = w] EXCEPT ![j] = Append(p[j], p[from][1])]

PopsIn(m, J, st, p, j, w, st1, p1) ==
  Chains(m, J, st, p) /\ Pops(m.name, J, st, p, j, w, st1, p1)

LEMMA PoppedChains ==
  ASSUME NEW m, NEW J, NEW st, NEW p, NEW j, NEW w, NEW st1, NEW p1,
         PopsIn(m, J, st, p, j, w, st1, p1)
  PROVE  /\ st[j] \in Nodes /\ st[j] = p[j][1]
         /\ Chains(m, J, st1, p1) /\ Outside(st[j], J, p1)
<1>0. Chains(m, J, st, p) /\ Pops(m.name, J, st, p, j, w, st1, p1)
  BY DEF PopsIn
<1>1. PICK x, name : x = st[j] /\ name = m.name
  OBVIOUS
<1>2. Pops(name, J, st, p, j, w, st1, p1)
  BY <1>0, <1>1
<1>3. /\ x \in Nodes /\ x = p[j][1] /\ Len(p[j]) > 0
      /\ Family(name, J, st1, p1) /\ Outside(x, J, p1)
  BY <1>1, <1>2, Popped
<1>4. InPlace(m, J, p1)
  <2>1. p \in [J -> Seq(Nodes)] /\ InPlace(m, J, p) /\ j \in J
    BY <1>0 DEF Chains, Family, Pops
  <2>2. 1 \in 1..Len(p[j])
    BY <1>3, <2>1
  <2>3. Without(w, p[j], 1) /\ p1 = [p EXCEPT ![j] = w]
    BY <1>0 DEF Pops
  <2> QED
    BY <2>1, <2>2, <2>3, InPlaceWithout
<1> QED
  BY <1>0, <1>1, <1>3, <1>4 DEF Chains

LEMMA RoundMoves ==
  ASSUME NEW q, NEW J, NEW p, NEW m0, NEW new, NEW from, Target(m0, J, new, from),
         Carried(q, J, p, m0, from), q.at # Null
  PROVE  \E p1 : Passes(p1, p, m0, new, J, from) /\ Carried(Moved(q, new), J, p1, m0, from)
<1>1. PICK st : /\ Chains(q.mem, J, st, p)
                /\ st[from] = q.at
                /\ ExceptAt(q.mem, J, st, from)
  BY DEF Carried
<1>2. PICK m, x : m = q.mem /\ x = st[from]
  OBVIOUS
<1>3. from \in J /\ x # Null /\ p \in [J -> Seq(Nodes)] /\ new \in Tables
  BY <1>1, <1>2 DEF Target, Chains, Family
<1>4. Len(p[from]) > 0
  <2>1. PICK s \in Seq(Nodes) : s = p[from] /\ Linked(m.name, x, s)
    BY <1>1, <1>2, <1>3 DEF Chains, Family
  <2> QED
    BY <1>3, <2>1, Ends
<1>5. PICK w : Without(w, p[from], 1)
  <2>1. 1 \in 1..Len(p[from])
    BY <1>3, <1>4
  <2> QED
    BY <1>3, <2>1, WithoutExists
<1>6. PICK st1, p1 : st1 = [st EXCEPT ![from] = m.name[x]] /\ p1 = [p EXCEPT ![from] = w]
  OBVIOUS
<1>7. x \in Nodes /\ x = p[from][1] /\ Chains(m, J, st1, p1) /\ Outside(x, J, p1)
  <2>1. Chains(m, J, st, p)
    BY <1>1, <1>2
  <2>2. PopsIn(m, J, st, p, from, w, st1, p1)
    BY <1>2, <1>3, <1>5, <1>6, <2>1 DEF Pops, Chains, PopsIn
  <2>3. /\ st[from] \in Nodes /\ st[from] = p[from][1]
        /\ Chains(m, J, st1, p1) /\ Outside(st[from], J, p1)
    BY <2>2, PoppedChains
  <2> QED
    BY <1>2, <2>3
<1>8. SameCells(m, m0)
  BY <1>2 DEF Carried
<1>9. PICK j : j = <<new, CellOf(m0, new, KeyOf[x])>>
  OBVIOUS
<1>10. j \in J /\ j # from /\ j = <<new, CellOf(m, new, KeyOf[x])>> /\ DOMAIN m.cell[new] # {}
  <2>1. KeyOf[x] \in Keys
    BY <1>7, HashAssumption
  <2>2. CellOf(m0, new, KeyOf[x]) \in DOMAIN m0.cell[new]
    BY <2>1, CellOfIsCell DEF Target
  <2>3. DOMAIN m.cell[new] = DOMAIN m0.cell[new]
    BY <1>3, <1>8 DEF SameCells
  <2>4. CellOf(m, new, KeyOf[x]) = CellOf(m0, new, KeyOf[x])
    BY <2>3 DEF CellOf
  <2> QED
    BY <1>9, <2>2, <2>3, <2>4 DEF Target
<1>11. st1[j] = At(m, j) /\ st \in [J -> Pointers]
  BY <1>1, <1>2, <1>6, <1>10 DEF ExceptAt, Chains, Family
<1>12. PICK m2, p2 : m2 = Insert(m, new, x) /\ p2 = [p1 EXCEPT ![j] = Append(p1[j], x)]
  OBVIOUS
<1>13. Inserts(m2, p2, m, new, x, J, st1, p1, j)
  BY <1>3, <1>7, <1>10, <1>11, <1>12 DEF Inserts
<1>14. PICK st2 : Chains(m2, J, st2, p2) /\ ChangedAt(m2, st2, m, st1, J, j)
  BY <1>13, Inserted
<1>15. Moved(q, new) = [mem |-> m2, at |-> m.name[x]]
  BY <1>1, <1>2, <1>12 DEF Moved
<1>16. Carried(Moved(q, new), J, p2, m0, from)
  <2>1. PICK q2 : q2 = Moved(q, new) /\ q2.mem = m2 /\ q2.at = m.name[x]
    BY <1>15
  <2>2. SameCells(m2, m0)
    BY <1>8, <1>14 DEF ChangedAt, SameCells
  <2>3. st2[from] = m.name[x]
    BY <1>3, <1>6, <1>10, <1>11, <1>14 DEF ChangedAt
  <2>4. ExceptAt(m2, J, st2, from)
    <3> SUFFICES ASSUME NEW k \in J, k # from PROVE st2[k] = At(m2, k)
      BY DEF ExceptAt
    <3>1. CASE k = j
      BY <1>14, <3>1 DEF ChangedAt
    <3>2. CASE k # j
      <4>1. st2[k] = st1[k] /\ At(m2, k) = At(m, k)
        BY <1>14, <3>2 DEF ChangedAt
      <4>2. st1[k] = st[k] /\ st[k] = At(m, k)
        BY <1>1, <1>2, <1>6, <1>11 DEF ExceptAt
      <4> QED
        BY <4>1, <4>2
    <3> QED
      BY <3>1, <3>2
  <2>5. Carried(q2, J, p2, m0, from)
    BY <1>14, <2>1, <2>2, <2>3, <2>4 DEF Carried
  <2> QED
    BY <2>1, <2>5
<1>17. Passes(p2, p, m0, new, J, from)
  <2>1. p1[j] = p[j]
    BY <1>3, <1>6, <1>10
  <2>2. j = <<new, CellOf(m0, new, KeyOf[p[from][1]])>>
    BY <1>7, <1>9
  <2>3. p2 = [[p EXCEPT ![from] = w] EXCEPT ![j] = Append(p[j], p[from][1])]
    BY <1>6, <1>7, <1>12, <2>1
  <2> QED
    BY <1>3, <1>4, <1>5, <1>10, <2>2, <2>3 DEF Passes
<1> QED
  BY <1>16, <1>17

(* What the two chains a key can be in hold of it together.                *)
Joined(p, m0, new, from, k) ==
  WithKey(p[<<new, CellOf(m0, new, k)>>], k) \o WithKey(p[from], k)

MovedOver(p1, p, m0, new, J, from) ==
  /\ p1 \in [J -> Seq(Nodes)]
  /\ \A j \in J : j # from /\ j[1] # new => p1[j] = p[j]
  /\ \A k \in Keys : Joined(p1, m0, new, from, k) = Joined(p, m0, new, from, k)

LEMMA Refolded ==
  ASSUME NEW a \in Seq(Nodes), NEW h \in Seq(Nodes), NEW x \in Nodes
  PROVE  Append(a, x) \o (<<>> \o h) = a \o ((<<>> \o <<x>>) \o h)
<1>0. PICK u : u = <<x>>
  OBVIOUS
<1>1. u \in Seq(Nodes)
  BY <1>0
<1>2. <<>> \o h = h /\ <<>> \o u = u
  BY <1>1, ConcatEmptySeq
<1>3. Append(a, x) = a \o u
  BY <1>0, AppendIsConcat
<1>4. (a \o u) \o h = a \o (u \o h)
  BY <1>1, Reassociated
<1> QED
  BY <1>0, <1>2, <1>3, <1>4

KeyPassed(c, s, w, k) ==
  /\ KeyOf[s[1]] = k =>
       WithKey(Append(c, s[1]), k) \o WithKey(w, k) = WithKey(c, k) \o WithKey(s, k)
  /\ KeyOf[s[1]] # k =>
       WithKey(Append(c, s[1]), k) = WithKey(c, k) /\ WithKey(w, k) = WithKey(s, k)

LEMMA PassedKey ==
  ASSUME NEW c \in Seq(Nodes), NEW s \in Seq(Nodes), Len(s) > 0, NEW w, Without(w, s, 1), NEW k
  PROVE  KeyPassed(c, s, w, k)
<1>1. 1 \in 1..Len(s) /\ s[1] \in Nodes
  OBVIOUS
<1>2. WithKey(Append(c, s[1]), k)
        = IF KeyOf[s[1]] = k THEN Append(WithKey(c, k), s[1]) ELSE WithKey(c, k)
  BY <1>1, WithKeyAppended
<1>3. KeyTaken(s, 1, w, k)
  BY <1>1, WithKeyWithout
<1>4. CASE KeyOf[s[1]] # k
  BY <1>2, <1>3, <1>4 DEF KeyTaken, KeyPassed
<1>5. CASE KeyOf[s[1]] = k
  <2>1. PICK g \in Seq(Nodes), h \in Seq(Nodes) :
           /\ WithKey(s, k) = (g \o <<s[1]>>) \o h
           /\ WithKey(w, k) = g \o h
           /\ (\A i \in 1..(1 - 1) : KeyOf[s[i]] # k) => g = <<>>
    BY <1>3, <1>5 DEF KeyTaken
  <2>2. g = <<>>
    BY <2>1
  <2>3. WithKey(c, k) \in Seq(Nodes)
    BY WithKeySelects DEF Selection
  <2>4. Append(WithKey(c, k), s[1]) \o (<<>> \o h) = WithKey(c, k) \o ((<<>> \o <<s[1]>>) \o h)
    BY <1>1, <2>3, Refolded
  <2> QED
    BY <1>2, <1>5, <2>1, <2>2, <2>4 DEF KeyPassed
<1> QED
  BY <1>4, <1>5

LEMMA PassMovesOver ==
  ASSUME NEW p1, NEW p, NEW m0, NEW new, NEW J, NEW from, Target(m0, J, new, from),
         Passes(p1, p, m0, new, J, from)
  PROVE  MovedOver(p1, p, m0, new, J, from) /\ Len(p1[from]) = Len(p[from]) - 1
<1>1. PICK s, w, j :
        /\ s = p[from] /\ Without(w, s, 1)
        /\ j = <<new, CellOf(m0, new, KeyOf[s[1]])>> /\ j \in J /\ j # from
        /\ p1 = [[p EXCEPT ![from] = w] EXCEPT ![j] = Append(p[j], s[1])]
  BY DEF Passes
<1>2. p \in [J -> Seq(Nodes)] /\ from \in J /\ s \in Seq(Nodes) /\ Len(s) > 0
  BY <1>1 DEF Passes, Target
<1>3. w \in Seq(Nodes) /\ Len(w) = Len(s) - 1 /\ s[1] \in Nodes
  BY <1>1, <1>2 DEF Without
<1>4. PICK c \in Seq(Nodes) : c = p[j]
  BY <1>1, <1>2
<1>5. Append(c, s[1]) \in Seq(Nodes)
  BY <1>3, AppendProperties
<1>6. /\ p1 \in [J -> Seq(Nodes)]
      /\ p1[from] = w /\ p1[j] = Append(c, s[1])
      /\ \A k \in J : k # from /\ k # j => p1[k] = p[k]
  BY <1>1, <1>2, <1>3, <1>4, <1>5
<1>7. \A k \in J : k # from /\ k[1] # new => p1[k] = p[k]
  BY <1>1, <1>6
<1>8. ASSUME NEW k \in Keys PROVE Joined(p1, m0, new, from, k) = Joined(p, m0, new, from, k)
  <2>1. PICK h : h = <<new, CellOf(m0, new, k)>>
    OBVIOUS
  <2>2. h \in J /\ h # from
    <3>1. CellOf(m0, new, k) \in DOMAIN m0.cell[new]
      BY CellOfIsCell DEF Target
    <3> QED
      BY <2>1, <3>1 DEF Target
  <2>3. KeyPassed(c, s, w, k)
    BY <1>1, <1>2, PassedKey
  <2>4. CASE KeyOf[s[1]] = k
    <3>1. h = j
      BY <1>1, <2>1, <2>4
    <3> QED
      BY <1>1, <1>4, <1>6, <2>1, <2>3, <2>4, <3>1 DEF Joined, KeyPassed
  <2>5. CASE KeyOf[s[1]] # k
    <3>1. WithKey(p1[h], k) = WithKey(p[h], k)
      BY <1>4, <1>6, <2>2, <2>3, <2>5 DEF KeyPassed
    <3> QED
      BY <1>1, <1>6, <2>1, <2>3, <2>5, <3>1 DEF Joined, KeyPassed
  <2> QED
    BY <2>4, <2>5
<1>9. Len(p1[from]) = Len(p[from]) - 1
  BY <1>1, <1>3, <1>6
<1> QED
  BY <1>6, <1>7, <1>8, <1>9 DEF MovedOver

(* The rounds of the inner loop.                                           *)
Rounds(f, n, m, x, t) ==
  f = [i \in 0..n |-> IF i = 0 THEN [mem |-> m, at |-> x] ELSE Moved(f[i - 1], t)]

LEMMA RoundsExist ==
  ASSUME NEW m, NEW x, NEW t
  PROVE  \A n \in Nat : \E f : Rounds(f, n, m, x, t)
<1> DEFINE U == {n \in Nat : \E f : Rounds(f, n, m, x, t)}
<1>1. 0 \in U
  <2>1. PICK f : f = [i \in 0..0 |-> [mem |-> m, at |-> x]]
    OBVIOUS
  <2>2. f = [i \in 0..0 |-> IF i = 0 THEN [mem |-> m, at |-> x] ELSE Moved(f[i - 1], t)]
    BY <2>1
  <2> QED
    BY <2>2 DEF Rounds
<1>2. \A n \in Nat : n \in U => n + 1 \in U
  <2> SUFFICES ASSUME NEW n \in Nat, NEW f, Rounds(f, n, m, x, t)
               PROVE  \E g : Rounds(g, n + 1, m, x, t)
    OBVIOUS
  <2>1. PICK g : g = [i \in 0..(n + 1) |-> IF i = n + 1 THEN Moved(f[n], t) ELSE f[i]]
    OBVIOUS
  <2>2. ASSUME NEW i \in 0..(n + 1)
        PROVE  g[i] = IF i = 0 THEN [mem |-> m, at |-> x] ELSE Moved(g[i - 1], t)
    <3>1. CASE i = n + 1
      <4>1. n \in 0..(n + 1) /\ n # n + 1 /\ i - 1 = n /\ i # 0
        BY <3>1
      <4>2. g[n] = f[n] /\ g[i] = Moved(f[n], t)
        BY <2>1, <3>1, <4>1
      <4> QED
        BY <3>1, <4>1, <4>2
    <3>2. CASE i # n + 1
      <4>1. i \in 0..n
        BY <3>2
      <4>2. g[i] = f[i]
        BY <2>1, <3>2
      <4>3. i # 0 => i - 1 \in 0..(n + 1) /\ i - 1 # n + 1
        BY <4>1
      <4>4. i # 0 => g[i - 1] = f[i - 1]
        BY <2>1, <4>3
      <4>5. f[i] = IF i = 0 THEN [mem |-> m, at |-> x] ELSE Moved(f[i - 1], t)
        BY <4>1 DEF Rounds
      <4> QED
        BY <4>2, <4>4, <4>5
    <3> QED
      BY <3>1, <3>2
  <2>3. g = [i \in 0..(n + 1) |-> g[i]]
    BY <2>1
  <2> QED
    BY <2>2, <2>3 DEF Rounds
<1> HIDE DEF U
<1>3. \A n \in Nat : n \in U
  BY <1>1, <1>2, AllNaturals
<1> QED
  BY <1>3 DEF U

LEMMA MigrateChainRounds ==
  ASSUME NEW m, NEW x, NEW t, NEW n \in Nat, n = Cardinality(Nodes)
  PROVE  \E f : Rounds(f, n, m, x, t) /\ MigrateChain(m, x, t) = f[n].mem
<1> DEFINE Is(f) == Rounds(f, n, m, x, t)
           g == CHOOSE f : Is(f)
<1>1. Is(g)
  <2>1. \E f : Is(f)
    BY RoundsExist
  <2> QED
    BY <2>1
<1>2. MigrateChain(m, x, t) = g[n].mem
  BY DEF MigrateChain, Rounds
<1> QED
  BY <1>1, <1>2

Reached(q, i, n, J, p, m0, new, from) ==
  \E p1 : /\ MovedOver(p1, p, m0, new, J, from)
          /\ Carried(q, J, p1, m0, from)
          /\ Len(p1[from]) = 0 \/ Len(p1[from]) + i <= n

LEMMA NextRound ==
  ASSUME NEW q, NEW i \in Nat, NEW n \in Nat, NEW J, NEW p, NEW m0, NEW new, NEW from,
         Target(m0, J, new, from), Reached(q, i, n, J, p, m0, new, from)
  PROVE  Reached(Moved(q, new), i + 1, n, J, p, m0, new, from)
<1>1. PICK p1 : /\ MovedOver(p1, p, m0, new, J, from)
                /\ Carried(q, J, p1, m0, from)
                /\ Len(p1[from]) = 0 \/ Len(p1[from]) + i <= n
  BY DEF Reached
<1>2. PICK st : Chains(q.mem, J, st, p1) /\ st[from] = q.at
  BY <1>1 DEF Carried
<1>3. PICK s \in Seq(Nodes) : s = p1[from] /\ Linked(q.mem.name, q.at, s)
  BY <1>2 DEF Target, Chains, Family
<1>4. CASE q.at = Null
  <2>1. Moved(q, new) = q
    BY <1>4 DEF Moved
  <2>2. Len(p1[from]) = 0
    <3>1. s = <<>>
      BY <1>3, <1>4, Ends
    <3> QED
      BY <1>3, <3>1, EmptySeq
  <2> QED
    BY <1>1, <2>1, <2>2 DEF Reached
<1>5. CASE q.at # Null
  <2>1. PICK p2 : Passes(p2, p1, m0, new, J, from) /\ Carried(Moved(q, new), J, p2, m0, from)
    BY <1>1, <1>5, RoundMoves
  <2>2. MovedOver(p2, p1, m0, new, J, from) /\ Len(p2[from]) = Len(p1[from]) - 1
    BY <2>1, PassMovesOver
  <2>3. MovedOver(p2, p, m0, new, J, from)
    BY <1>1, <2>2 DEF MovedOver
  <2>4. PICK l \in Nat : l = Len(p1[from]) /\ l > 0
    BY <1>3, <2>1 DEF Passes
  <2>5. Len(p2[from]) + (i + 1) <= n
    <3>1. l + i <= n
      BY <1>1, <2>4
    <3>2. Len(p2[from]) = l - 1
      BY <2>2, <2>4
    <3> QED
      BY <3>1, <3>2
  <2> QED
    BY <2>1, <2>3, <2>5 DEF Reached
<1> QED
  BY <1>4, <1>5

(* The inner loop moves the whole chain.                                   *)
LEMMA ChainMoved ==
  ASSUME NEW m, NEW x, NEW J, NEW p, NEW m0, NEW new, NEW from, Target(m0, J, new, from),
         Carried([mem |-> m, at |-> x], J, p, m0, from)
  PROVE  \E p1 : /\ MovedOver(p1, p, m0, new, J, from)
                 /\ p1[from] = <<>>
                 /\ Carried([mem |-> MigrateChain(m, x, new), at |-> Null], J, p1, m0, from)
<1>1. PICK n \in Nat : n = Cardinality(Nodes)
  BY CountOfNodes
<1>2. PICK f : Rounds(f, n, m, x, new) /\ MigrateChain(m, x, new) = f[n].mem
  BY <1>1, MigrateChainRounds
<1> DEFINE U == {i \in Nat : i <= n => Reached(f[i], i, n, J, p, m0, new, from)}
<1>3. 0 \in U
  <2>1. f[0] = [mem |-> m, at |-> x]
    BY <1>2 DEF Rounds
  <2>2. PICK st : Chains(m, J, st, p)
    BY DEF Carried
  <2>3. Family(m.name, J, st, p) /\ from \in J /\ p \in [J -> Seq(Nodes)]
    BY <2>2 DEF Chains, Family, Target
  <2>4. p[from] \in Seq(Nodes) /\ Once(p[from])
    BY <2>3, OnceInFamily
  <2>5. Len(p[from]) <= n
    BY <1>1, <2>4, NodesEnough
  <2>6. Len(p[from]) + 0 <= n
    BY <2>4, <2>5
  <2>7. MovedOver(p, p, m0, new, J, from)
    BY <2>3 DEF MovedOver
  <2>8. Reached(f[0], 0, n, J, p, m0, new, from)
    BY <2>1, <2>6, <2>7 DEF Reached
  <2> QED
    BY <2>8
<1>4. \A i \in Nat : i \in U => i + 1 \in U
  <2> SUFFICES ASSUME NEW i \in Nat, Reached(f[i], i, n, J, p, m0, new, from), i + 1 <= n
               PROVE  Reached(f[i + 1], i + 1, n, J, p, m0, new, from)
    OBVIOUS
  <2>1. i + 1 \in 0..n /\ i + 1 # 0 /\ (i + 1) - 1 = i
    OBVIOUS
  <2>2. f[i + 1] = Moved(f[i], new)
    BY <1>2, <2>1 DEF Rounds
  <2> HIDE DEF U
  <2> QED
    BY <2>2, NextRound
<1>5. \A i \in Nat : i \in U
  <2> HIDE DEF U
  <2> QED
    BY <1>3, <1>4, AllNaturals
<1>6. PICK q : q = f[n] /\ Reached(q, n, n, J, p, m0, new, from)
  BY <1>5
<1>7. PICK p1 : /\ MovedOver(p1, p, m0, new, J, from)
                /\ Carried(q, J, p1, m0, from)
                /\ Len(p1[from]) = 0 \/ Len(p1[from]) + n <= n
  BY <1>6 DEF Reached
<1>8. PICK st : /\ Chains(q.mem, J, st, p1) /\ st[from] = q.at
                /\ ExceptAt(q.mem, J, st, from)
  BY <1>7 DEF Carried
<1>9. PICK s \in Seq(Nodes) : s = p1[from] /\ Linked(q.mem.name, q.at, s)
  BY <1>8 DEF Target, Chains, Family
<1>10. s = <<>> /\ q.at = Null
  <2>1. Len(s) = 0
    BY <1>7, <1>9
  <2>2. s = <<>>
    BY <2>1, EmptySeq
  <2> QED
    BY <1>9, <2>2, Ends
<1>11. PICK r : r = [mem |-> MigrateChain(m, x, new), at |-> Null]
  OBVIOUS
<1>12. r.mem = q.mem /\ r.at = q.at
  BY <1>2, <1>6, <1>10, <1>11
<1>13. Carried(r, J, p1, m0, from)
  BY <1>7, <1>8, <1>12 DEF Carried
<1> QED
  BY <1>7, <1>9, <1>10, <1>11, <1>13

-----------------------------------------------------------------------------
(* The chains of the cells J, all of them where their cells say.           *)
Holds(m, J, p) == Chains(m, J, [j \in J |-> At(m, j)], p)

LEMMA HoldsFrom ==
  ASSUME NEW m, NEW J, NEW st, NEW p, Chains(m, J, st, p), NEW K, K \subseteq J,
         \A j \in K : st[j] = At(m, j)
  PROVE  Holds(m, K, [j \in K |-> p[j]])
<1>1. PICK r, u : r = [j \in K |-> p[j]] /\ u = [j \in K |-> At(m, j)]
  OBVIOUS
<1>2. p \in [J -> Seq(Nodes)] /\ st \in [J -> Pointers]
  BY DEF Chains, Family
<1>3. r \in [K -> Seq(Nodes)] /\ u \in [K -> Pointers] /\ \A j \in K : r[j] = p[j] /\ u[j] = st[j]
  BY <1>1, <1>2
<1>4. \A j \in K : Linked(m.name, u[j], r[j])
  BY <1>3 DEF Chains, Family
<1>5. Distinct(K, r)
  BY <1>3 DEF Chains, Family, Distinct
<1>6. Family(m.name, K, u, r)
  BY <1>3, <1>4, <1>5 DEF Chains, Family
<1>7. AreCells(m, K)
  BY DEF Chains, AreCells
<1>8. InPlace(m, K, r)
  BY <1>3 DEF Chains, InPlace
<1>9. Chains(m, K, u, r)
  BY <1>6, <1>7, <1>8 DEF Chains
<1> QED
  BY <1>1, <1>9 DEF Holds

LEMMA HoldsWhen ==
  ASSUME NEW m, NEW J, NEW st, NEW p, Chains(m, J, st, p), \A j \in J : st[j] = At(m, j)
  PROVE  Holds(m, J, p)
<1>1. st \in [J -> Pointers]
  BY DEF Chains, Family
<1>2. st = [j \in J |-> At(m, j)]
  BY <1>1
<1> QED
  BY <1>2 DEF Holds

LEMMA CarriedFrom ==
  ASSUME NEW m, NEW J, NEW p, Holds(m, J, p), NEW m0, SameCells(m, m0), NEW from \in J
  PROVE  Carried([mem |-> m, at |-> At(m, from)], J, p, m0, from)
<1>0. PICK q : q = [mem |-> m, at |-> At(m, from)]
  OBVIOUS
<1>1. q.mem = m /\ q.at = At(m, from)
  BY <1>0
<1>2. PICK st : st = [j \in J |-> At(m, j)] /\ Chains(m, J, st, p)
  BY DEF Holds
<1>3. st[from] = q.at /\ ExceptAt(m, J, st, from)
  BY <1>1, <1>2 DEF ExceptAt
<1>4. Carried(q, J, p, m0, from)
  BY <1>1, <1>2, <1>3 DEF Carried
<1> QED
  BY <1>0, <1>4

-----------------------------------------------------------------------------
(***************************************************************************)
(* The outer loop: i cells of old have been emptied.                       *)
(***************************************************************************)
Left(J, old, i) == {j \in J : ~ (j[1] = old /\ j[2] < i)}

(* What a key holds in new, when i cells of old have been moved there.     *)
Gathered(p, p0, m0, old, new, i, k) ==
  WithKey(p[<<new, CellOf(m0, new, k)>>], k)
    = WithKey(p0[<<new, CellOf(m0, new, k)>>], k)
        \o (IF CellOf(m0, old, k) < i THEN WithKey(p0[<<old, CellOf(m0, old, k)>>], k) ELSE <<>>)

Migrating(m, i, p, J, p0, m0, old, new) ==
  /\ SameCells(m, m0)
  /\ Holds(m, Left(J, old, i), p)
  /\ \A j \in Left(J, old, i) : j[1] # new => p[j] = p0[j]
  /\ \A k \in Keys : Gathered(p, p0, m0, old, new, i, k)

Tables2(m0, J, p0, old, new) ==
  /\ Holds(m0, J, p0)
  /\ old \in Tables /\ new \in Tables /\ old # new
  /\ DOMAIN m0.cell[old] # {} /\ DOMAIN m0.cell[new] # {}
  /\ \A c \in DOMAIN m0.cell[old] : <<old, c>> \in J
  /\ \A c \in DOMAIN m0.cell[new] : <<new, c>> \in J

LEMMA GatherNext ==
  ASSUME NEW m0, NEW J, NEW p0, NEW old, NEW new, Tables2(m0, J, p0, old, new), NEW i \in Nat,
         NEW p, NEW p1, NEW from, from = <<old, i>>, from \in J, p[from] = p0[from],
         p1[from] = <<>>, NEW k \in Keys,
         Gathered(p, p0, m0, old, new, i, k),
         Joined(p1, m0, new, from, k) = Joined(p, m0, new, from, k),
         p[<<new, CellOf(m0, new, k)>>] \in Seq(Nodes),
         p1[<<new, CellOf(m0, new, k)>>] \in Seq(Nodes)
  PROVE  Gathered(p1, p0, m0, old, new, i + 1, k)
<1>1. PICK a, b, c, d :
        /\ a = WithKey(p[<<new, CellOf(m0, new, k)>>], k)
        /\ b = WithKey(p1[<<new, CellOf(m0, new, k)>>], k)
        /\ c = WithKey(p0[<<new, CellOf(m0, new, k)>>], k)
        /\ d = WithKey(p0[from], k)
  OBVIOUS
<1>2. a \in Seq(Nodes) /\ b \in Seq(Nodes)
  BY <1>1, WithKeySelects DEF Selection
<1>3. MemoryType(m0) /\ InPlace(m0, J, p0) /\ p0 \in [J -> Seq(Nodes)]
  BY DEF Tables2, Holds, Chains, Family
<1>4. c \in Seq(Nodes)
  <2>1. CellOf(m0, new, k) \in DOMAIN m0.cell[new]
    BY <1>3, CellOfIsCell DEF Tables2
  <2>2. p0[<<new, CellOf(m0, new, k)>>] \in Seq(Nodes)
    BY <1>3, <2>1 DEF Tables2
  <2> QED
    BY <1>1, <2>2, WithKeySelects DEF Selection
<1>5. b = a \o d
  <2>1. b \o WithKey(<<>>, k) = a \o d
    BY <1>1 DEF Joined
  <2>2. WithKey(<<>>, k) = <<>>
    BY WithKeyOfNone
  <2>3. b \o <<>> = b
    BY <1>2, ConcatEmptySeq
  <2> QED
    BY <2>1, <2>2, <2>3
<1>6. CellOf(m0, old, k) \in Nat
  BY <1>3, CellOfIsCell DEF Tables2
<1>7. CASE CellOf(m0, old, k) = i
  <2>1. ~ (CellOf(m0, old, k) < i)
    BY <1>6, <1>7
  <2>2. a = c \o <<>>
    BY <1>1, <2>1 DEF Gathered
  <2>3. c \o <<>> = c
    BY <1>4, ConcatEmptySeq
  <2>4. b = c \o d /\ i < i + 1
    BY <1>5, <2>2, <2>3
  <2> QED
    BY <1>1, <1>7, <2>4 DEF Gathered
<1>8. CASE CellOf(m0, old, k) # i
  <2>1. d = <<>>
    <3>1. PICK s \in Seq(Nodes) : s = p0[from]
      BY <1>3
    <3>2. ASSUME NEW e \in 1..Len(s) PROVE KeyOf[s[e]] # k
      <4>1. CellOf(m0, from[1], KeyOf[s[e]]) = from[2]
        BY <1>3, <3>1 DEF InPlace
      <4>2. from[1] = old /\ from[2] = i
        OBVIOUS
      <4> QED
        BY <1>8, <4>1, <4>2
    <3>3. WithKey(s, k) = <<>>
      BY <3>2, NoneWithKey
    <3> QED
      BY <1>1, <3>1, <3>3
  <2>2. b = a
    BY <1>2, <1>5, <2>1, ConcatEmptySeq
  <2>3. CellOf(m0, old, k) < i + 1 <=> CellOf(m0, old, k) < i
    BY <1>6, <1>8
  <2> QED
    BY <1>1, <2>2, <2>3 DEF Gathered
<1> QED
  BY <1>7, <1>8

LEMMA NextCell ==
  ASSUME NEW m0, NEW J, NEW p0, NEW old, NEW new, Tables2(m0, J, p0, old, new), NEW i \in Nat,
         i \in DOMAIN m0.cell[old],
         NEW m, NEW p, Migrating(m, i, p, J, p0, m0, old, new),
         NEW m1, m1 = MigrateChain(m, m.cell[old][i], new)
  PROVE  \E p1 : Migrating(m1, i + 1, p1, J, p0, m0, old, new)
<1>1. PICK from, L, K : from = <<old, i>> /\ L = Left(J, old, i) /\ K = Left(J, old, i + 1)
  OBVIOUS
<1>2. from \in L /\ from \in J /\ from[1] = old /\ from[2] = i /\ from[1] # new
  BY <1>1 DEF Left, Tables2
<1>3. AreCells(m0, J) /\ MemoryType(m0)
  BY DEF Tables2, Holds, Chains
<1>4. K = L \ {from}
  <2> SUFFICES ASSUME NEW j \in J PROVE j \in K <=> j \in L /\ j # from
    BY <1>1 DEF Left
  <2>1. PICK t \in Tables, c \in Nat : j = <<t, c>>
    BY <1>3 DEF AreCells
  <2>2. j[1] = t /\ j[2] = c
    BY <2>1
  <2>3. c < i + 1 <=> c < i \/ c = i
    OBVIOUS
  <2> QED
    BY <1>1, <2>1, <2>2, <2>3 DEF Left
<1>5. \A c \in DOMAIN m0.cell[new] : <<new, c>> \in L /\ <<new, c>> \in K
  BY <1>1 DEF Left, Tables2
<1>6. Target(m0, L, new, from)
  BY <1>2, <1>3, <1>5 DEF Target, Tables2
<1>7. Holds(m, L, p) /\ SameCells(m, m0) /\ p \in [L -> Seq(Nodes)]
  BY <1>1 DEF Migrating, Holds, Chains, Family
<1>8. Carried([mem |-> m, at |-> At(m, from)], L, p, m0, from)
  BY <1>2, <1>7, CarriedFrom
<1>9. m1 = MigrateChain(m, At(m, from), new)
  BY <1>2 DEF At
<1>10. PICK p1 : /\ MovedOver(p1, p, m0, new, L, from)
                 /\ p1[from] = <<>>
                 /\ Carried([mem |-> m1, at |-> Null], L, p1, m0, from)
  BY <1>6, <1>8, <1>9, ChainMoved
<1>11. PICK st : SameCells(m1, m0) /\ Chains(m1, L, st, p1) /\ ExceptAt(m1, L, st, from)
  BY <1>10 DEF Carried
<1>12. PICK p2 : p2 = [j \in K |-> p1[j]]
  OBVIOUS
<1>13. Holds(m1, K, p2)
  <2>1. K \subseteq L
    BY <1>4
  <2>2. \A j \in K : st[j] = At(m1, j)
    BY <1>4, <1>11 DEF ExceptAt
  <2> QED
    BY <1>11, <1>12, <2>1, <2>2, HoldsFrom
<1>14. \A j \in K : j[1] # new => p2[j] = p0[j]
  <2> SUFFICES ASSUME NEW j \in K, j[1] # new PROVE p2[j] = p0[j]
    OBVIOUS
  <2>1. j \in L /\ j # from /\ p2[j] = p1[j]
    BY <1>4, <1>12
  <2>2. p1[j] = p[j]
    BY <1>10, <2>1 DEF MovedOver
  <2>3. p[j] = p0[j]
    BY <1>1, <2>1 DEF Migrating
  <2> QED
    BY <2>1, <2>2, <2>3
<1>15. ASSUME NEW k \in Keys PROVE Gathered(p2, p0, m0, old, new, i + 1, k)
  <2>1. PICK h : h = <<new, CellOf(m0, new, k)>>
    OBVIOUS
  <2>2. CellOf(m0, new, k) \in DOMAIN m0.cell[new]
    BY <1>3, CellOfIsCell DEF Tables2
  <2>3. h \in L /\ h \in K /\ p2[h] = p1[h]
    BY <1>5, <1>12, <2>1, <2>2
  <2>4. p[h] \in Seq(Nodes) /\ p1[h] \in Seq(Nodes)
    BY <1>7, <1>10, <2>3 DEF MovedOver
  <2>5. p[from] = p0[from]
    BY <1>1, <1>2 DEF Migrating
  <2>6. Gathered(p, p0, m0, old, new, i, k)
    BY DEF Migrating
  <2>7. Joined(p1, m0, new, from, k) = Joined(p, m0, new, from, k)
    BY <1>10 DEF MovedOver
  <2>8. Gathered(p1, p0, m0, old, new, i + 1, k)
    BY <1>1, <1>2, <1>10, <2>1, <2>4, <2>5, <2>6, <2>7, GatherNext
  <2> QED
    BY <2>1, <2>3, <2>8 DEF Gathered
<1>16. Migrating(m1, i + 1, p2, J, p0, m0, old, new)
  BY <1>1, <1>11, <1>13, <1>14, <1>15 DEF Migrating
<1> QED
  BY <1>16

AfterCells(f, n, m, old, t) ==
  f = [i \in 0..n |->
         IF i = 0 THEN m ELSE MigrateChain(f[i - 1], f[i - 1].cell[old][i - 1], t)]

LEMMA AfterCellsExist ==
  ASSUME NEW m, NEW old, NEW t
  PROVE  \A n \in Nat : \E f : AfterCells(f, n, m, old, t)
<1> DEFINE U == {n \in Nat : \E f : AfterCells(f, n, m, old, t)}
           N(f, i) == MigrateChain(f[i], f[i].cell[old][i], t)
<1>1. 0 \in U
  <2>1. PICK f : f = [i \in 0..0 |-> m]
    OBVIOUS
  <2>2. f = [i \in 0..0 |->
               IF i = 0 THEN m ELSE MigrateChain(f[i - 1], f[i - 1].cell[old][i - 1], t)]
    BY <2>1
  <2> QED
    BY <2>2 DEF AfterCells
<1>2. \A n \in Nat : n \in U => n + 1 \in U
  <2> SUFFICES ASSUME NEW n \in Nat, NEW f, AfterCells(f, n, m, old, t)
               PROVE  \E g : AfterCells(g, n + 1, m, old, t)
    OBVIOUS
  <2>0. PICK y : y = N(f, n)
    OBVIOUS
  <2>1. PICK g : g = [i \in 0..(n + 1) |-> IF i = n + 1 THEN y ELSE f[i]]
    OBVIOUS
  <2>2. ASSUME NEW i \in 0..(n + 1)
        PROVE  g[i] = IF i = 0 THEN m
                      ELSE MigrateChain(g[i - 1], g[i - 1].cell[old][i - 1], t)
    <3>1. CASE i = n + 1
      <4>1. n \in 0..(n + 1) /\ n # n + 1 /\ i - 1 = n /\ i # 0
        BY <3>1
      <4>2. g[n] = f[n] /\ g[i] = y
        BY <2>1, <3>1, <4>1
      <4> QED
        BY <2>0, <3>1, <4>1, <4>2
    <3>2. CASE i # n + 1
      <4>1. i \in 0..n
        BY <3>2
      <4>2. g[i] = f[i]
        BY <2>1, <3>2
      <4>3. i # 0 => i - 1 \in 0..(n + 1) /\ i - 1 # n + 1
        BY <4>1
      <4>4. i # 0 => g[i - 1] = f[i - 1]
        BY <2>1, <4>3
      <4>5. f[i] = IF i = 0 THEN m
                   ELSE MigrateChain(f[i - 1], f[i - 1].cell[old][i - 1], t)
        BY <4>1 DEF AfterCells
      <4> QED
        BY <4>2, <4>4, <4>5
    <3> QED
      BY <3>1, <3>2
  <2>3. g = [i \in 0..(n + 1) |-> g[i]]
    BY <2>1
  <2> QED
    BY <2>2, <2>3 DEF AfterCells
<1> HIDE DEF U
<1>3. \A n \in Nat : n \in U
  BY <1>1, <1>2, AllNaturals
<1> QED
  BY <1>3 DEF U

CountsCells(n, m, old) == n \in Nat /\ n = Cardinality(DOMAIN m.cell[old])

LEMMA MigrateCells ==
  ASSUME NEW m, NEW old, NEW t, NEW n, CountsCells(n, m, old)
  PROVE  \E f : AfterCells(f, n, m, old, t) /\ Migrate(m, old, t) = f[n]
<1> DEFINE Is(f) == AfterCells(f, n, m, old, t)
           g == CHOOSE f : Is(f)
<1>1. Is(g)
  <2>1. \E f : Is(f)
    BY AfterCellsExist DEF CountsCells
  <2> QED
    BY <2>1
<1>2. Migrate(m, old, t) = g[n]
  BY DEF Migrate, AfterCells, CountsCells
<1> QED
  BY <1>1, <1>2

(* The chains of old have moved to new, behind what was there; the other   *)
(* chains are as they were.                                                *)
LEMMA Migrated ==
  ASSUME NEW m0, NEW J, NEW p0, NEW old, NEW new, Tables2(m0, J, p0, old, new),
         NEW n \in Nat, n = Cardinality(DOMAIN m0.cell[old]), DOMAIN m0.cell[old] = 0..(n - 1)
  PROVE  \E p : Migrating(Migrate(m0, old, new), n, p, J, p0, m0, old, new)
<1>1. PICK f : AfterCells(f, n, m0, old, new) /\ Migrate(m0, old, new) = f[n]
  <2>1. CountsCells(n, m0, old)
    BY DEF CountsCells
  <2> QED
    BY <2>1, MigrateCells
<1> DEFINE U == {i \in Nat : i <= n => \E p : Migrating(f[i], i, p, J, p0, m0, old, new)}
<1>2. 0 \in U
  <2>1. f[0] = m0
    <3>1. 0 \in 0..n
      OBVIOUS
    <3> QED
      BY <1>1, <3>1 DEF AfterCells
  <2>2. AreCells(m0, J) /\ MemoryType(m0) /\ p0 \in [J -> Seq(Nodes)]
    BY DEF Tables2, Holds, Chains, Family
  <2>3. Left(J, old, 0) = J
    <3>1. ASSUME NEW j \in J PROVE ~ (j[2] < 0)
      <4>1. PICK t \in Tables, c \in Nat : j = <<t, c>>
        BY <2>2 DEF AreCells
      <4> QED
        BY <4>1
    <3> QED
      BY <3>1 DEF Left
  <2>4. ASSUME NEW k \in Keys PROVE Gathered(p0, p0, m0, old, new, 0, k)
    <3>1. PICK c : c = WithKey(p0[<<new, CellOf(m0, new, k)>>], k)
      OBVIOUS
    <3>2. CellOf(m0, new, k) \in DOMAIN m0.cell[new] /\ CellOf(m0, old, k) \in Nat
      BY <2>2, CellOfIsCell DEF Tables2
    <3>3. p0[<<new, CellOf(m0, new, k)>>] \in Seq(Nodes)
      BY <2>2, <3>2 DEF Tables2
    <3>4. c \in Seq(Nodes)
      BY <3>1, <3>3, WithKeySelects DEF Selection
    <3>5. ~ (CellOf(m0, old, k) < 0)
      BY <3>2
    <3>6. c = c \o <<>>
      BY <3>4, ConcatEmptySeq
    <3> QED
      BY <3>1, <3>5, <3>6 DEF Gathered
  <2>5. Migrating(m0, 0, p0, J, p0, m0, old, new)
    BY <2>3, <2>4 DEF Migrating, Tables2, SameCells
  <2> QED
    BY <2>1, <2>5
<1>3. ASSUME NEW i \in Nat, i \in U PROVE i + 1 \in U
  <2> SUFFICES ASSUME i + 1 <= n
               PROVE  \E p : Migrating(f[i + 1], i + 1, p, J, p0, m0, old, new)
    OBVIOUS
  <2>1. PICK p : Migrating(f[i], i, p, J, p0, m0, old, new)
    BY <1>3
  <2>2. i \in 0..(n - 1) /\ i + 1 \in 0..n /\ i + 1 # 0 /\ (i + 1) - 1 = i
    OBVIOUS
  <2>3. f[i + 1] = MigrateChain(f[i], f[i].cell[old][i], new)
    BY <1>1, <2>2 DEF AfterCells
  <2> HIDE DEF U
  <2> QED
    BY <2>1, <2>2, <2>3, NextCell
<1>4. \A i \in Nat : i \in U
  <2> HIDE DEF U
  <2> QED
    BY <1>2, <1>3, AllNaturals
<1>5. \E p : Migrating(f[n], n, p, J, p0, m0, old, new)
  BY <1>4
<1> QED
  BY <1>1, <1>5

-----------------------------------------------------------------------------
(***************************************************************************)
(* The invariant: p is the chain of every cell of the tables in use.  S is *)
(* the set of stale tables.                                                *)
(***************************************************************************)
Slots(m, S) == {j \in Tables \X Nat : j[1] \notin S /\ j[2] \in DOMAIN m.cell[j[1]]}

Knows(m, S, p) == Holds(m, Slots(m, S), p)

HashInv == \E p : Knows(mem, stale, p)

LEMMA SlotsAre ==
  ASSUME NEW m, NEW S, NEW j \in Slots(m, S)
  PROVE  /\ j[1] \in Tables /\ j[2] \in Nat /\ j = <<j[1], j[2]>>
         /\ j[1] \notin S /\ j[2] \in DOMAIN m.cell[j[1]]
BY DEF Slots

LEMMA SlotsAreCells ==
  ASSUME NEW m, NEW S
  PROVE  AreCells(m, Slots(m, S))
<1> SUFFICES ASSUME NEW j \in Slots(m, S)
             PROVE  \E t \in Tables : \E c \in Nat : j = <<t, c>> /\ c \in DOMAIN m.cell[t]
  BY DEF AreCells
<1> QED
  BY SlotsAre

LEMMA IsSlot ==
  ASSUME NEW m, MemoryType(m), NEW S, NEW t \in Tables, t \notin S, NEW c \in DOMAIN m.cell[t]
  PROVE  <<t, c>> \in Slots(m, S) /\ c \in Nat
<1>1. c \in Nat
  BY CellsAre
<1> QED
  BY <1>1 DEF Slots

LEMMA SlotsStay ==
  ASSUME NEW m, NEW m1, NEW S, SameCells(m1, m)
  PROVE  Slots(m1, S) = Slots(m, S)
<1>1. ASSUME NEW j \in Tables \X Nat
      PROVE  DOMAIN m1.cell[j[1]] = DOMAIN m.cell[j[1]]
  BY DEF SameCells
<1> QED
  BY <1>1 DEF Slots

(* What Knows says of one cell.                                            *)
LEMMA Known ==
  ASSUME NEW m, NEW S, NEW p, Knows(m, S, p)
  PROVE  /\ MemoryType(m)
         /\ p \in [Slots(m, S) -> Seq(Nodes)]
         /\ Distinct(Slots(m, S), p)
         /\ InPlace(m, Slots(m, S), p)
         /\ \A j \in Slots(m, S) : Linked(m.name, At(m, j), p[j]) /\ Once(p[j])
<1>1. PICK st : /\ Chains(m, Slots(m, S), st, p)
                /\ \A j \in Slots(m, S) : st[j] = At(m, j)
  BY DEF Knows, Holds
<1>2. Family(m.name, Slots(m, S), st, p)
  BY <1>1 DEF Chains
<1>3. MemoryType(m) /\ InPlace(m, Slots(m, S), p)
  BY <1>1 DEF Chains
<1>4. \A j \in Slots(m, S) : Linked(m.name, At(m, j), p[j]) /\ Once(p[j])
  BY <1>1, <1>2, OnceInFamily
<1> QED
  BY <1>2, <1>3, <1>4 DEF Family

LEMMA KnownFrom ==
  ASSUME NEW m, NEW S, NEW p, NEW J, J = Slots(m, S), MemoryType(m), p \in [J -> Seq(Nodes)],
         Distinct(J, p), InPlace(m, J, p), \A j \in J : Linked(m.name, At(m, j), p[j])
  PROVE  Knows(m, S, p)
<1>1. PICK st : st = [j \in J |-> At(m, j)]
  OBVIOUS
<1>2. ASSUME NEW j \in J PROVE At(m, j) \in Pointers
  <2>1. j[1] \in Tables /\ j[2] \in DOMAIN m.cell[j[1]]
    BY SlotsAre
  <2>2. m.cell[j[1]][j[2]] \in Pointers
    BY <2>1, CellsAre
  <2> QED
    BY <2>2 DEF At
<1>3. st \in [J -> Pointers] /\ \A j \in J : st[j] = At(m, j)
  BY <1>1, <1>2
<1>4. \A j \in J : Linked(m.name, st[j], p[j])
  BY <1>3
<1>5. m.name \in [Nodes -> Pointers]
  BY DEF MemoryType
<1>6. Family(m.name, J, st, p)
  BY <1>3, <1>4, <1>5 DEF Family
<1>7. Chains(m, J, st, p)
  BY <1>6, SlotsAreCells DEF Chains
<1> QED
  BY <1>1, <1>7 DEF Knows, Holds

(* Table t, which is given cells, has none of them filled; the others are  *)
(* left as they are.                                                       *)
Empties(m1, S1, m, S, t) ==
  /\ t \in Tables /\ MemoryType(m1)
  /\ m1.name = m.name
  /\ \A c \in DOMAIN m1.cell[t] : m1.cell[t][c] = Null
  /\ \A u \in Tables : u # t => m1.cell[u] = m.cell[u] /\ (u \in S1 <=> u \in S)

Emptied(p1, p, J1, t) == \A j \in J1 : p1[j] = IF j[1] = t THEN <<>> ELSE p[j]

LEMMA EmptiesOne ==
  ASSUME NEW m1, NEW S1, NEW m, NEW S, NEW t, Empties(m1, S1, m, S, t), NEW p, Knows(m, S, p)
  PROVE  \E p1 : Knows(m1, S1, p1) /\ Emptied(p1, p, Slots(m1, S1), t)
<1>1. PICK J, J1 : J = Slots(m, S) /\ J1 = Slots(m1, S1)
  OBVIOUS
<1>2. /\ p \in [J -> Seq(Nodes)] /\ Distinct(J, p) /\ InPlace(m, J, p)
      /\ \A j \in J : Linked(m.name, At(m, j), p[j])
  BY <1>1, Known
<1>3. PICK p1 : p1 = [j \in J1 |-> IF j[1] = t THEN <<>> ELSE p[j]]
  OBVIOUS
<1>4. ASSUME NEW j \in J1, j[1] # t
      PROVE  /\ j \in J /\ p1[j] = p[j] /\ m1.cell[j[1]] = m.cell[j[1]]
  <2>1. /\ j[1] \in Tables /\ j[2] \in Nat /\ j = <<j[1], j[2]>>
        /\ j[1] \notin S1 /\ j[2] \in DOMAIN m1.cell[j[1]]
    BY <1>1, SlotsAre
  <2>2. m1.cell[j[1]] = m.cell[j[1]] /\ j[1] \notin S
    BY <1>4, <2>1 DEF Empties
  <2> QED
    BY <1>1, <1>3, <1>4, <2>1, <2>2 DEF Slots
<1>5. ASSUME NEW j \in J1, j[1] = t PROVE p1[j] = <<>> /\ At(m1, j) = Null
  <2>1. j[2] \in DOMAIN m1.cell[j[1]]
    BY <1>1, SlotsAre
  <2> QED
    BY <1>3, <1>5, <2>1 DEF Empties, At
<1>6. <<>> \in Seq(Nodes) /\ Len(<<>>) = 0 /\ ~ \E a \in 1..0 : TRUE
  BY EmptySeq
<1>7. p1 \in [J1 -> Seq(Nodes)]
  <2>1. \A j \in J1 : p1[j] \in Seq(Nodes)
    BY <1>2, <1>4, <1>5, <1>6
  <2> QED
    BY <1>3, <2>1
<1>8. ASSUME NEW j \in J1, NEW a \in 1..Len(p1[j]) PROVE j \in J /\ p1[j] = p[j] /\ j[1] # t
  <2>1. j[1] # t
    BY <1>5, <1>6
  <2> QED
    BY <1>4, <2>1
<1>9. Distinct(J1, p1)
  <2> SUFFICES ASSUME NEW j \in J1, NEW k \in J1, NEW a \in 1..Len(p1[j]), NEW b \in 1..Len(p1[k]),
                      p1[j][a] = p1[k][b]
               PROVE  j = k /\ a = b
    BY DEF Distinct
  <2>1. j \in J /\ p1[j] = p[j] /\ k \in J /\ p1[k] = p[k]
    BY <1>8
  <2> QED
    BY <1>2, <2>1 DEF Distinct
<1>10. InPlace(m1, J1, p1)
  <2> SUFFICES ASSUME NEW j \in J1, NEW a \in 1..Len(p1[j])
               PROVE  CellOf(m1, j[1], KeyOf[p1[j][a]]) = j[2]
    BY DEF InPlace
  <2>1. j \in J /\ p1[j] = p[j] /\ m1.cell[j[1]] = m.cell[j[1]]
    BY <1>4, <1>8
  <2>2. CellOf(m, j[1], KeyOf[p[j][a]]) = j[2]
    BY <1>2, <2>1 DEF InPlace
  <2> QED
    BY <2>1, <2>2 DEF CellOf
<1>11. ASSUME NEW j \in J1 PROVE Linked(m1.name, At(m1, j), p1[j])
  <2>1. CASE j[1] = t
    <3>1. p1[j] = <<>> /\ At(m1, j) = Null
      BY <1>5, <2>1
    <3>2. Linked(m1.name, Null, <<>>)
      BY <1>6 DEF Linked, Follows
    <3> QED
      BY <3>1, <3>2
  <2>2. CASE j[1] # t
    <3>1. j \in J /\ p1[j] = p[j] /\ At(m1, j) = At(m, j)
      BY <1>4, <2>2 DEF At
    <3>2. m1.name = m.name
      BY DEF Empties
    <3> QED
      BY <1>2, <3>1, <3>2
  <2> QED
    BY <2>1, <2>2
<1>12. MemoryType(m1)
  BY DEF Empties
<1>13. Knows(m1, S1, p1)
  BY <1>1, <1>7, <1>9, <1>10, <1>11, <1>12, KnownFrom
<1> QED
  BY <1>1, <1>3, <1>13 DEF Emptied

(* hash_create, HASH_TABLE_FREE and HASH_TABLE_CLEAR empty a table.        *)
LEMMA GivenCells ==
  ASSUME NEW m, MemoryType(m), NEW S, NEW S1, NEW t \in Tables, \A u \in Tables \ {t} : u \in S1 <=> u \in S,
         NEW r \in CellArrays, \A c \in DOMAIN r : r[c] = Null
  PROVE  Empties([m EXCEPT !.cell[t] = r], S1, m, S, t)
<1>1. PICK m1 : m1 = [m EXCEPT !.cell[t] = r]
  OBVIOUS
<1>2. m = [cell |-> m.cell, name |-> m.name] /\ m.cell \in [Tables -> CellArrays]
  BY DEF MemoryType
<1>3. m1 = [cell |-> [m.cell EXCEPT ![t] = r], name |-> m.name]
  BY <1>1, <1>2
<1>4. m1.cell = [m.cell EXCEPT ![t] = r] /\ m1.name = m.name
  BY <1>3
<1>5. /\ m1.cell \in [Tables -> CellArrays] /\ m1.cell[t] = r
      /\ \A u \in Tables : u # t => m1.cell[u] = m.cell[u]
  BY <1>2, <1>4
<1>6. MemoryType(m1)
  BY <1>3, <1>4, <1>5 DEF MemoryType
<1>7. Empties(m1, S1, m, S, t)
  BY <1>4, <1>5, <1>6 DEF Empties
<1> QED
  BY <1>1, <1>7

LEMMA NullCells ==
  ASSUME NEW n \in Nat, NEW C, C = 0..(n - 1)
  PROVE  [c \in C |-> Null] \in CellArrays
<1>1. PICK r : r = [c \in C |-> Null]
  OBVIOUS
<1>2. r \in [0..(n - 1) -> Pointers]
  BY <1>1 DEF Pointers
<1>3. r \in CellArrays
  BY <1>2 DEF CellArrays
<1> QED
  BY <1>1, <1>3

LEMMA NoCellsAreCells == NoCells \in CellArrays
<1>1. 0..(0 - 1) = {}
  OBVIOUS
<1>2. [c \in 0..(0 - 1) |-> Null] \in CellArrays
  BY NullCells
<1> QED
  BY <1>1, <1>2 DEF NoCells

LEMMA CreateEmpties ==
  ASSUME NEW t \in Tables, HashCreate(t), MemoryType(mem)
  PROVE  Empties(mem', stale', mem, stale, t)
<1>1. PICK n \in Sizes : mem' = [mem EXCEPT !.cell[t] = [c \in 0..(n - 1) |-> Null]]
  BY DEF HashCreate, Becomes
<1>2. n \in Nat
  BY HashAssumption
<1>3. PICK r : r = [c \in 0..(n - 1) |-> Null]
  OBVIOUS
<1>4. r \in CellArrays
  BY <1>2, <1>3, NullCells
<1>5. \A c \in DOMAIN r : r[c] = Null
  BY <1>3
<1>6. Empties([mem EXCEPT !.cell[t] = r], stale', mem, stale, t)
  BY <1>4, <1>5, GivenCells DEF HashCreate
<1> QED
  BY <1>1, <1>3, <1>6

LEMMA FreeEmpties ==
  ASSUME NEW t \in Tables, HashTableFree(t), MemoryType(mem)
  PROVE  Empties(mem', stale', mem, stale, t)
<1>1. mem' = [mem EXCEPT !.cell[t] = NoCells] /\ stale' = stale \ {t}
  BY DEF HashTableFree, Becomes
<1>2. \A c \in DOMAIN NoCells : NoCells[c] = Null
  BY DEF NoCells
<1>3. \A u \in Tables \ {t} : u \in stale' <=> u \in stale
  BY <1>1
<1> QED
  BY <1>1, <1>2, <1>3, NoCellsAreCells, GivenCells

LEMMA ClearEmpties ==
  ASSUME NEW t \in Tables, HashTableClear(t), MemoryType(mem)
  PROVE  Empties(mem', stale', mem, stale, t)
<1>1. mem' = Cleared(mem, t) /\ stale' = stale \ {t}
  BY DEF HashTableClear, Becomes
<1>2. PICK r : r = [c \in DOMAIN mem.cell[t] |-> Null]
  OBVIOUS
<1>3. mem' = [mem EXCEPT !.cell[t] = r]
  BY <1>1, <1>2 DEF Cleared
<1>4. r \in CellArrays
  BY <1>2, CellsAre, NullCells
<1>5. \A c \in DOMAIN r : r[c] = Null
  BY <1>2
<1>6. \A u \in Tables \ {t} : u \in stale' <=> u \in stale
  BY <1>1
<1> QED
  BY <1>3, <1>4, <1>5, <1>6, GivenCells

(* The nodes of a table.                                                   *)
InTable(m, t) == UNION {Members(Chain(m, m.cell[t][c])) : c \in DOMAIN m.cell[t]}

LEMMA ChainKnown ==
  ASSUME NEW m, NEW S, NEW p, Knows(m, S, p), NEW t \in Tables, t \notin S,
         NEW c \in DOMAIN m.cell[t]
  PROVE  Chain(m, m.cell[t][c]) = p[<<t, c>>]
<1>1. <<t, c>> \in Slots(m, S)
  BY Known, IsSlot
<1>2. PICK j : j = <<t, c>> /\ j \in Slots(m, S)
  BY <1>1
<1>3. /\ p[j] \in Seq(Nodes) /\ Once(p[j]) /\ Linked(m.name, At(m, j), p[j])
  BY <1>2, Known
<1>4. At(m, j) = m.cell[t][c]
  BY <1>2 DEF At
<1> QED
  BY <1>2, <1>3, <1>4, ChainIs

LEMMA InTableKnown ==
  ASSUME NEW m, NEW S, NEW p, Knows(m, S, p), NEW t \in Tables, t \notin S, NEW x
  PROVE  x \in InTable(m, t)
           <=> \E j \in Slots(m, S) : j[1] = t /\ \E a \in 1..Len(p[j]) : p[j][a] = x
<1>1. x \in InTable(m, t) <=> \E c \in DOMAIN m.cell[t] : x \in Members(Chain(m, m.cell[t][c]))
  BY DEF InTable
<1>2. ASSUME NEW j \in Slots(m, S)
      PROVE  x \in Members(p[j]) <=> \E a \in 1..Len(p[j]) : p[j][a] = x
  <2>1. p[j] \in Seq(Nodes)
    BY Known
  <2>2. DOMAIN p[j] = 1..Len(p[j])
    BY <2>1
  <2> QED
    BY <2>2 DEF Members
<1>3. ASSUME x \in InTable(m, t)
      PROVE  \E j \in Slots(m, S) : j[1] = t /\ \E a \in 1..Len(p[j]) : p[j][a] = x
  <2>1. PICK c \in DOMAIN m.cell[t] : x \in Members(Chain(m, m.cell[t][c]))
    BY <1>1, <1>3
  <2>0. <<t, c>> \in Slots(m, S)
    BY Known, IsSlot
  <2>2. PICK j : j = <<t, c>> /\ j \in Slots(m, S) /\ j[1] = t
    BY <2>0
  <2>3. x \in Members(p[j])
    BY <2>1, <2>2, ChainKnown
  <2> QED
    BY <1>2, <2>2, <2>3
<1>4. ASSUME NEW j \in Slots(m, S), j[1] = t, NEW a \in 1..Len(p[j]), p[j][a] = x
      PROVE  x \in InTable(m, t)
  <2>1. j = <<t, j[2]>> /\ j[2] \in DOMAIN m.cell[t]
    BY <1>4, SlotsAre
  <2>2. x \in Members(p[j])
    BY <1>2, <1>4
  <2>3. Chain(m, m.cell[t][j[2]]) = p[j]
    BY <2>1, ChainKnown
  <2> QED
    BY <1>1, <2>1, <2>2, <2>3
<1> QED
  BY <1>3, <1>4

(* HASH_INSERT and HASH_DELETE change one chain.                           *)
KnownInsert(m1, p1, m, S, p, t, x, j) ==
  /\ Knows(m1, S, p1)
  /\ SameCells(m1, m)
  /\ p1 = [p EXCEPT ![j] = Append(p[j], x)]

LEMMA InsertKnown ==
  ASSUME NEW m, NEW S, NEW p, Knows(m, S, p), NEW t \in Tables, t \notin S,
         DOMAIN m.cell[t] # {}, NEW x \in Nodes, Outside(x, Slots(m, S), p),
         NEW j, j = <<t, CellOf(m, t, KeyOf[x])>>
  PROVE  \E p1 : KnownInsert(Insert(m, t, x), p1, m, S, p, t, x, j) /\ j \in Slots(m, S)
<1>1. PICK J, m1, p1, st : /\ J = Slots(m, S) /\ m1 = Insert(m, t, x)
                           /\ p1 = [p EXCEPT ![j] = Append(p[j], x)]
                           /\ st = [k \in J |-> At(m, k)]
  OBVIOUS
<1>2. Chains(m, J, st, p) /\ \A k \in J : st[k] = At(m, k)
  BY <1>1 DEF Knows, Holds
<1>3. j \in J
  <2>1. KeyOf[x] \in Keys
    BY HashAssumption
  <2>2. CellOf(m, t, KeyOf[x]) \in DOMAIN m.cell[t]
    BY <2>1, Known, CellOfIsCell
  <2> QED
    BY <1>1, <2>2, Known, IsSlot
<1>4. Inserts(m1, p1, m, t, x, J, st, p, j)
  BY <1>1, <1>2, <1>3 DEF Inserts
<1>5. PICK st1 : Chains(m1, J, st1, p1) /\ ChangedAt(m1, st1, m, st, J, j)
  BY <1>4, Inserted
<1>6. \A k \in J : st1[k] = At(m1, k)
  BY <1>2, <1>5 DEF ChangedAt
<1>7. Holds(m1, J, p1)
  BY <1>5, <1>6, HoldsWhen
<1>8. SameCells(m1, m)
  BY <1>5 DEF ChangedAt
<1>9. J = Slots(m1, S)
  BY <1>1, <1>8, SlotsStay
<1>10. Knows(m1, S, p1)
  BY <1>7, <1>9 DEF Knows
<1> QED
  BY <1>1, <1>3, <1>8, <1>10 DEF KnownInsert

KnownDelete(m1, p1, m, S, p, j, i, w) ==
  /\ Knows(m1, S, p1)
  /\ SameCells(m1, m)
  /\ Without(w, p[j], i)
  /\ p1 = [p EXCEPT ![j] = w]

LEMMA DeleteKnown ==
  ASSUME NEW m, NEW S, NEW p, Knows(m, S, p), NEW j \in Slots(m, S), NEW i \in 1..Len(p[j]),
         NEW t, t = j[1], NEW x, x = p[j][i]
  PROVE  \E p1, w : KnownDelete(Delete(m, t, x), p1, m, S, p, j, i, w)
<1>1. PICK J, m1, st : /\ J = Slots(m, S) /\ m1 = Delete(m, t, p[j][i])
                       /\ st = [k \in J |-> At(m, k)]
  OBVIOUS
<1>2. Chains(m, J, st, p) /\ \A k \in J : st[k] = At(m, k)
  BY <1>1 DEF Knows, Holds
<1>3. p[j] \in Seq(Nodes)
  BY Known
<1>4. PICK w : Without(w, p[j], i)
  BY <1>3, WithoutExists
<1>5. PICK p1 : p1 = [p EXCEPT ![j] = w]
  OBVIOUS
<1>6. Deletes(m1, p1, m, t, J, st, p, j, i)
  BY <1>1, <1>2, <1>4, <1>5 DEF Deletes
<1>7. PICK st1 : Chains(m1, J, st1, p1) /\ ChangedAt(m1, st1, m, st, J, j)
  BY <1>6, Deleted
<1>8. \A k \in J : st1[k] = At(m1, k)
  BY <1>2, <1>7 DEF ChangedAt
<1>9. Holds(m1, J, p1)
  BY <1>7, <1>8, HoldsWhen
<1>10. SameCells(m1, m)
  BY <1>7 DEF ChangedAt
<1>11. J = Slots(m1, S)
  BY <1>1, <1>10, SlotsStay
<1>12. Knows(m1, S, p1)
  BY <1>9, <1>11 DEF Knows
<1> QED
  BY <1>1, <1>4, <1>5, <1>10, <1>12 DEF KnownDelete

(* HASH_MIGRATE moves every chain of old, which is stale from then on.     *)
KnownMigrate(m1, p1, m, S, p, old, new) ==
  /\ Knows(m1, S \cup {old}, p1)
  /\ SameCells(m1, m)
  /\ \A j \in Slots(m1, S \cup {old}) : j \in Slots(m, S) /\ (j[1] # new => p1[j] = p[j])
  /\ \E n \in Nat : \A k \in Keys : CellOf(m, old, k) < n /\ Gathered(p1, p, m, old, new, n, k)

LEMMA MigrateKnown ==
  ASSUME NEW m, NEW S, NEW p, Knows(m, S, p),
         NEW old \in Tables, NEW new \in Tables, old # new, old \notin S, new \notin S,
         DOMAIN m.cell[old] # {}, DOMAIN m.cell[new] # {}
  PROVE  \E p1 : KnownMigrate(Migrate(m, old, new), p1, m, S, p, old, new)
<1>1. PICK J, m1 : J = Slots(m, S) /\ m1 = Migrate(m, old, new)
  OBVIOUS
<1>2. MemoryType(m)
  BY Known
<1>3. PICK n \in Nat : DOMAIN m.cell[old] = 0..(n - 1) /\ n = Cardinality(DOMAIN m.cell[old])
  BY <1>2, CellsAre
<1>4. Holds(m, J, p)
  BY <1>1 DEF Knows
<1>5. \A c \in DOMAIN m.cell[old] : <<old, c>> \in J
  BY <1>1, <1>2, IsSlot
<1>6. \A c \in DOMAIN m.cell[new] : <<new, c>> \in J
  BY <1>1, <1>2, IsSlot
<1>7. Tables2(m, J, p, old, new)
  BY <1>4, <1>5, <1>6 DEF Tables2
<1>8. PICK p1 : Migrating(m1, n, p1, J, p, m, old, new)
  BY <1>1, <1>3, <1>7, Migrated
<1>9. SameCells(m1, m)
  BY <1>8 DEF Migrating
<1>10. Slots(m1, S \cup {old}) = Left(J, old, n)
  <2>1. Slots(m1, S \cup {old}) = Slots(m, S \cup {old})
    BY <1>9, SlotsStay
  <2>2. ASSUME NEW j \in J, j[1] = old PROVE j[2] < n
    <3>1. j[2] \in DOMAIN m.cell[old]
      BY <1>1, <2>2, SlotsAre
    <3> QED
      BY <1>3, <3>1
  <2>3. Slots(m, S \cup {old}) = {j \in J : j[1] # old}
    BY <1>1 DEF Slots
  <2> QED
    BY <2>1, <2>2, <2>3 DEF Left
<1>11. Knows(m1, S \cup {old}, p1)
  BY <1>8, <1>10 DEF Knows, Migrating
<1>12. ASSUME NEW j \in Slots(m1, S \cup {old})
       PROVE  j \in Slots(m, S) /\ (j[1] # new => p1[j] = p[j])
  <2>1. j \in Left(J, old, n)
    BY <1>10
  <2>2. j \in J
    BY <2>1 DEF Left
  <2> QED
    BY <1>1, <1>8, <2>1, <2>2 DEF Migrating
<1>13. ASSUME NEW k \in Keys PROVE CellOf(m, old, k) < n /\ Gathered(p1, p, m, old, new, n, k)
  <2>1. CellOf(m, old, k) \in 0..(n - 1)
    BY <1>2, <1>3, CellOfIsCell
  <2>2. CellOf(m, old, k) < n
    BY <2>1
  <2> QED
    BY <1>8, <2>2 DEF Migrating
<1>14. KnownMigrate(m1, p1, m, S, p, old, new)
  BY <1>9, <1>11, <1>12, <1>13 DEF KnownMigrate
<1> QED
  BY <1>1, <1>14

-----------------------------------------------------------------------------
LEMMA NodesInTable == \A t : NodesIn(t) = InTable(mem, t)
BY DEF NodesIn, InTable, NodesAt, Cells

(* The call HASH_INSERT(t, x) of a node that no table in use holds.        *)
LEMMA InsertedNode ==
  ASSUME NEW p, Knows(mem, stale, p), NEW t \in Tables, HashInsert(t)
  PROVE  \E x \in Nodes : \E p1, j :
           /\ Outside(x, Slots(mem, stale), p)
           /\ j = <<t, CellOf(mem, t, KeyOf[x])>> /\ j \in Slots(mem, stale)
           /\ KnownInsert(mem', p1, mem, stale, p, t, x, j)
           /\ Becomes(mem', "insert", t, x)
           /\ stale' = stale /\ t \notin stale
<1>1. PICK x \in Nodes \ UNION {NodesIn(u) : u \in Usable} : Becomes(Insert(mem, t, x), "insert", t, x)
  BY DEF HashInsert
<1>2. t \notin stale /\ DOMAIN mem.cell[t] # {} /\ stale' = stale
  BY DEF HashInsert, Usable, Cells
<1>3. Outside(x, Slots(mem, stale), p)
  <2> SUFFICES ASSUME NEW j \in Slots(mem, stale), NEW a \in 1..Len(p[j]), p[j][a] = x
               PROVE  FALSE
    BY DEF Outside
  <2>1. j[1] \in Tables /\ j[1] \notin stale /\ DOMAIN mem.cell[j[1]] # {}
    BY SlotsAre
  <2>2. x \in InTable(mem, j[1])
    BY <2>1, InTableKnown
  <2>3. j[1] \in Usable /\ x \in NodesIn(j[1])
    BY <2>1, <2>2, NodesInTable DEF Usable, Cells
  <2> QED
    BY <2>3
<1>4. x \in Nodes
  OBVIOUS
<1>5. PICK j : j = <<t, CellOf(mem, t, KeyOf[x])>>
  OBVIOUS
<1>6. PICK p1 : KnownInsert(Insert(mem, t, x), p1, mem, stale, p, t, x, j) /\ j \in Slots(mem, stale)
  BY <1>2, <1>3, <1>4, <1>5, InsertKnown
<1>7. mem' = Insert(mem, t, x)
  BY <1>1 DEF Becomes
<1> QED
  BY <1>1, <1>2, <1>3, <1>4, <1>5, <1>6, <1>7

(* The call HASH_DELETE(t, x) of a node that t holds.                      *)
LEMMA DeletedNode ==
  ASSUME NEW p, Knows(mem, stale, p), NEW t \in Tables, HashDelete(t)
  PROVE  \E j \in Slots(mem, stale) : \E i \in 1..Len(p[j]) : \E p1, w :
           /\ j[1] = t
           /\ KnownDelete(mem', p1, mem, stale, p, j, i, w)
           /\ Becomes(mem', "delete", t, p[j][i])
           /\ stale' = stale
<1>1. PICK x \in NodesIn(t) : Becomes(Delete(mem, t, x), "delete", t, x)
  BY DEF HashDelete
<1>2. t \notin stale /\ stale' = stale
  BY DEF HashDelete, Usable
<1>3. x \in InTable(mem, t)
  BY NodesInTable
<1>4. PICK j \in Slots(mem, stale) : j[1] = t /\ \E a \in 1..Len(p[j]) : p[j][a] = x
  BY <1>2, <1>3, InTableKnown
<1>5. PICK i \in 1..Len(p[j]) : p[j][i] = x
  BY <1>4
<1>6. PICK p1, w : KnownDelete(Delete(mem, t, x), p1, mem, stale, p, j, i, w)
  BY <1>4, <1>5, DeleteKnown
<1>7. mem' = Delete(mem, t, x)
  BY <1>1 DEF Becomes
<1> QED
  BY <1>1, <1>2, <1>4, <1>5, <1>6, <1>7

(* The call HASH_MIGRATE(old, new).                                        *)
LEMMA MigratedTable ==
  ASSUME NEW p, Knows(mem, stale, p), NEW t \in Tables, HashMigrate(t)
  PROVE  \E new \in Tables : \E p1 :
           /\ new # t /\ t \in Usable /\ new \in Usable
           /\ KnownMigrate(mem', p1, mem, stale, p, t, new)
           /\ Becomes(mem', "migrate", t, new)
           /\ stale' = stale \cup {t}
<1>1. PICK new \in Usable \ {t} : Becomes(Migrate(mem, t, new), "migrate", t, new)
  BY DEF HashMigrate
<1>2. /\ t \in Usable /\ new \in Usable /\ new \in Tables /\ new # t
      /\ t \notin stale /\ new \notin stale
      /\ DOMAIN mem.cell[t] # {} /\ DOMAIN mem.cell[new] # {}
      /\ stale' = stale \cup {t}
  BY DEF HashMigrate, Usable, Cells
<1>3. PICK p1 : KnownMigrate(Migrate(mem, t, new), p1, mem, stale, p, t, new)
  BY <1>2, MigrateKnown
<1>4. mem' = Migrate(mem, t, new)
  BY <1>1 DEF Becomes
<1> QED
  BY <1>1, <1>2, <1>3, <1>4

(* The first nodes are in no table, and every call keeps the chains.       *)
LEMMA HashInvInit == ASSUME Init PROVE HashInv
<1>1. mem = [cell |-> [t \in Tables |-> NoCells], name |-> [x \in Nodes |-> Null]] /\ stale = {}
  BY DEF Init
<1>2. mem.cell = [t \in Tables |-> NoCells] /\ mem.name = [x \in Nodes |-> Null]
  BY <1>1
<1>3. MemoryType(mem)
  BY <1>1, <1>2, NoCellsAreCells DEF MemoryType, Pointers
<1>4. \A t \in Tables : DOMAIN mem.cell[t] = {}
  BY <1>2 DEF NoCells
<1>5. Slots(mem, stale) = {}
  <2>1. \A j \in Tables \X Nat : j[1] \in Tables
    OBVIOUS
  <2> QED
    BY <1>4, <2>1 DEF Slots
<1>6. PICK p : p = [j \in {} |-> <<>>]
  OBVIOUS
<1>7. Knows(mem, stale, p)
  <2>1. p \in [{} -> Seq(Nodes)] /\ Distinct({}, p) /\ InPlace(mem, {}, p)
    BY <1>6 DEF Distinct, InPlace
  <2> QED
    BY <1>3, <1>5, <2>1, KnownFrom
<1> QED
  BY <1>7 DEF HashInv

LEMMA HashInvStep == ASSUME HashInv, [Next]_vars PROVE HashInv'
<1>1. PICK p : Knows(mem, stale, p)
  BY DEF HashInv
<1>2. MemoryType(mem)
  BY <1>1, Known
<1>3. ASSUME NEW t \in Tables, Empties(mem', stale', mem, stale, t) PROVE HashInv'
  BY <1>1, <1>3, EmptiesOne DEF HashInv
<1>4. ASSUME mem' = mem, stale' = stale PROVE HashInv'
  <2>1. Knows(mem', stale', p)
    BY <1>1, <1>4
  <2> QED
    BY <2>1 DEF HashInv
<1>5. ASSUME NEW t \in Tables, HashCreate(t) PROVE HashInv'
  BY <1>2, <1>3, <1>5, CreateEmpties
<1>6. ASSUME NEW t \in Tables, HashTableFree(t) PROVE HashInv'
  BY <1>2, <1>3, <1>6, FreeEmpties
<1>7. ASSUME NEW t \in Tables, HashTableClear(t) PROVE HashInv'
  BY <1>2, <1>3, <1>7, ClearEmpties
<1>8. ASSUME NEW t \in Tables, HashInsert(t) PROVE HashInv'
  BY <1>1, <1>8, InsertedNode DEF KnownInsert, HashInv
<1>9. ASSUME NEW t \in Tables, HashDelete(t) PROVE HashInv'
  BY <1>1, <1>9, DeletedNode DEF KnownDelete, HashInv
<1>10. ASSUME NEW t \in Tables, HashMigrate(t) PROVE HashInv'
  BY <1>1, <1>10, MigratedTable DEF KnownMigrate, HashInv
<1>11. ASSUME NEW t \in Tables, HashSearch(t) PROVE HashInv'
  BY <1>4, <1>11 DEF HashSearch, Finds
<1>12. ASSUME NEW t \in Tables, HashSearchAll(t) PROVE HashInv'
  BY <1>4, <1>12 DEF HashSearchAll, Finds
<1>13. CASE UNCHANGED vars
  BY <1>4, <1>13 DEF vars
<1> QED
  BY <1>5, <1>6, <1>7, <1>8, <1>9, <1>10, <1>11, <1>12, <1>13 DEF Next

(* In every state every cell of a table in use has a chain of nodes that   *)
(* ends in NULL; no node is in two of them or twice in one, and every node *)
(* is in the cell its key hashes to.                                       *)
THEOREM HashInvAlways == Spec => []HashInv
<1>1. Init => HashInv
  BY HashInvInit
<1>2. HashInv /\ [Next]_vars => HashInv'
  BY HashInvStep
<1> QED
  BY <1>1, <1>2, PTL DEF Spec

LEMMA InvIntact == HashInv => ChainsIntact
<1> SUFFICES ASSUME NEW p, Knows(mem, stale, p) PROVE ChainsIntact
  BY DEF HashInv
<1>1. ASSUME NEW t \in Usable, NEW c \in Cells(t)
      PROVE  /\ Linked(mem.name, mem.cell[t][c], NodesAt(t, c))
             /\ \A x \in Members(NodesAt(t, c)) : CellOf(mem, t, KeyOf[x]) = c
  <2>1. t \in Tables /\ t \notin stale /\ c \in DOMAIN mem.cell[t]
    BY DEF Usable, Cells
  <2>2. <<t, c>> \in Slots(mem, stale)
    BY <2>1, Known, IsSlot
  <2>3. PICK j : j = <<t, c>> /\ j \in Slots(mem, stale)
    BY <2>2
  <2>4. j[1] = t /\ j[2] = c /\ At(mem, j) = mem.cell[t][c]
    BY <2>3 DEF At
  <2>5. NodesAt(t, c) = p[j]
    BY <2>1, <2>3, ChainKnown DEF NodesAt
  <2>6. p[j] \in Seq(Nodes) /\ Linked(mem.name, At(mem, j), p[j]) /\ InPlace(mem, Slots(mem, stale), p)
    BY <2>3, Known
  <2>7. \A a \in 1..Len(p[j]) : CellOf(mem, t, KeyOf[p[j][a]]) = c
    BY <2>3, <2>4, <2>6 DEF InPlace
  <2>8. \A x \in Members(p[j]) : CellOf(mem, t, KeyOf[x]) = c
    BY <2>6, <2>7 DEF Members
  <2> QED
    BY <2>4, <2>5, <2>6, <2>8
<1>2. ASSUME NEW t \in Usable, NEW u \in Usable, t # u PROVE NodesIn(t) \cap NodesIn(u) = {}
  <2> SUFFICES ASSUME NEW x, x \in NodesIn(t), x \in NodesIn(u) PROVE FALSE
    OBVIOUS
  <2>1. t \in Tables /\ t \notin stale /\ u \in Tables /\ u \notin stale
    BY DEF Usable
  <2>2. PICK j \in Slots(mem, stale) : j[1] = t /\ \E a \in 1..Len(p[j]) : p[j][a] = x
    BY <2>1, NodesInTable, InTableKnown
  <2>3. PICK k \in Slots(mem, stale) : k[1] = u /\ \E a \in 1..Len(p[k]) : p[k][a] = x
    BY <2>1, NodesInTable, InTableKnown
  <2>4. j = k
    BY <2>2, <2>3, Known DEF Distinct
  <2> QED
    BY <1>2, <2>2, <2>3, <2>4
<1> QED
  BY <1>1, <1>2 DEF ChainsIntact

(* Whatever is created, inserted, deleted, cleared and migrated, in any    *)
(* order, chains stay chains: none is circular, cut off or shared between  *)
(* cells or tables, and HASH_SEARCH finds in a cell every node that hashes *)
(* to it.                                                                  *)
THEOREM ChainsStayIntact == Spec => []ChainsIntact
BY HashInvAlways, InvIntact, PTL

-----------------------------------------------------------------------------
(***************************************************************************)
(* The table of keys that the chains stand for.                            *)
(***************************************************************************)
Entry(m, S, p, t, k) ==
  IF t \notin S /\ DOMAIN m.cell[t] # {} THEN WithKey(p[<<t, CellOf(m, t, k)>>], k) ELSE <<>>

IndexOf(m, S, p) == [t \in Tables |-> [k \in Keys |-> Entry(m, S, p, t, k)]]

IndexIn(m, S) ==
  [t \in Tables |-> [k \in Keys |->
     IF t \notin S /\ DOMAIN m.cell[t] # {}
     THEN WithKey(Chain(m, m.cell[t][CellOf(m, t, k)]), k) ELSE <<>>]]

IsIndex(f) == f = [t \in Tables |-> [k \in Keys |-> f[t][k]]]

LEMMA IndexIsIndex ==
  ASSUME NEW m, NEW S, NEW p
  PROVE  /\ IsIndex(IndexOf(m, S, p))
         /\ \A t \in Tables : \A k \in Keys : IndexOf(m, S, p)[t][k] = Entry(m, S, p, t, k)
BY DEF IsIndex, IndexOf

LEMMA SameIndex ==
  ASSUME NEW f, NEW g, IsIndex(f), IsIndex(g), \A t \in Tables : \A k \in Keys : f[t][k] = g[t][k]
  PROVE  f = g
BY DEF IsIndex

LEMMA IndexKnown ==
  ASSUME NEW m, NEW S, NEW p, Knows(m, S, p)
  PROVE  IndexIn(m, S) = IndexOf(m, S, p)
<1>1. ASSUME NEW t \in Tables, NEW k \in Keys, t \notin S, DOMAIN m.cell[t] # {}
      PROVE  Chain(m, m.cell[t][CellOf(m, t, k)]) = p[<<t, CellOf(m, t, k)>>]
  <2>1. CellOf(m, t, k) \in DOMAIN m.cell[t]
    BY <1>1, Known, CellOfIsCell
  <2> QED
    BY <1>1, <2>1, ChainKnown
<1> QED
  BY <1>1 DEF IndexIn, IndexOf, Entry

LEMMA IndexNow ==
  /\ Index = IndexIn(mem, stale)
  /\ Index' = IndexIn(mem', stale')
<1>1. Index = IndexIn(mem, stale)
  BY DEF Index, IndexIn, Usable, Cells, NodesAt
<1>2. Index' = IndexIn(mem', stale')
  BY DEF Index, IndexIn, Usable, Cells, NodesAt
<1> QED
  BY <1>1, <1>2

(* One entry of an index, or one table of it, has changed.                 *)
LEMMA EntrySet ==
  ASSUME NEW f, NEW f1, IsIndex(f), IsIndex(f1), NEW t \in Tables, NEW k \in Keys, NEW v,
         f1[t][k] = v,
         \A u \in Tables : \A l \in Keys : ~ (u = t /\ l = k) => f1[u][l] = f[u][l]
  PROVE  f1 = [f EXCEPT ![t][k] = v]
<1>1. PICK g : g = [f EXCEPT ![t] = [f[t] EXCEPT ![k] = v]]
  OBVIOUS
<1>2. \A u \in Tables : \A l \in Keys : g[u][l] = IF u = t /\ l = k THEN v ELSE f[u][l]
  BY <1>1 DEF IsIndex
<1>3. IsIndex(g)
  <2>1. g[t] = [f[t] EXCEPT ![k] = v]
    BY <1>1 DEF IsIndex
  <2>2. g[t] = [l \in Keys |-> g[t][l]]
    <3>1. f[t] = [l \in Keys |-> f[t][l]]
      BY DEF IsIndex
    <3> QED
      BY <2>1, <3>1
  <2>3. \A u \in Tables : u # t => g[u] = f[u]
    BY <1>1 DEF IsIndex
  <2>4. \A u \in Tables : g[u] = [l \in Keys |-> g[u][l]]
    <3> SUFFICES ASSUME NEW u \in Tables, u # t PROVE g[u] = [l \in Keys |-> g[u][l]]
      BY <2>2
    <3>1. f[u] = [l \in Keys |-> f[u][l]]
      BY DEF IsIndex
    <3>2. g[u] = f[u]
      BY <2>3
    <3> QED
      BY <3>1, <3>2
  <2>5. DOMAIN g = Tables /\ g = [u \in DOMAIN g |-> g[u]]
    BY <1>1 DEF IsIndex
  <2> QED
    BY <2>4, <2>5 DEF IsIndex
<1>4. \A u \in Tables : \A l \in Keys : f1[u][l] = g[u][l]
  BY <1>2
<1>5. f1 = g
  BY <1>3, <1>4, SameIndex
<1> QED
  BY <1>1, <1>5

LEMMA RowSet ==
  ASSUME NEW f, NEW f1, IsIndex(f), IsIndex(f1), NEW t \in Tables, NEW r,
         r = [k \in Keys |-> r[k]], \A k \in Keys : f1[t][k] = r[k],
         \A u \in Tables : u # t => \A k \in Keys : f1[u][k] = f[u][k]
  PROVE  f1 = [f EXCEPT ![t] = r]
<1>1. PICK g : g = [f EXCEPT ![t] = r]
  OBVIOUS
<1>2. g[t] = r /\ \A u \in Tables : u # t => g[u] = f[u]
  BY <1>1 DEF IsIndex
<1>3. IsIndex(g)
  <2>1. \A u \in Tables : u # t => g[u] = [k \in Keys |-> g[u][k]]
    <3> SUFFICES ASSUME NEW u \in Tables, u # t PROVE g[u] = [k \in Keys |-> g[u][k]]
      OBVIOUS
    <3>1. f[u] = [k \in Keys |-> f[u][k]]
      BY DEF IsIndex
    <3> QED
      BY <1>2, <3>1
  <2>2. DOMAIN g = Tables /\ g = [u \in DOMAIN g |-> g[u]]
    BY <1>1 DEF IsIndex
  <2>3. \A u \in Tables : g[u] = [k \in Keys |-> g[u][k]]
    BY <1>2, <2>1
  <2> QED
    BY <2>2, <2>3 DEF IsIndex
<1>4. f1 = g
  BY <1>2, <1>3, SameIndex
<1> QED
  BY <1>1, <1>4

(* The entry of a key, by the cell it is in.                               *)
LEMMA EntryKnown ==
  ASSUME NEW m, NEW S, NEW p, Knows(m, S, p), NEW t \in Tables, t \notin S, DOMAIN m.cell[t] # {},
         NEW k \in Keys
  PROVE  /\ <<t, CellOf(m, t, k)>> \in Slots(m, S)
         /\ Entry(m, S, p, t, k) = WithKey(p[<<t, CellOf(m, t, k)>>], k)
         /\ p[<<t, CellOf(m, t, k)>>] \in Seq(Nodes)
         /\ Selection(Entry(m, S, p, t, k), p[<<t, CellOf(m, t, k)>>], k)
<1>1. CellOf(m, t, k) \in DOMAIN m.cell[t]
  BY Known, CellOfIsCell
<1>2. <<t, CellOf(m, t, k)>> \in Slots(m, S)
  BY <1>1, Known, IsSlot
<1>3. p[<<t, CellOf(m, t, k)>>] \in Seq(Nodes)
  BY <1>2, Known
<1> QED
  BY <1>2, <1>3, WithKeySelects DEF Entry

LEMMA EntryOfSameCells ==
  ASSUME NEW m, NEW m1, SameCells(m1, m), NEW S, NEW p, NEW t \in Tables, NEW k
  PROVE  Entry(m1, S, p, t, k) = Entry(m, S, p, t, k) /\ CellOf(m1, t, k) = CellOf(m, t, k)
BY DEF SameCells, Entry, CellOf

(* Only chain j has changed.                                               *)
ChainSet(m1, p1, m, S, p, j) ==
  Knows(m, S, p) /\ SameCells(m1, m) /\ \E v : p1 = [p EXCEPT ![j] = v]

LEMMA OtherEntries ==
  ASSUME NEW m, NEW m1, NEW S, NEW p, NEW p1, NEW j, ChainSet(m1, p1, m, S, p, j),
         NEW t \in Tables, NEW k \in Keys, j # <<t, CellOf(m, t, k)>>
  PROVE  Entry(m1, S, p1, t, k) = Entry(m, S, p, t, k)
<1>0. PICK v : Knows(m, S, p) /\ SameCells(m1, m) /\ p1 = [p EXCEPT ![j] = v]
  BY DEF ChainSet
<1>1. Entry(m1, S, p1, t, k) = Entry(m, S, p1, t, k)
  BY <1>0, EntryOfSameCells
<1>2. CASE t \notin S /\ DOMAIN m.cell[t] # {}
  <2>1. <<t, CellOf(m, t, k)>> \in Slots(m, S)
    BY <1>0, <1>2, EntryKnown
  <2>2. PICK h : h = <<t, CellOf(m, t, k)>> /\ h \in Slots(m, S) /\ h # j
    BY <2>1
  <2>3. p \in [Slots(m, S) -> Seq(Nodes)]
    BY <1>0, Known
  <2>4. p1[h] = p[h]
    BY <1>0, <2>2, <2>3
  <2> QED
    BY <1>1, <2>2, <2>4 DEF Entry
<1>3. CASE ~ (t \notin S /\ DOMAIN m.cell[t] # {})
  BY <1>1, <1>3 DEF Entry
<1> QED
  BY <1>2, <1>3

(* What HASH_INSERT does.                                                  *)
Insertion(m1, p1, m, S, p, t, x, j) ==
  /\ Knows(m, S, p)
  /\ t \in Tables /\ t \notin S /\ DOMAIN m.cell[t] # {}
  /\ x \in Nodes
  /\ j = <<t, CellOf(m, t, KeyOf[x])>>
  /\ KnownInsert(m1, p1, m, S, p, t, x, j)

EntryWith(m1, p1, m, S, p, t, x, k) ==
  Entry(m1, S, p1, t, k)
    = IF k = KeyOf[x] THEN Append(Entry(m, S, p, t, k), x) ELSE Entry(m, S, p, t, k)

LEMMA EntryInserted ==
  ASSUME NEW m1, NEW p1, NEW m, NEW S, NEW p, NEW t, NEW x, NEW j,
         Insertion(m1, p1, m, S, p, t, x, j), NEW k \in Keys
  PROVE  EntryWith(m1, p1, m, S, p, t, x, k)
<1>0. /\ Knows(m, S, p)
      /\ t \in Tables /\ t \notin S /\ DOMAIN m.cell[t] # {}
      /\ x \in Nodes
      /\ j = <<t, CellOf(m, t, KeyOf[x])>>
  BY DEF Insertion
<1>1. SameCells(m1, m) /\ p1 = [p EXCEPT ![j] = Append(p[j], x)] /\ ChainSet(m1, p1, m, S, p, j)
  BY DEF Insertion, KnownInsert, ChainSet
<1>2. CASE j # <<t, CellOf(m, t, k)>>
  <2>1. k # KeyOf[x]
    BY <1>0, <1>2
  <2> QED
    BY <1>0, <1>1, <1>2, <2>1, OtherEntries DEF EntryWith
<1>3. CASE j = <<t, CellOf(m, t, k)>>
  <2>1. j \in Slots(m, S) /\ p[j] \in Seq(Nodes) /\ Entry(m, S, p, t, k) = WithKey(p[j], k)
    BY <1>0, <1>3, EntryKnown
  <2>2. p \in [Slots(m, S) -> Seq(Nodes)]
    BY <1>0, Known
  <2>3. p1[j] = Append(p[j], x)
    BY <1>1, <2>1, <2>2
  <2>4. Entry(m1, S, p1, t, k) = WithKey(p1[j], k)
    <3>1. Entry(m1, S, p1, t, k) = Entry(m, S, p1, t, k)
      BY <1>0, <1>1, EntryOfSameCells
    <3> QED
      BY <1>0, <1>3, <3>1 DEF Entry
  <2>5. WithKey(Append(p[j], x), k)
          = IF KeyOf[x] = k THEN Append(WithKey(p[j], k), x) ELSE WithKey(p[j], k)
    BY <1>0, <2>1, WithKeyAppended
  <2> QED
    BY <2>1, <2>3, <2>4, <2>5 DEF EntryWith
<1> QED
  BY <1>2, <1>3

LEMMA IndexInserted ==
  ASSUME NEW m1, NEW p1, NEW m, NEW S, NEW p, NEW t, NEW x, NEW j,
         Insertion(m1, p1, m, S, p, t, x, j), NEW f, f = IndexOf(m, S, p)
  PROVE  IndexOf(m1, S, p1) = [f EXCEPT ![t][KeyOf[x]] = Append(f[t][KeyOf[x]], x)]
<1>1. PICK f1 : f1 = IndexOf(m1, S, p1)
  OBVIOUS
<1>2. /\ IsIndex(f) /\ IsIndex(f1)
      /\ \A u \in Tables : \A l \in Keys :
           f[u][l] = Entry(m, S, p, u, l) /\ f1[u][l] = Entry(m1, S, p1, u, l)
  BY <1>1, IndexIsIndex
<1>3. t \in Tables /\ x \in Nodes /\ KeyOf[x] \in Keys /\ j = <<t, CellOf(m, t, KeyOf[x])>>
  BY HashAssumption DEF Insertion
<1>4. f1[t][KeyOf[x]] = Append(f[t][KeyOf[x]], x)
  <2>1. EntryWith(m1, p1, m, S, p, t, x, KeyOf[x])
    BY <1>3, EntryInserted
  <2> QED
    BY <1>2, <1>3, <2>1 DEF EntryWith
<1>5. ASSUME NEW u \in Tables, NEW l \in Keys, ~ (u = t /\ l = KeyOf[x])
      PROVE  f1[u][l] = f[u][l]
  <2>1. CASE u = t
    <3>1. EntryWith(m1, p1, m, S, p, t, x, l)
      BY EntryInserted
    <3> QED
      BY <1>2, <1>5, <2>1, <3>1 DEF EntryWith
  <2>2. CASE u # t
    <3>1. j # <<u, CellOf(m, u, l)>>
      BY <1>3, <2>2
    <3>2. ChainSet(m1, p1, m, S, p, j)
      BY DEF Insertion, KnownInsert, ChainSet
    <3>3. Entry(m1, S, p1, u, l) = Entry(m, S, p, u, l)
      BY <3>1, <3>2, OtherEntries
    <3> QED
      BY <1>2, <3>3
  <2> QED
    BY <2>1, <2>2
<1> QED
  BY <1>1, <1>2, <1>3, <1>4, <1>5, EntrySet

(* A node outside the chains is in no entry.                               *)
LEMMA OutsideEntries ==
  ASSUME NEW m, NEW S, NEW p, Knows(m, S, p), NEW x, Outside(x, Slots(m, S), p),
         NEW t \in Tables, NEW k \in Keys
  PROVE  ~ \E i \in DOMAIN Entry(m, S, p, t, k) : Entry(m, S, p, t, k)[i] = x
<1>1. CASE t \notin S /\ DOMAIN m.cell[t] # {}
  <2>1. PICK h, q : h = <<t, CellOf(m, t, k)>> /\ q = Entry(m, S, p, t, k)
    OBVIOUS
  <2>2. h \in Slots(m, S) /\ p[h] \in Seq(Nodes) /\ Selection(q, p[h], k)
    BY <1>1, <2>1, EntryKnown
  <2>3. q \in Seq(Nodes) /\ \A d \in 1..Len(q) : \E a \in 1..Len(p[h]) : p[h][a] = q[d]
    BY <2>2 DEF Selection
  <2>4. \A d \in 1..Len(q) : q[d] # x
    BY <2>2, <2>3 DEF Outside
  <2>5. DOMAIN q = 1..Len(q)
    BY <2>3
  <2> QED
    BY <2>1, <2>4, <2>5
<1>2. CASE ~ (t \notin S /\ DOMAIN m.cell[t] # {})
  <2>1. Entry(m, S, p, t, k) = <<>>
    BY <1>2 DEF Entry
  <2>2. DOMAIN <<>> = {}
    OBVIOUS
  <2> QED
    BY <2>1, <2>2
<1> QED
  BY <1>1, <1>2

LEMMA InsertImplements ==
  ASSUME HashInv, NEW t \in Tables, HashInsert(t)
  PROVE  Abstract!Next
<1>1. PICK p : Knows(mem, stale, p)
  BY DEF HashInv
<1>2. PICK x, p1, j :
        /\ x \in Nodes /\ Outside(x, Slots(mem, stale), p)
        /\ j = <<t, CellOf(mem, t, KeyOf[x])>> /\ j \in Slots(mem, stale)
        /\ KnownInsert(mem', p1, mem, stale, p, t, x, j)
        /\ Becomes(mem', "insert", t, x)
        /\ stale' = stale /\ t \notin stale
  BY <1>1, InsertedNode
<1>3. DOMAIN mem.cell[t] # {}
  BY DEF HashInsert, Usable, Cells
<1>4. PICK f : f = IndexOf(mem, stale, p) /\ Index = f
  BY <1>1, IndexKnown, IndexNow
<1>5. Index' = IndexOf(mem', stale, p1)
  <2>1. Knows(mem', stale', p1) /\ stale' = stale
    BY <1>2 DEF KnownInsert
  <2> QED
    BY <2>1, IndexKnown, IndexNow
<1>6. Index' = [f EXCEPT ![t][KeyOf[x]] = Append(f[t][KeyOf[x]], x)]
  <2>1. Insertion(mem', p1, mem, stale, p, t, x, j)
    BY <1>1, <1>2, <1>3 DEF Insertion
  <2> QED
    BY <1>4, <1>5, <2>1, IndexInserted
<1>7. call' = [fn |-> "insert", table |-> t, arg |-> x, ret |-> Null]
  BY <1>2 DEF Becomes
<1>8. call'.fn = "insert" /\ call'.table = t /\ call'.arg = x
  BY <1>7
<1>9. \A u \in Tables : ~Abstract!Holds(u, x)
  <2> SUFFICES ASSUME NEW u \in Tables PROVE ~ \E i \in DOMAIN f[u][KeyOf[x]] : f[u][KeyOf[x]][i] = x
    BY <1>4 DEF Abstract!Holds
  <2>1. KeyOf[x] \in Keys
    BY <1>2, HashAssumption
  <2>2. f[u][KeyOf[x]] = Entry(mem, stale, p, u, KeyOf[x])
    BY <1>4, <2>1, IndexIsIndex
  <2> QED
    BY <1>1, <1>2, <2>1, <2>2, OutsideEntries
<1>10. Abstract!Insert(call')
  BY <1>4, <1>6, <1>8, <1>9 DEF Abstract!Insert
<1> QED
  BY <1>10 DEF Abstract!Next, Abstract!Perform

(* RemoveAt takes out what is between g and h.                             *)
Between(q, g, x, h, r) ==
  /\ g \in Seq(Nodes) /\ h \in Seq(Nodes) /\ x \in Nodes
  /\ q = (g \o <<x>>) \o h
  /\ r = g \o h

Removed(q, x, r) == \E i \in DOMAIN q : q[i] = x /\ r = Abstract!RemoveAt(q, i)

LEMMA RemovedBetween ==
  ASSUME NEW q, NEW g, NEW x, NEW h, NEW r, Between(q, g, x, h, r)
  PROVE  Removed(q, x, r)
<1>0. g \in Seq(Nodes) /\ h \in Seq(Nodes) /\ x \in Nodes /\ q = (g \o <<x>>) \o h /\ r = g \o h
  BY DEF Between
<1>1. PICK a \in Nat, b \in Nat : a = Len(g) /\ b = Len(h)
  BY <1>0
<1>2. PICK i : i = a + 1
  OBVIOUS
<1>3. /\ q \in Seq(Nodes) /\ Len(q) = a + 1 + b
      /\ \A c \in 1..a : q[c] = g[c]
      /\ q[i] = x
      /\ \A c \in 1..b : q[c + i] = h[c]
  <2>1. PICK e : e = g \o <<x>>
    OBVIOUS
  <2>2. /\ e \in Seq(Nodes) /\ Len(e) = a + 1 /\ e[i] = x /\ \A c \in 1..a : e[c] = g[c]
    <3>1. <<x>> \in Seq(Nodes) /\ Len(<<x>>) = 1 /\ <<x>>[1] = x
      BY <1>0
    <3> QED
      BY <1>0, <1>1, <1>2, <2>1, <3>1, ConcatProperties
  <2>3. q = e \o h
    BY <1>0, <2>1
  <2>4. /\ q \in Seq(Nodes) /\ Len(q) = (a + 1) + b
        /\ \A c \in 1..(a + 1) : q[c] = e[c]
        /\ \A c \in (a + 2)..(a + 1 + b) : q[c] = h[c - (a + 1)]
    BY <1>0, <1>1, <2>2, <2>3, ConcatProperties
  <2>5. ASSUME NEW c \in 1..b PROVE q[c + i] = h[c]
    <3>1. c + i \in (a + 2)..(a + 1 + b) /\ (c + i) - (a + 1) = c
      BY <1>2
    <3> QED
      BY <2>4, <3>1
  <2> QED
    BY <1>1, <1>2, <2>2, <2>4, <2>5
<1>4. PICK r1, r2 : r1 = SubSeq(q, 1, i - 1) /\ r2 = SubSeq(q, i + 1, Len(q))
  OBVIOUS
<1>5. r1 = g
  <2>1. r1 \in Seq(Nodes) /\ Len(r1) = a /\ \A c \in 1..a : r1[c] = q[c]
    BY <1>2, <1>3, <1>4, SubSeqProperties
  <2> QED
    BY <1>0, <1>1, <1>3, <2>1, SeqEqual
<1>6. r2 = h
  <2>1. r2 \in Seq(Nodes) /\ Len(r2) = b /\ \A c \in 1..b : r2[c] = q[c + i]
    <3>1. Len(q) = i + b /\ i + 1 \in 1..(Len(q) + 1) /\ Len(q) \in i..Len(q)
      BY <1>2, <1>3
    <3>2. r2 \in Seq(Nodes) /\ Len(r2) = b /\ \A c \in 1..b : r2[c] = q[(i + 1) + c - 1]
      BY <1>2, <1>3, <1>4, <3>1, SubSeqProperties
    <3>3. \A c \in 1..b : (i + 1) + c - 1 = c + i
      BY <1>2
    <3> QED
      BY <3>2, <3>3
  <2> QED
    BY <1>0, <1>1, <1>3, <2>1, SeqEqual
<1>7. Abstract!RemoveAt(q, i) = g \o h
  BY <1>4, <1>5, <1>6 DEF Abstract!RemoveAt
<1>8. i \in DOMAIN q
  BY <1>2, <1>3
<1> QED
  BY <1>0, <1>3, <1>7, <1>8 DEF Removed

(* What HASH_DELETE does.                                                  *)
Deletion(m1, p1, m, S, p, j, i, w) ==
  /\ Knows(m, S, p)
  /\ j \in Slots(m, S) /\ i \in 1..Len(p[j])
  /\ KnownDelete(m1, p1, m, S, p, j, i, w)

EntryLess(m1, p1, m, S, p, t, x, k) ==
  /\ k # KeyOf[x] => Entry(m1, S, p1, t, k) = Entry(m, S, p, t, k)
  /\ k = KeyOf[x] => Removed(Entry(m, S, p, t, k), x, Entry(m1, S, p1, t, k))

LEMMA EntryDeleted ==
  ASSUME NEW m1, NEW p1, NEW m, NEW S, NEW p, NEW j, NEW i, NEW w,
         Deletion(m1, p1, m, S, p, j, i, w), NEW k \in Keys,
         NEW t, t = j[1], NEW x, x = p[j][i]
  PROVE  EntryLess(m1, p1, m, S, p, t, x, k) /\ x \in Nodes
<1>1. /\ Knows(m, S, p) /\ SameCells(m1, m) /\ p1 = [p EXCEPT ![j] = w]
      /\ Without(w, p[j], i) /\ j \in Slots(m, S) /\ i \in 1..Len(p[j])
  BY DEF Deletion, KnownDelete
<1>2. /\ t \in Tables /\ t \notin S /\ DOMAIN m.cell[t] # {} /\ j = <<t, j[2]>>
  BY <1>1, SlotsAre
<1>3. PICK s \in Seq(Nodes) : s = p[j]
  BY <1>1, Known
<1>4. x \in Nodes
  BY <1>1, <1>3
<1>5. j[2] = CellOf(m, t, KeyOf[x])
  BY <1>1, Known DEF InPlace
<1>6. CASE j # <<t, CellOf(m, t, k)>>
  <2>1. k # KeyOf[x]
    BY <1>2, <1>5, <1>6
  <2>2. ChainSet(m1, p1, m, S, p, j)
    BY <1>1 DEF ChainSet
  <2> QED
    BY <1>2, <1>4, <1>6, <2>1, <2>2, OtherEntries DEF EntryLess
<1>7. CASE j = <<t, CellOf(m, t, k)>>
  <2>1. PICK a, b : a = Entry(m, S, p, t, k) /\ b = Entry(m1, S, p1, t, k)
    OBVIOUS
  <2>2. a = WithKey(s, k)
    BY <1>1, <1>2, <1>3, <1>7, <2>1, EntryKnown
  <2>3. b = WithKey(w, k)
    <3>1. p \in [Slots(m, S) -> Seq(Nodes)]
      BY <1>1, Known
    <3>2. p1[j] = w
      BY <1>1, <3>1
    <3>3. b = Entry(m, S, p1, t, k)
      BY <1>1, <1>2, <2>1, EntryOfSameCells
    <3> QED
      BY <1>2, <1>7, <3>2, <3>3 DEF Entry
  <2>4. KeyTaken(s, i, w, k)
    BY <1>1, <1>3, WithKeyWithout
  <2>5. s[i] = x
    BY <1>3
  <2>6. CASE k # KeyOf[x]
    <3>1. a = b
      BY <2>2, <2>3, <2>4, <2>5, <2>6 DEF KeyTaken
    <3> QED
      BY <1>4, <2>1, <2>6, <3>1 DEF EntryLess
  <2>7. CASE k = KeyOf[x]
    <3>1. PICK g, h : g \in Seq(Nodes) /\ h \in Seq(Nodes) /\ a = (g \o <<x>>) \o h /\ b = g \o h
      BY <2>2, <2>3, <2>4, <2>5, <2>7 DEF KeyTaken
    <3>2. Between(a, g, x, h, b)
      BY <1>4, <3>1 DEF Between
    <3>3. Removed(a, x, b)
      BY <3>2, RemovedBetween
    <3> QED
      BY <1>4, <2>1, <2>7, <3>3 DEF EntryLess
  <2> QED
    BY <2>6, <2>7
<1> QED
  BY <1>6, <1>7

IndexLess(f1, f, t, k, x) ==
  \E d \in DOMAIN f[t][k] :
    /\ f[t][k][d] = x
    /\ f1 = [f EXCEPT ![t][k] = Abstract!RemoveAt(f[t][k], d)]

LEMMA IndexDeleted ==
  ASSUME NEW m1, NEW p1, NEW m, NEW S, NEW p, NEW j, NEW i, NEW w,
         Deletion(m1, p1, m, S, p, j, i, w),
         NEW t, t = j[1], NEW x, x = p[j][i], NEW f, f = IndexOf(m, S, p), NEW k, k = KeyOf[x]
  PROVE  IndexLess(IndexOf(m1, S, p1), f, t, k, x)
<1>1. PICK f1 : f1 = IndexOf(m1, S, p1)
  OBVIOUS
<1>2. /\ IsIndex(f) /\ IsIndex(f1)
      /\ \A u \in Tables : \A l \in Keys :
           f[u][l] = Entry(m, S, p, u, l) /\ f1[u][l] = Entry(m1, S, p1, u, l)
  BY <1>1, IndexIsIndex
<1>3. t \in Tables /\ j = <<t, j[2]>>
  <2>1. j \in Slots(m, S)
    BY DEF Deletion
  <2> QED
    BY <2>1, SlotsAre
<1>4. k \in Keys
  <2>1. Knows(m, S, p) /\ j \in Slots(m, S) /\ i \in 1..Len(p[j])
    BY DEF Deletion
  <2>2. p[j] \in Seq(Nodes)
    BY <2>1, Known
  <2>3. x \in Nodes
    BY <2>1, <2>2
  <2> QED
    BY <2>3, HashAssumption
<1>5. \A l \in Keys : EntryLess(m1, p1, m, S, p, t, x, l)
  BY EntryDeleted
<1>6. PICK d \in DOMAIN f[t][k] : f[t][k][d] = x /\ f1[t][k] = Abstract!RemoveAt(f[t][k], d)
  <2>1. EntryLess(m1, p1, m, S, p, t, x, k)
    BY <1>4, <1>5
  <2> QED
    BY <1>2, <1>3, <1>4, <2>1 DEF EntryLess, Removed
<1>7. ASSUME NEW u \in Tables, NEW l \in Keys, ~ (u = t /\ l = k)
      PROVE  f1[u][l] = f[u][l]
  <2>1. CASE u = t
    <3>1. EntryLess(m1, p1, m, S, p, t, x, l)
      BY <1>5
    <3> QED
      BY <1>2, <1>7, <2>1, <3>1 DEF EntryLess
  <2>2. CASE u # t
    <3>1. j # <<u, CellOf(m, u, l)>>
      BY <1>3, <2>2
    <3>2. ChainSet(m1, p1, m, S, p, j)
      BY DEF Deletion, KnownDelete, ChainSet
    <3>3. Entry(m1, S, p1, u, l) = Entry(m, S, p, u, l)
      BY <3>1, <3>2, OtherEntries
    <3> QED
      BY <1>2, <3>3
  <2> QED
    BY <2>1, <2>2
<1>8. f1 = [f EXCEPT ![t][k] = Abstract!RemoveAt(f[t][k], d)]
  BY <1>2, <1>3, <1>4, <1>6, <1>7, EntrySet
<1> QED
  BY <1>1, <1>6, <1>8 DEF IndexLess

LEMMA DeleteImplements ==
  ASSUME HashInv, NEW t \in Tables, HashDelete(t)
  PROVE  Abstract!Next
<1>1. PICK p : Knows(mem, stale, p)
  BY DEF HashInv
<1>2. PICK j, i, p1, w :
        /\ j \in Slots(mem, stale) /\ i \in 1..Len(p[j]) /\ j[1] = t
        /\ KnownDelete(mem', p1, mem, stale, p, j, i, w)
        /\ Becomes(mem', "delete", t, p[j][i])
        /\ stale' = stale
  BY <1>1, DeletedNode
<1>3. PICK x, k : x = p[j][i] /\ k = KeyOf[x]
  OBVIOUS
<1>4. PICK f : f = IndexOf(mem, stale, p) /\ Index = f
  BY <1>1, IndexKnown, IndexNow
<1>5. Index' = IndexOf(mem', stale, p1)
  <2>1. Knows(mem', stale', p1) /\ stale' = stale
    BY <1>2 DEF KnownDelete
  <2> QED
    BY <2>1, IndexKnown, IndexNow
<1>6. PICK d \in DOMAIN f[t][k] :
        /\ f[t][k][d] = x
        /\ Index' = [f EXCEPT ![t][k] = Abstract!RemoveAt(f[t][k], d)]
  <2>1. Deletion(mem', p1, mem, stale, p, j, i, w)
    BY <1>1, <1>2 DEF Deletion
  <2>2. IndexLess(Index', f, t, k, x)
    BY <1>2, <1>3, <1>4, <1>5, <2>1, IndexDeleted
  <2> QED
    BY <2>2 DEF IndexLess
<1>7. call' = [fn |-> "delete", table |-> t, arg |-> x, ret |-> Null]
  BY <1>2, <1>3 DEF Becomes
<1>8. call'.fn = "delete" /\ call'.table = t /\ call'.arg = x
  BY <1>7
<1>9. Abstract!Delete(call')
  BY <1>3, <1>4, <1>6, <1>8 DEF Abstract!Delete
<1> QED
  BY <1>9 DEF Abstract!Next, Abstract!Perform

(* The calls that empty a table.                                           *)
LEMMA IndexEmptied ==
  ASSUME NEW m1, NEW S1, NEW m, NEW S, NEW t, Empties(m1, S1, m, S, t),
         NEW p, Knows(m, S, p), NEW p1, Knows(m1, S1, p1), Emptied(p1, p, Slots(m1, S1), t),
         NEW f, f = IndexOf(m, S, p)
  PROVE  IndexOf(m1, S1, p1) = [f EXCEPT ![t] = Abstract!Nothing]
<1>1. PICK f1, r : f1 = IndexOf(m1, S1, p1) /\ r = [k \in Keys |-> <<>>]
  OBVIOUS
<1>2. /\ IsIndex(f) /\ IsIndex(f1)
      /\ \A u \in Tables : \A l \in Keys :
           f[u][l] = Entry(m, S, p, u, l) /\ f1[u][l] = Entry(m1, S1, p1, u, l)
  BY <1>1, IndexIsIndex
<1>3. t \in Tables
  BY DEF Empties
<1>4. ASSUME NEW k \in Keys PROVE f1[t][k] = r[k]
  <2>1. CASE t \notin S1 /\ DOMAIN m1.cell[t] # {}
    <3>1. PICK h : h = <<t, CellOf(m1, t, k)>>
      OBVIOUS
    <3>2. h \in Slots(m1, S1) /\ Entry(m1, S1, p1, t, k) = WithKey(p1[h], k)
      BY <1>3, <2>1, <3>1, EntryKnown
    <3>3. p1[h] = <<>>
      BY <3>1, <3>2 DEF Emptied
    <3> QED
      BY <1>1, <1>2, <1>3, <3>2, <3>3, WithKeyOfNone
  <2>2. CASE ~ (t \notin S1 /\ DOMAIN m1.cell[t] # {})
    BY <1>1, <1>2, <1>3, <2>2 DEF Entry
  <2> QED
    BY <2>1, <2>2
<1>5. ASSUME NEW u \in Tables, u # t, NEW k \in Keys PROVE f1[u][k] = f[u][k]
  <2>1. m1.cell[u] = m.cell[u] /\ (u \in S1 <=> u \in S)
    BY <1>5 DEF Empties
  <2>2. CellOf(m1, u, k) = CellOf(m, u, k)
    BY <2>1 DEF CellOf
  <2>3. CASE u \notin S1 /\ DOMAIN m1.cell[u] # {}
    <3>1. PICK h : h = <<u, CellOf(m1, u, k)>>
      OBVIOUS
    <3>2. h \in Slots(m1, S1) /\ Entry(m1, S1, p1, u, k) = WithKey(p1[h], k)
      BY <2>3, <3>1, EntryKnown
    <3>3. h[1] # t
      BY <1>5, <3>1
    <3>4. p1[h] = p[h]
      BY <3>2, <3>3 DEF Emptied
    <3>5. Entry(m, S, p, u, k) = WithKey(p[h], k)
      BY <2>1, <2>2, <2>3, <3>1 DEF Entry
    <3> QED
      BY <1>2, <3>2, <3>4, <3>5
  <2>4. CASE ~ (u \notin S1 /\ DOMAIN m1.cell[u] # {})
    <3>1. Entry(m1, S1, p1, u, k) = <<>> /\ Entry(m, S, p, u, k) = <<>>
      BY <2>1, <2>4 DEF Entry
    <3> QED
      BY <1>2, <3>1
  <2> QED
    BY <2>3, <2>4
<1>6. r = [k \in Keys |-> r[k]] /\ r = Abstract!Nothing
  BY <1>1 DEF Abstract!Nothing
<1>7. f1 = [f EXCEPT ![t] = r]
  BY <1>2, <1>3, <1>4, <1>5, <1>6, RowSet
<1> QED
  BY <1>1, <1>6, <1>7

LEMMA EmptyImplements ==
  ASSUME HashInv, NEW t, Empties(mem', stale', mem, stale, t),
         call'.fn \in {"create", "clear", "free"}, call'.table = t
  PROVE  Abstract!Next
<1>1. PICK p : Knows(mem, stale, p)
  BY DEF HashInv
<1>2. PICK p1 : Knows(mem', stale', p1) /\ Emptied(p1, p, Slots(mem', stale'), t)
  BY <1>1, EmptiesOne
<1>3. PICK f : f = IndexOf(mem, stale, p) /\ Index = f
  BY <1>1, IndexKnown, IndexNow
<1>4. Index' = IndexOf(mem', stale', p1)
  BY <1>2, IndexKnown, IndexNow
<1>5. Index' = [f EXCEPT ![t] = Abstract!Nothing]
  BY <1>1, <1>2, <1>3, <1>4, IndexEmptied
<1>6. Abstract!Empty(call')
  BY <1>3, <1>5 DEF Abstract!Empty
<1> QED
  BY <1>6 DEF Abstract!Next, Abstract!Perform

(* A search along a chain stops at the first node that passes.             *)
StopsAt(r, s, keys) ==
  \/ r = Null /\ \A a \in 1..Len(s) : KeyOf[s[a]] \notin keys
  \/ \E e \in 1..Len(s) : /\ r = s[e] /\ KeyOf[s[e]] \in keys
                          /\ \A a \in 1..(e - 1) : KeyOf[s[a]] \notin keys

LEMMA FirstWithStops ==
  ASSUME NEW m, NEW x, NEW s \in Seq(Nodes), Linked(m.name, x, s), Once(s), NEW keys
  PROVE  StopsAt(FirstWith(m, x, keys), s, keys)
<1>1. PICK S : S = {Null} \cup {y \in Nodes : KeyOf[y] \in keys}
  OBVIOUS
<1>2. FirstWith(m, x, keys) = Until(m, x, S)
  BY <1>1 DEF FirstWith
<1>3. PICK n \in Nat : n = Len(s)
  OBVIOUS
<1>4. ASSUME NEW a \in 1..n PROVE s[a] \in Nodes /\ (s[a] \in S <=> KeyOf[s[a]] \in keys)
  <2>1. s[a] \in Nodes
    BY <1>3
  <2> QED
    BY <1>1, <2>1, NullIsNoNode
<1>5. ASSUME NEW a \in 0..n PROVE Follows(s, a) = IF a < n THEN s[a + 1] ELSE Null
  BY <1>3 DEF Follows
<1>6. CASE \A a \in 1..n : KeyOf[s[a]] \notin keys
  <2>1. Follows(s, n) = Null /\ Null \in S
    BY <1>1, <1>5
  <2>2. ASSUME NEW a \in 0..(n - 1) PROVE Follows(s, a) \notin S
    <3>1. a \in 0..n /\ a < n /\ a + 1 \in 1..n
      OBVIOUS
    <3> QED
      BY <1>4, <1>5, <1>6, <3>1
  <2>3. n \in 0..Len(s)
    BY <1>3
  <2>4. Until(m, x, S) = Follows(s, n)
    BY <2>1, <2>2, <2>3, UntilFinds
  <2> QED
    BY <1>2, <1>3, <1>6, <2>1, <2>4 DEF StopsAt
<1>7. CASE \E a \in 1..n : KeyOf[s[a]] \in keys
  <2>1. PICK T : T = {a \in 1..n : KeyOf[s[a]] \in keys}
    OBVIOUS
  <2>2. T \subseteq Nat /\ T # {}
    BY <1>7, <2>1
  <2>3. PICK e \in T : \A a \in T : e <= a
    BY <2>2, LeastExists
  <2>4. e \in 1..n /\ KeyOf[s[e]] \in keys
    BY <2>1
  <2>5. ASSUME NEW a \in 1..(e - 1) PROVE KeyOf[s[a]] \notin keys /\ a \in 1..n
    <3>1. a \in 1..n /\ ~ (e <= a)
      BY <2>4
    <3> QED
      BY <2>1, <2>3, <3>1
  <2>6. PICK d \in Nat : d = e - 1
    BY <2>4
  <2>7. d \in 0..Len(s) /\ d \in 0..n /\ d < n /\ d + 1 = e
    BY <1>3, <2>4, <2>6
  <2>8. Follows(s, d) = s[e] /\ s[e] \in S
    BY <1>4, <1>5, <2>4, <2>7
  <2>9. ASSUME NEW a \in 0..(d - 1) PROVE Follows(s, a) \notin S
    <3>1. a \in 0..n /\ a < n /\ a + 1 \in 1..(e - 1)
      BY <2>6, <2>7
    <3> QED
      BY <1>4, <1>5, <2>5, <3>1
  <2>10. Until(m, x, S) = Follows(s, d)
    BY <2>7, <2>8, <2>9, UntilFinds
  <2> QED
    BY <1>2, <1>3, <2>4, <2>5, <2>8, <2>10 DEF StopsAt
<1> QED
  BY <1>6, <1>7

LEMMA HeadOfRest ==
  ASSUME NEW x \in Nodes, NEW h \in Seq(Nodes), NEW g, g = <<>>, NEW q, q = (g \o <<x>>) \o h
  PROVE  q # <<>> /\ Head(q) = x
<1>1. g \o <<x>> = <<x>>
  OBVIOUS
<1>2. q = <<x>> \o h
  BY <1>1
<1>3. /\ q \in Seq(Nodes) /\ Len(q) = 1 + Len(h) /\ q[1] = x
  <2>1. <<x>> \in Seq(Nodes) /\ Len(<<x>>) = 1 /\ <<x>>[1] = x
    OBVIOUS
  <2> QED
    BY <1>2, <2>1, ConcatProperties
<1> QED
  BY <1>3

(* The first node of a chain with a key is the oldest of the key.          *)
LEMMA FirstIsOldest ==
  ASSUME NEW s \in Seq(Nodes), NEW k, NEW r, StopsAt(r, s, {k})
  PROVE  r = IF WithKey(s, k) = <<>> THEN Null ELSE Head(WithKey(s, k))
<1>1. CASE r = Null /\ \A a \in 1..Len(s) : KeyOf[s[a]] \notin {k}
  <2>1. \A a \in 1..Len(s) : KeyOf[s[a]] # k
    BY <1>1
  <2> QED
    BY <1>1, <2>1, NoneWithKey
<1>2. ASSUME NEW e \in 1..Len(s), r = s[e], KeyOf[s[e]] \in {k},
             \A a \in 1..(e - 1) : KeyOf[s[a]] \notin {k}
      PROVE  r = IF WithKey(s, k) = <<>> THEN Null ELSE Head(WithKey(s, k))
  <2>1. PICK w : Without(w, s, e)
    BY WithoutExists
  <2>2. KeyTaken(s, e, w, k)
    BY <2>1, WithKeyWithout
  <2>3. KeyOf[s[e]] = k /\ s[e] \in Nodes /\ \A a \in 1..(e - 1) : KeyOf[s[a]] # k
    BY <1>2
  <2>4. PICK q : q = WithKey(s, k)
    OBVIOUS
  <2>5. PICK g, h : /\ g \in Seq(Nodes) /\ h \in Seq(Nodes)
                    /\ q = (g \o <<s[e]>>) \o h /\ g = <<>>
    BY <2>2, <2>3, <2>4 DEF KeyTaken
  <2>6. q # <<>> /\ Head(q) = s[e]
    BY <2>3, <2>5, HeadOfRest
  <2> QED
    BY <1>2, <2>4, <2>6
<1> QED
  BY <1>1, <1>2 DEF StopsAt

(* What a search along the cell c of t finds.                              *)
LEMMA CellSearched ==
  ASSUME NEW m, NEW S, NEW p, Knows(m, S, p), NEW t \in Tables, t \notin S,
         NEW c \in DOMAIN m.cell[t], NEW keys
  PROVE  StopsAt(FirstWith(m, m.cell[t][c], keys), p[<<t, c>>], keys)
<1>1. PICK h : h = <<t, c>>
  OBVIOUS
<1>2. h \in Slots(m, S) /\ At(m, h) = m.cell[t][c]
  BY <1>1, Known, IsSlot DEF At
<1>3. p[h] \in Seq(Nodes) /\ Linked(m.name, At(m, h), p[h]) /\ Once(p[h])
  BY <1>2, Known
<1> QED
  BY <1>1, <1>2, <1>3, FirstWithStops

LEMMA IndexSame ==
  ASSUME mem' = mem, stale' = stale
  PROVE  Index' = Index
BY IndexNow

LEMMA SearchImplements ==
  ASSUME HashInv, NEW t \in Tables, HashSearch(t)
  PROVE  Abstract!Next
<1>1. PICK p : Knows(mem, stale, p)
  BY DEF HashInv
<1>2. PICK k \in Keys : Finds("search", t, k, FirstWith(mem, mem.cell[t][CellOf(mem, t, k)], {k}))
  BY DEF HashSearch
<1>3. t \notin stale /\ DOMAIN mem.cell[t] # {}
  BY DEF HashSearch, Usable, Cells
<1>4. PICK f : f = IndexOf(mem, stale, p) /\ Index = f
  BY <1>1, IndexKnown, IndexNow
<1>5. Index' = Index
  BY <1>2, IndexSame DEF Finds
<1>6. PICK c, r : c = CellOf(mem, t, k) /\ r = FirstWith(mem, mem.cell[t][c], {k})
  OBVIOUS
<1>7. c \in DOMAIN mem.cell[t]
  BY <1>1, <1>3, <1>6, Known, CellOfIsCell
<1>8. StopsAt(r, p[<<t, c>>], {k})
  BY <1>1, <1>3, <1>6, <1>7, CellSearched
<1>9. p[<<t, c>>] \in Seq(Nodes) /\ Entry(mem, stale, p, t, k) = WithKey(p[<<t, c>>], k)
  BY <1>1, <1>3, <1>6, EntryKnown
<1>10. r = IF WithKey(p[<<t, c>>], k) = <<>> THEN Null ELSE Head(WithKey(p[<<t, c>>], k))
  BY <1>8, <1>9, FirstIsOldest
<1>11. f[t][k] = Entry(mem, stale, p, t, k)
  BY <1>4, IndexIsIndex
<1>12. call' = [fn |-> "search", table |-> t, arg |-> k, ret |-> r]
  BY <1>2, <1>6 DEF Finds
<1>13. call'.fn = "search" /\ call'.table = t /\ call'.arg = k /\ call'.ret = r
  BY <1>12
<1>14. Abstract!Search(call')
  BY <1>4, <1>5, <1>9, <1>10, <1>11, <1>13 DEF Abstract!Search
<1> QED
  BY <1>14 DEF Abstract!Next, Abstract!Perform

LEMMA GreatestExists ==
  ASSUME NEW n \in Nat, NEW T, T \subseteq 0..(n - 1), T # {}
  PROVE  Max(T) \in T
<1>1. PICK R : R = {n - y : y \in T}
  OBVIOUS
<1>2. R \subseteq Nat /\ R # {}
  <2>1. \A y \in T : n - y \in Nat
    OBVIOUS
  <2> QED
    BY <1>1, <2>1
<1>3. PICK z \in R : \A y \in R : z <= y
  BY <1>2, LeastExists
<1>4. PICK x \in T : z = n - x
  BY <1>1
<1>5. ASSUME NEW y \in T PROVE x >= y
  <2>1. n - x <= n - y
    BY <1>1, <1>3, <1>4
  <2>2. x \in Int /\ y \in Int
    OBVIOUS
  <2> QED
    BY <2>1, <2>2
<1>6. \E e \in T : \A y \in T : e >= y
  BY <1>5
<1> QED
  BY <1>6 DEF Max

(* A search of the whole table: r is what it returns.                      *)
FindsAmong(r, m, S, p, t, keys) ==
  \/ r = Null /\ \A k \in keys : Entry(m, S, p, t, k) = <<>>
  \/ \E k \in keys : \E i \in DOMAIN Entry(m, S, p, t, k) : r = Entry(m, S, p, t, k)[i]

LEMMA TableSearched ==
  ASSUME NEW m, NEW S, NEW p, Knows(m, S, p), NEW t \in Tables, t \notin S,
         DOMAIN m.cell[t] # {}, NEW keys \in SUBSET Keys
  PROVE  FindsAmong(FirstInCells(m, t, keys), m, S, p, t, keys)
<1> DEFINE found == [c \in DOMAIN m.cell[t] |-> FirstWith(m, m.cell[t][c], keys)]
           hits  == {c \in DOMAIN found : found[c] # Null}
<1>0. FirstInCells(m, t, keys) = IF hits = {} THEN Null ELSE found[Max(hits)]
  BY Zenon DEF FirstInCells
<1>1. found = [c \in DOMAIN m.cell[t] |-> FirstWith(m, m.cell[t][c], keys)]
  OBVIOUS
<1>2. hits = {c \in DOMAIN found : found[c] # Null}
  OBVIOUS
<1> HIDE DEF found, hits
<1>3. PICK r : r = FirstInCells(m, t, keys) /\ r = IF hits = {} THEN Null ELSE found[Max(hits)]
  BY <1>0
<1>4. ASSUME NEW c \in DOMAIN m.cell[t]
      PROVE  /\ StopsAt(found[c], p[<<t, c>>], keys)
             /\ p[<<t, c>>] \in Seq(Nodes) /\ <<t, c>> \in Slots(m, S)
  <2>1. <<t, c>> \in Slots(m, S)
    BY Known, IsSlot
  <2>2. p[<<t, c>>] \in Seq(Nodes)
    BY <2>1, Known
  <2> QED
    BY <1>1, <2>1, <2>2, CellSearched
<1>5. CASE hits = {}
  <2>1. ASSUME NEW k \in keys PROVE Entry(m, S, p, t, k) = <<>>
    <3>1. PICK c : c = CellOf(m, t, k) /\ c \in DOMAIN m.cell[t]
      BY Known, CellOfIsCell
    <3>2. PICK s \in Seq(Nodes) : s = p[<<t, c>>] /\ StopsAt(found[c], s, keys)
      BY <1>4, <3>1
    <3>3. found[c] = Null
      BY <1>1, <1>2, <1>5, <3>1
    <3>4. \A a \in 1..Len(s) : s[a] # Null
      BY NullIsNoNode
    <3>5. \A a \in 1..Len(s) : KeyOf[s[a]] \notin keys
      BY <3>2, <3>3, <3>4 DEF StopsAt
    <3>6. \A a \in 1..Len(s) : KeyOf[s[a]] # k
      BY <3>5
    <3>7. WithKey(s, k) = <<>>
      BY <3>6, NoneWithKey
    <3> QED
      BY <3>1, <3>2, <3>7 DEF Entry
  <2> QED
    BY <1>3, <1>5, <2>1 DEF FindsAmong
<1>6. CASE hits # {}
  <2>1. PICK n \in Nat : DOMAIN m.cell[t] = 0..(n - 1)
    BY Known, CellsAre
  <2>2. hits \subseteq 0..(n - 1)
    BY <1>1, <1>2, <2>1
  <2>3. PICK c : c = Max(hits) /\ c \in hits
    BY <1>6, <2>2, GreatestExists
  <2>4. r = found[c] /\ found[c] # Null /\ c \in DOMAIN m.cell[t]
    BY <1>1, <1>2, <1>3, <1>6, <2>3
  <2>5. PICK h : h = <<t, c>> /\ h \in Slots(m, S)
    BY <1>4, <2>4
  <2>6. PICK s \in Seq(Nodes) : s = p[h] /\ StopsAt(found[c], s, keys)
    BY <1>4, <2>4, <2>5
  <2>7. PICK e \in 1..Len(s) : found[c] = s[e] /\ KeyOf[s[e]] \in keys
    BY <2>4, <2>6 DEF StopsAt
  <2>8. PICK k : k = KeyOf[s[e]] /\ k \in keys
    BY <2>7
  <2>9. CellOf(m, t, k) = c
    <3>1. InPlace(m, Slots(m, S), p)
      BY Known
    <3>2. h[1] = t /\ h[2] = c
      BY <2>5
    <3> QED
      BY <2>5, <2>6, <2>8, <3>1, <3>2 DEF InPlace
  <2>10. PICK q : q = Entry(m, S, p, t, k) /\ Selection(q, s, k)
    BY <2>5, <2>6, <2>8, <2>9, EntryKnown
  <2>11. PICK d \in 1..Len(q) : q[d] = s[e]
    BY <2>8, <2>10 DEF Selection
  <2>12. d \in DOMAIN q
    BY <2>10 DEF Selection
  <2>13. \E i \in DOMAIN q : r = q[i]
    BY <2>4, <2>7, <2>11, <2>12
  <2> QED
    BY <1>3, <2>8, <2>10, <2>13 DEF FindsAmong
<1> QED
  BY <1>5, <1>6

LEMMA SearchAllImplements ==
  ASSUME HashInv, NEW t \in Tables, HashSearchAll(t)
  PROVE  Abstract!Next
<1>1. PICK p : Knows(mem, stale, p)
  BY DEF HashInv
<1>2. PICK keys \in SUBSET Keys : Finds("search_all", t, keys, FirstInCells(mem, t, keys))
  BY DEF HashSearchAll
<1>3. t \notin stale /\ DOMAIN mem.cell[t] # {}
  BY DEF HashSearchAll, Usable, Cells
<1>4. PICK f : f = IndexOf(mem, stale, p) /\ Index = f
  BY <1>1, IndexKnown, IndexNow
<1>5. Index' = Index
  BY <1>2, IndexSame DEF Finds
<1>6. PICK r : r = FirstInCells(mem, t, keys) /\ FindsAmong(r, mem, stale, p, t, keys)
  BY <1>1, <1>3, TableSearched
<1>7. \A k \in keys : f[t][k] = Entry(mem, stale, p, t, k)
  BY <1>4, IndexIsIndex
<1>8. IF \E k \in keys : f[t][k] # <<>>
      THEN \E k \in keys : \E i \in DOMAIN f[t][k] : r = f[t][k][i]
      ELSE r = Null
  <2>1. CASE r = Null /\ \A k \in keys : f[t][k] = <<>>
    BY <2>1
  <2>2. ASSUME NEW k \in keys, NEW i \in DOMAIN f[t][k], r = f[t][k][i]
        PROVE  f[t][k] # <<>>
    <3>1. DOMAIN <<>> = {}
      OBVIOUS
    <3> QED
      BY <3>1
  <2>3. \/ r = Null /\ \A k \in keys : f[t][k] = <<>>
        \/ \E k \in keys : \E i \in DOMAIN f[t][k] : r = f[t][k][i]
    BY <1>6, <1>7 DEF FindsAmong
  <2> QED
    BY <2>1, <2>2, <2>3
<1>9. call' = [fn |-> "search_all", table |-> t, arg |-> keys, ret |-> r]
  BY <1>2, <1>6 DEF Finds
<1>10. call'.fn = "search_all" /\ call'.table = t /\ call'.arg = keys /\ call'.ret = r
  BY <1>9
<1>11. Abstract!SearchAll(call')
  BY <1>4, <1>5, <1>8, <1>10 DEF Abstract!SearchAll
<1> QED
  BY <1>11 DEF Abstract!Next, Abstract!Perform

(* HASH_MIGRATE.                                                           *)
Migration(m1, p1, m, S, p, old, new) ==
  /\ Knows(m, S, p)
  /\ old \in Tables /\ new \in Tables /\ old # new /\ old \notin S /\ new \notin S
  /\ DOMAIN m.cell[old] # {} /\ DOMAIN m.cell[new] # {}
  /\ KnownMigrate(m1, p1, m, S, p, old, new)

EntryMoved(m1, p1, m, S, p, old, new, u, k) ==
  Entry(m1, S \cup {old}, p1, u, k)
    = IF u = old THEN <<>>
      ELSE IF u = new THEN Entry(m, S, p, new, k) \o Entry(m, S, p, old, k)
      ELSE Entry(m, S, p, u, k)

LEMMA EntryMigrated ==
  ASSUME NEW m1, NEW p1, NEW m, NEW S, NEW p, NEW old, NEW new,
         Migration(m1, p1, m, S, p, old, new), NEW u \in Tables, NEW k \in Keys
  PROVE  EntryMoved(m1, p1, m, S, p, old, new, u, k)
<1>1. /\ Knows(m, S, p) /\ SameCells(m1, m)
      /\ old \in Tables /\ new \in Tables /\ old # new /\ old \notin S /\ new \notin S
      /\ DOMAIN m.cell[old] # {} /\ DOMAIN m.cell[new] # {}
  BY DEF Migration, KnownMigrate
<1>2. PICK S1 : S1 = S \cup {old}
  OBVIOUS
<1>3. Knows(m1, S1, p1)
  BY <1>2 DEF Migration, KnownMigrate
<1>4. Entry(m1, S1, p1, u, k) = Entry(m, S1, p1, u, k) /\ CellOf(m1, u, k) = CellOf(m, u, k)
  BY <1>1, EntryOfSameCells
<1>5. CASE u = old
  <2>1. Entry(m, S1, p1, u, k) = <<>>
    BY <1>2, <1>5 DEF Entry
  <2> QED
    BY <1>2, <1>4, <1>5, <2>1 DEF EntryMoved
<1>6. CASE u = new
  <2>1. PICK n \in Nat : CellOf(m, old, k) < n /\ Gathered(p1, p, m, old, new, n, k)
    BY DEF Migration, KnownMigrate
  <2>2. WithKey(p1[<<new, CellOf(m, new, k)>>], k)
          = WithKey(p[<<new, CellOf(m, new, k)>>], k) \o WithKey(p[<<old, CellOf(m, old, k)>>], k)
    BY <2>1 DEF Gathered
  <2>3. Entry(m, S1, p1, new, k) = WithKey(p1[<<new, CellOf(m, new, k)>>], k)
    BY <1>1, <1>2 DEF Entry
  <2>4. /\ Entry(m, S, p, new, k) = WithKey(p[<<new, CellOf(m, new, k)>>], k)
        /\ Entry(m, S, p, old, k) = WithKey(p[<<old, CellOf(m, old, k)>>], k)
    BY <1>1 DEF Entry
  <2> QED
    BY <1>1, <1>2, <1>4, <1>6, <2>2, <2>3, <2>4 DEF EntryMoved
<1>7. CASE u # old /\ u # new
  <2>1. CASE u \notin S /\ DOMAIN m.cell[u] # {}
    <3>1. PICK h : h = <<u, CellOf(m, u, k)>>
      OBVIOUS
    <3>2. DOMAIN m1.cell[u] # {} /\ u \notin S1
      BY <1>1, <1>2, <1>7, <2>1 DEF SameCells
    <3>3. h \in Slots(m1, S1)
      BY <1>3, <1>4, <3>1, <3>2, EntryKnown
    <3>4. h[1] # new
      BY <1>7, <3>1
    <3>5. p1[h] = p[h]
      BY <1>2, <3>3, <3>4 DEF Migration, KnownMigrate
    <3>6. Entry(m, S1, p1, u, k) = WithKey(p1[h], k) /\ Entry(m, S, p, u, k) = WithKey(p[h], k)
      BY <2>1, <3>1, <3>2 DEF Entry
    <3> QED
      BY <1>2, <1>4, <1>7, <3>5, <3>6 DEF EntryMoved
  <2>2. CASE ~ (u \notin S /\ DOMAIN m.cell[u] # {})
    <3>1. Entry(m, S1, p1, u, k) = <<>> /\ Entry(m, S, p, u, k) = <<>>
      BY <1>2, <2>2 DEF Entry
    <3> QED
      BY <1>2, <1>4, <1>7, <3>1 DEF EntryMoved
  <2> QED
    BY <2>1, <2>2
<1> QED
  BY <1>5, <1>6, <1>7

IndexMoved(f1, f, old, new) ==
  f1 = [f EXCEPT ![old] = Abstract!Nothing, ![new] = [k \in Keys |-> @[k] \o f[old][k]]]

LEMMA IndexMigrated ==
  ASSUME NEW m1, NEW p1, NEW m, NEW S, NEW p, NEW old, NEW new,
         Migration(m1, p1, m, S, p, old, new), NEW f, f = IndexOf(m, S, p),
         NEW S1, S1 = S \cup {old}
  PROVE  IndexMoved(IndexOf(m1, S1, p1), f, old, new)
<1>1. PICK f1 : f1 = IndexOf(m1, S1, p1)
  OBVIOUS
<1>2. /\ IsIndex(f) /\ IsIndex(f1)
      /\ \A u \in Tables : \A l \in Keys :
           f[u][l] = Entry(m, S, p, u, l) /\ f1[u][l] = Entry(m1, S1, p1, u, l)
  BY <1>1, IndexIsIndex
<1>3. old \in Tables /\ new \in Tables /\ old # new
  BY DEF Migration
<1>4. ASSUME NEW u \in Tables, NEW k \in Keys
      PROVE  f1[u][k] = IF u = old THEN <<>>
                        ELSE IF u = new THEN f[new][k] \o f[old][k] ELSE f[u][k]
  <2>1. EntryMoved(m1, p1, m, S, p, old, new, u, k)
    BY EntryMigrated
  <2> QED
    BY <1>2, <1>3, <2>1 DEF EntryMoved
<1>5. PICK f2 : f2 = [u \in Tables |-> [k \in Keys |-> IF u = old THEN <<>> ELSE f[u][k]]]
  OBVIOUS
<1>6. IsIndex(f2) /\ \A u \in Tables : \A k \in Keys : f2[u][k] = IF u = old THEN <<>> ELSE f[u][k]
  BY <1>5 DEF IsIndex
<1>7. PICK r : r = [k \in Keys |-> <<>>]
  OBVIOUS
<1>8. r = Abstract!Nothing /\ r = [k \in Keys |-> r[k]]
  BY <1>7 DEF Abstract!Nothing
<1>9. f2 = [f EXCEPT ![old] = r]
  <2>1. \A k \in Keys : f2[old][k] = r[k]
    BY <1>3, <1>6, <1>7
  <2>2. \A u \in Tables : u # old => \A k \in Keys : f2[u][k] = f[u][k]
    BY <1>6
  <2> QED
    BY <1>2, <1>3, <1>6, <1>8, <2>1, <2>2, RowSet
<1>10. PICK g : g = [k \in Keys |-> f2[new][k] \o f[old][k]]
  OBVIOUS
<1>11. f1 = [f2 EXCEPT ![new] = g]
  <2>1. ASSUME NEW k \in Keys PROVE f1[new][k] = g[k]
    BY <1>3, <1>4, <1>6, <1>10
  <2>2. ASSUME NEW u \in Tables, u # new, NEW k \in Keys PROVE f1[u][k] = f2[u][k]
    BY <1>4, <1>6, <2>2
  <2>3. g = [k \in Keys |-> g[k]]
    BY <1>10
  <2> QED
    BY <1>2, <1>3, <1>6, <2>1, <2>2, <2>3, RowSet
<1>12. g = [k \in Keys |-> f[new][k] \o f[old][k]]
  <2>1. \A k \in Keys : f2[new][k] = f[new][k]
    BY <1>3, <1>6
  <2> QED
    BY <1>10, <2>1
<1>13. f1 = [f EXCEPT ![old] = r, ![new] = g]
  BY <1>9, <1>11
<1>14. IndexMoved(f1, f, old, new)
  BY <1>8, <1>12, <1>13 DEF IndexMoved
<1> QED
  BY <1>1, <1>14

LEMMA MigrateImplements ==
  ASSUME HashInv, NEW t \in Tables, HashMigrate(t)
  PROVE  Abstract!Next
<1>1. PICK p : Knows(mem, stale, p)
  BY DEF HashInv
<1>2. PICK new, p1 :
        /\ new \in Tables /\ new # t /\ t \in Usable /\ new \in Usable
        /\ KnownMigrate(mem', p1, mem, stale, p, t, new)
        /\ Becomes(mem', "migrate", t, new)
        /\ stale' = stale \cup {t}
  BY <1>1, MigratedTable
<1>3. Migration(mem', p1, mem, stale, p, t, new)
  BY <1>1, <1>2 DEF Migration, Usable, Cells
<1>4. PICK f : f = IndexOf(mem, stale, p) /\ Index = f
  BY <1>1, IndexKnown, IndexNow
<1>5. Index' = IndexOf(mem', stale', p1)
  <2>1. Knows(mem', stale', p1)
    BY <1>2 DEF KnownMigrate
  <2> QED
    BY <2>1, IndexKnown, IndexNow
<1>6. IndexMoved(Index', f, t, new)
  BY <1>2, <1>3, <1>4, <1>5, IndexMigrated
<1>7. call' = [fn |-> "migrate", table |-> t, arg |-> new, ret |-> Null]
  BY <1>2 DEF Becomes
<1>8. call'.fn = "migrate" /\ call'.table = t /\ call'.arg = new
  BY <1>7
<1>9. Abstract!Migrate(call')
  BY <1>4, <1>6, <1>8 DEF Abstract!Migrate, IndexMoved
<1> QED
  BY <1>9 DEF Abstract!Next, Abstract!Perform

LEMMA StepImplements ==
  ASSUME HashInv, [Next]_vars
  PROVE  Abstract!Next \/ UNCHANGED <<Index, call>>
<1>0. MemoryType(mem)
  BY Known DEF HashInv
<1>1. ASSUME NEW t \in Tables, HashCreate(t) PROVE Abstract!Next
  <2>1. call' = [fn |-> "create", table |-> t, arg |-> call'.arg, ret |-> Null]
    BY <1>1 DEF HashCreate, Becomes
  <2>2. call'.fn \in {"create", "clear", "free"} /\ call'.table = t
    BY <2>1
  <2> QED
    BY <1>0, <1>1, <2>2, CreateEmpties, EmptyImplements
<1>2. ASSUME NEW t \in Tables, HashTableFree(t) PROVE Abstract!Next
  <2>1. call' = [fn |-> "free", table |-> t, arg |-> Null, ret |-> Null]
    BY <1>2 DEF HashTableFree, Becomes
  <2>2. call'.fn \in {"create", "clear", "free"} /\ call'.table = t
    BY <2>1
  <2> QED
    BY <1>0, <1>2, <2>2, FreeEmpties, EmptyImplements
<1>3. ASSUME NEW t \in Tables, HashTableClear(t) PROVE Abstract!Next
  <2>1. call' = [fn |-> "clear", table |-> t, arg |-> Null, ret |-> Null]
    BY <1>3 DEF HashTableClear, Becomes
  <2>2. call'.fn \in {"create", "clear", "free"} /\ call'.table = t
    BY <2>1
  <2> QED
    BY <1>0, <1>3, <2>2, ClearEmpties, EmptyImplements
<1>4. CASE UNCHANGED vars
  <2>1. Index' = Index /\ call' = call
    BY <1>4, IndexSame DEF vars
  <2> QED
    BY <2>1
<1> QED
  BY <1>1, <1>2, <1>3, <1>4, InsertImplements, DeleteImplements, SearchImplements,
     SearchAllImplements, MigrateImplements DEF Next

LEMMA InitImplements == ASSUME Init PROVE Abstract!Init
<1>1. mem = [cell |-> [t \in Tables |-> NoCells], name |-> [x \in Nodes |-> Null]]
  BY DEF Init
<1>2. mem.cell = [t \in Tables |-> NoCells]
  BY <1>1
<1>3. Usable = {}
  BY <1>2 DEF Usable, Cells, NoCells
<1>4. Index = [t \in Tables |-> [k \in Keys |-> <<>>]]
  BY <1>3 DEF Index
<1> QED
  BY <1>4 DEF Init, Abstract!Init, Abstract!Nothing, Abstract!NoCall

(* hash.h implements tables that know the nodes of every key: an insertion *)
(* appends to the nodes of one key, a deletion takes one out of them, a    *)
(* search returns the oldest, a migration appends key by key, and no call  *)
(* changes anything else.                                                  *)
THEOREM HashImplements == Spec => ImplementsKeyIndex
<1>1. Init => Abstract!Init
  BY InitImplements
<1>2. HashInv /\ [Next]_vars => [Abstract!Next]_<<Index, call>>
  BY StepImplements
<1>3. Spec => []HashInv
  BY HashInvAlways
<1>4. Spec => Abstract!Spec
  BY <1>1, <1>2, <1>3, PTL DEF Spec, Abstract!Spec
<1> QED
  BY <1>4 DEF ImplementsKeyIndex
=============================================================================

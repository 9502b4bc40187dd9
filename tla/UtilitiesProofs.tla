-------------------------- MODULE UtilitiesProofs --------------------------
(***************************************************************************)
(* Proofs about the parts of Utilities that share no state: the macros and *)
(* folds of calc.c, its checked arithmetic, the deadlines of sec.c, the    *)
(* lists of lst.h and the sorting functions of sort.c, for every width,    *)
(* length, set of nodes, array and call.                                   *)
(***************************************************************************)
EXTENDS Utilities, Lemmas, SequenceTheorems, TLAPS

-----------------------------------------------------------------------------
(***************************************************************************)
(* The alignment macros of calc.h and the folds of calc.c are right for    *)
(* every width of size_t, every alignment that divides its range and every *)
(* length: proofs about Calc.  An invariant for each keeps the locals tied *)
(* to the arguments of the call; the arithmetic is in the lemmas before.   *)
(***************************************************************************)

Aligns == {"align", "align_down"}
Folds  == {"fold_string", "fold_binary"}

AlignInv ==
  /\ phase # "idle" /\ asked.fn \in Aligns =>
       asked.n \in AlignInputs /\ asked.m \in Alignments
  /\ phase = "running" /\ asked.fn \in Aligns => n = asked.n
  /\ AlignIsTight

(* The first k bytes of a string, in order.                                *)
Bytes(k) == [x \in 1..k |-> x - 1]

FoldInv ==
  /\ phase = "idle" => folded = <<>>
  /\ phase # "idle" /\ asked.fn \in Folds => asked.n \in Nat
  /\ Running("fold_string") => n \in 0..asked.n /\ folded = Bytes(n)
  /\ Running("fold_binary") /\ asked.n < MaskModulus =>
       n \in 0..FoldEnd(asked.n) /\ n % 8 = 0 /\ folded = Bytes(n)
  /\ FoldsEveryByte

-----------------------------------------------------------------------------
(* Quotient and remainder of a division by a positive number.              *)
LEMMA Division ==
  ASSUME NEW m \in Nat \ {0}, NEW x \in Int
  PROVE  /\ x \div m \in Int
         /\ x % m \in 0..(m - 1)
         /\ x = m * (x \div m) + (x % m)
OBVIOUS

(* A number below the modulus is its own remainder.                        *)
LEMMA RemainderOfSmall ==
  ASSUME NEW m \in Nat \ {0}, NEW x \in 0..(m - 1)
  PROVE  x % m = x
OBVIOUS

(* Masking takes a number down to the multiple of m it has reached.        *)
LEMMA MaskedDown ==
  ASSUME NEW m \in Nat \ {0}, NEW x \in Nat
  PROVE  /\ Masked(x, m) \in (x - m + 1)..x
         /\ Masked(x, m) % m = 0
         /\ Masked(x, m) \in Nat
<1> DEFINE q == x \div m
<1>1. q \in Int /\ x % m \in 0..(m - 1) /\ x = m * q + (x % m)
  BY Division
<1>2. q >= 0
  BY <1>1
<1> HIDE DEF q
<1>3. q * m \in (x - m + 1)..x /\ q * m \in Nat
  BY <1>1, <1>2
<1>4. (q * m) % m = 0
  BY <1>1
<1> QED
  BY <1>3, <1>4 DEF Masked, q

(* Adding m - 1 first takes it up, as long as the sum does not wrap.       *)
LEMMA MaskedUp ==
  ASSUME NEW m \in Nat \ {0}, NEW x \in Nat, x + m <= SizeModulus
  PROVE  /\ Masked(Wrap(x + m - 1), m) % m = 0
         /\ Masked(Wrap(x + m - 1), m) \in x .. (x + m - 1)
<1>1. SizeModulus \in Nat \ {0} /\ x + m - 1 \in 0..(SizeModulus - 1)
  BY CalcAssumption
<1>2. Wrap(x + m - 1) = x + m - 1
  BY <1>1, RemainderOfSmall DEF Wrap
<1>3. \A y \in Nat : /\ Masked(y, m) \in (y - m + 1)..y
                     /\ Masked(y, m) % m = 0
  BY MaskedDown
<1>4. x + m - 1 \in Nat /\ (x + m - 1) - m + 1 = x
  OBVIOUS
<1> QED
  BY <1>2, <1>3, <1>4

(* The arguments of the macros are numbers, and the alignments not zero.   *)
LEMMA Arguments ==
  /\ \A x \in AlignInputs : x \in Nat
  /\ \A m \in Alignments : m \in Nat \ {0}
<1>1. AlignInputs \subseteq Size /\ Alignments \subseteq Size \ {0}
  BY CalcAssumption
<1>2. SizeModulus \in Nat
  BY CalcAssumption
<1> QED
  BY <1>1, <1>2 DEF Size

-----------------------------------------------------------------------------
(* A step of a call that aligns nothing.                                   *)
LEMMA NoAlign ==
  ASSUME asked'.fn \notin Aligns
  PROVE  AlignInv'
BY DEF AlignInv, AlignIsTight, Returned, Aligns

(* Every step keeps the invariant of the alignments.                       *)
LEMMA AlignKept == ASSUME AlignInv, [CalcNext]_calcVars PROVE AlignInv'
<1>1. CASE AlignCall
  <2>1. PICK x \in AlignInputs, m \in Alignments, fn \in Aligns :
          asked' = [fn |-> fn, n |-> x, m |-> m] /\ n' = x /\ phase' = "running"
    BY <1>1 DEF AlignCall, Begin, Aligns
  <2> QED
    BY <2>1 DEF AlignInv, AlignIsTight, Returned
<1>2. CASE AlignDown
  <2>1. /\ phase = "running" /\ asked.fn = "align_down" /\ asked' = asked
        /\ res' = Masked(n, asked.m) /\ phase' = "returned"
    BY <1>2 DEF AlignDown, Running, Answer
  <2>2. n = asked.n /\ asked.n \in AlignInputs /\ asked.m \in Alignments
    BY <2>1 DEF AlignInv, Aligns
  <2>3. asked.n \in Nat /\ asked.m \in Nat \ {0}
    BY <2>2, Arguments
  <2>4. AlignIsTight'
    BY <2>1, <2>2, <2>3, MaskedDown DEF AlignIsTight, Returned
  <2> QED
    BY <2>1, <2>2, <2>4 DEF AlignInv
<1>3. CASE Align
  <2>1. /\ phase = "running" /\ asked.fn = "align" /\ asked' = asked
        /\ res' = Masked(Wrap(n + asked.m - 1), asked.m) /\ phase' = "returned"
    BY <1>3 DEF Align, Running, Answer
  <2>2. n = asked.n /\ asked.n \in AlignInputs /\ asked.m \in Alignments
    BY <2>1 DEF AlignInv, Aligns
  <2>3. asked.n \in Nat /\ asked.m \in Nat \ {0}
    BY <2>2, Arguments
  <2>4. AlignIsTight'
    BY <2>1, <2>2, <2>3, MaskedUp DEF AlignIsTight, Returned
  <2> QED
    BY <2>1, <2>2, <2>4 DEF AlignInv
<1>4. CASE LogCall \/ PowerCall \/ PrimeCall \/ FoldCall
  <2>1. asked'.fn \in {"log", "power_up", "find_prime", "fold_string", "fold_binary"}
    BY <1>4 DEF LogCall, PowerCall, PrimeCall, FoldCall, Begin
  <2> QED
    BY <2>1, NoAlign DEF Aligns
<1>5. CASE \/ LogRound \/ PowerRound \/ PrimePowerRound \/ PrimeRound
           \/ FoldStringRound \/ FoldBinaryRound
  <2>1. /\ asked' = asked
        /\ asked.fn \in {"log", "power_up", "find_prime", "fold_string", "fold_binary"}
    BY <1>5 DEF LogRound, PowerRound, PrimePowerRound, PrimeRound, FoldStringRound,
       FoldBinaryRound, Running, Answer
  <2> QED
    BY <2>1, NoAlign DEF Aligns
<1>6. CASE CalcForget
  BY <1>6 DEF CalcForget, AlignInv, AlignIsTight, Returned
<1>7. CASE UNCHANGED calcVars
  BY <1>7 DEF calcVars, AlignInv, AlignIsTight, Returned
<1> QED
  BY <1>1, <1>2, <1>3, <1>4, <1>5, <1>6, <1>7 DEF CalcNext, Rounds

(* AlignIsTight: calc_align and calc_align_down are exact at every width   *)
(* of size_t, for every number and every alignment that divides its range. *)
THEOREM Alignment == CalcSpec => []AlignIsTight
<1>1. CalcInit => AlignInv
  BY DEF CalcInit, AlignInv, AlignIsTight, Returned
<1>2. AlignInv => AlignIsTight
  BY DEF AlignInv
<1> QED
  BY <1>1, <1>2, AlignKept, PTL DEF CalcSpec

-----------------------------------------------------------------------------
(* Folding b bytes continues the bytes folded before.                      *)
LEMMA BytesContinue ==
  ASSUME NEW b \in Nat, n \in Nat, folded = Bytes(n), Fold(b)
  PROVE  n' = n + b /\ folded' = Bytes(n + b)
<1>1. Bytes(n) \o [x \in 1..b |-> n + x - 1] = Bytes(n + b)
  BY DEF Bytes
<1> QED
  BY <1>1 DEF Fold

(* Before anything is folded.                                              *)
LEMMA NoBytes == Bytes(0) = <<>>
BY DEF Bytes

(* The rounds of eight stop where less than eight bytes are left.          *)
LEMMA RoundsOfEight ==
  ASSUME NEW len \in Nat, len < MaskModulus
  PROVE  /\ FoldEnd(len) \in Nat /\ FoldEnd(len) % 8 = 0
         /\ FoldEnd(len) + (len % 8) = len /\ len % 8 \in Nat
<1>1. MaskModulus \in Nat \ {0} /\ len \in 0..(MaskModulus - 1)
  BY CalcAssumption
<1>2. FoldEnd(len) = (len \div 8) * 8
  BY <1>1, RemainderOfSmall DEF FoldEnd, Masked
<1> QED
  BY <1>2

(* A step of a call that folds nothing.                                    *)
LEMMA NoFold ==
  ASSUME asked'.fn \notin Folds, phase' # "idle"
  PROVE  FoldInv'
BY DEF FoldInv, FoldsEveryByte, Running, Returned, Folds

(* Every step keeps the invariant of the folds.                            *)
LEMMA FoldKept == ASSUME FoldInv, [CalcNext]_calcVars PROVE FoldInv'
<1>1. CASE FoldCall
  <2>1. PICK len \in FoldLengths, fn \in Folds :
          /\ phase = "idle" /\ asked' = [fn |-> fn, n |-> len, m |-> 0]
          /\ n' = 0 /\ phase' = "running" /\ folded' = folded
    BY <1>1 DEF FoldCall, Begin, Folds
  <2>2. len \in Nat
    <3>1. FoldLengths \subseteq Size /\ SizeModulus \in Nat
      BY CalcAssumption
    <3> QED
      BY <3>1 DEF Size
  <2>3. folded' = Bytes(0)
    BY <2>1, NoBytes DEF FoldInv
  <2>4. len < MaskModulus => FoldEnd(len) \in Nat
    BY <2>2, RoundsOfEight
  <2> QED
    BY <2>1, <2>2, <2>3, <2>4 DEF FoldInv, FoldsEveryByte, Running, Returned
<1>2. CASE FoldStringRound
  <2>1. /\ Running("fold_string") /\ asked' = asked
        /\ asked.n \in Nat /\ n \in 0..asked.n /\ folded = Bytes(n)
    BY <1>2 DEF FoldStringRound, Answer, FoldInv, Running, Folds
  <2>2. CASE n < asked.n
    <3>1. phase' = phase /\ Fold(1)
      BY <1>2, <2>2 DEF FoldStringRound
    <3>2. n' = n + 1 /\ folded' = Bytes(n + 1)
      BY <2>1, <3>1, BytesContinue
    <3> QED
      BY <2>1, <2>2, <3>1, <3>2 DEF FoldInv, FoldsEveryByte, Running, Returned
  <2>3. CASE ~(n < asked.n)
    <3>1. phase' = "returned" /\ folded' = folded
      BY <1>2, <2>3 DEF FoldStringRound, Answer
    <3>2. n = asked.n
      BY <2>1, <2>3
    <3> QED
      BY <2>1, <3>1, <3>2 DEF FoldInv, FoldsEveryByte, Running, Returned, Bytes
  <2> QED
    BY <2>2, <2>3
<1>3. CASE FoldBinaryRound
  <2>1. /\ Running("fold_binary") /\ asked' = asked /\ asked.n \in Nat
        /\ asked.n < MaskModulus =>
             n \in 0..FoldEnd(asked.n) /\ n % 8 = 0 /\ folded = Bytes(n)
    BY <1>3 DEF FoldBinaryRound, FoldInv, Running, Folds
  <2>2. CASE n < FoldEnd(asked.n) /\ Fold(8) /\ UNCHANGED phase
    <3>1. phase' = phase
      BY <2>2
    <3>2. ASSUME asked.n < MaskModulus
          PROVE  n' \in 0..FoldEnd(asked.n) /\ n' % 8 = 0 /\ folded' = Bytes(n')
      <4>1. FoldEnd(asked.n) \in Nat /\ FoldEnd(asked.n) % 8 = 0
        BY <2>1, <3>2, RoundsOfEight
      <4>2. n + 8 \in 0..FoldEnd(asked.n) /\ (n + 8) % 8 = 0
        BY <2>1, <2>2, <3>2, <4>1
      <4>3. n' = n + 8 /\ folded' = Bytes(n + 8)
        <5>1. n \in Nat /\ folded = Bytes(n)
          BY <2>1, <3>2, <4>1
        <5> QED
          BY <2>2, <5>1, BytesContinue
      <4> QED
        BY <4>2, <4>3
    <3> QED
      BY <2>1, <3>1, <3>2 DEF FoldInv, FoldsEveryByte, Running, Returned
  <2>3. CASE n >= FoldEnd(asked.n) /\ Fold(asked.n % 8) /\ phase' = "returned"
    <3>1. phase' = "returned"
      BY <2>3
    <3>2. ASSUME asked.n < MaskModulus PROVE folded' = Bytes(asked.n)
      <4>1. /\ FoldEnd(asked.n) \in Nat /\ asked.n % 8 \in Nat
            /\ FoldEnd(asked.n) + (asked.n % 8) = asked.n
        BY <2>1, <3>2, RoundsOfEight
      <4>2. n = FoldEnd(asked.n) /\ n \in Nat
        BY <2>1, <2>3, <3>2, <4>1
      <4>3. folded' = Bytes(n + (asked.n % 8))
        BY <2>1, <2>3, <3>2, <4>1, <4>2, BytesContinue
      <4> QED
        BY <4>1, <4>2, <4>3
    <3> QED
      BY <2>1, <3>1, <3>2 DEF FoldInv, FoldsEveryByte, Running, Returned, Bytes
  <2> QED
    BY <1>3, <2>2, <2>3 DEF FoldBinaryRound
<1>4. CASE AlignCall \/ LogCall \/ PowerCall \/ PrimeCall
  <2>1. /\ asked'.fn \in Aligns \cup {"log", "power_up", "find_prime"}
        /\ phase' = "running"
    BY <1>4 DEF AlignCall, LogCall, PowerCall, PrimeCall, Begin, Aligns
  <2> QED
    BY <2>1, NoFold DEF Aligns, Folds
<1>5. CASE AlignDown \/ Align \/ LogRound \/ PowerRound \/ PrimePowerRound \/ PrimeRound
  <2>1. /\ asked' = asked /\ asked.fn \in Aligns \cup {"log", "power_up", "find_prime"}
        /\ phase' \in {"running", "searching", "returned"}
    BY <1>5 DEF AlignDown, Align, LogRound, PowerRound, PrimePowerRound, PrimeRound,
                Running, Answer, Aligns
  <2> QED
    BY <2>1, NoFold DEF Aligns, Folds
<1>6. CASE CalcForget
  BY <1>6 DEF CalcForget, FoldInv, FoldsEveryByte, Running, Returned, NothingAsked
<1>7. CASE UNCHANGED calcVars
  BY <1>7 DEF calcVars, FoldInv, FoldsEveryByte, Running, Returned
<1> QED
  BY <1>1, <1>2, <1>3, <1>4, <1>5, <1>6, <1>7 DEF CalcNext, Rounds

(* FoldsEveryByte: whatever the length, calc_fold_string and, below the    *)
(* reach of its mask, calc_fold_binary fold every byte once, in order.     *)
THEOREM Folding == CalcSpec => []FoldsEveryByte
<1>1. CalcInit => FoldInv
  BY DEF CalcInit, FoldInv, FoldsEveryByte, Running, Returned
<1>2. FoldInv => FoldsEveryByte
  BY DEF FoldInv
<1> QED
  BY <1>1, <1>2, FoldKept, PTL DEF CalcSpec

-----------------------------------------------------------------------------
(* The powers of two: none is skipped, each is bigger than its exponent,   *)
(* and a size_t holds them or wraps to zero.                               *)
LEMMA Powers ==
  /\ PowerOf2 \in [Nat -> Nat \ {0}]
  /\ PowerOf2[0] = 1
  /\ \A k \in Nat : PowerOf2[k + 1] = 2 * PowerOf2[k]
<1> DEFINE Doubles(f) == f = [k \in Nat |-> IF k = 0 THEN 1 ELSE 2 * f[k - 1]]
<1>1. PICK g : g = [x \in Nat \ {0} |-> 2 * x]
  OBVIOUS
<1>2. PICK S : S = Nat \ {0} /\ g \in [S -> S] /\ 1 \in S
  BY <1>1
<1>3. PICK f \in [Nat -> S] : f[0] = 1 /\ \A k \in Nat : f[k + 1] = g[f[k]]
  <2>1. PICK a \in S : a = 1
    BY <1>2
  <2>2. g \in [S -> S]
    BY <1>2
  <2>3. \E f \in [Nat -> S] : f[0] = a /\ \A k \in Nat : f[k + 1] = g[f[k]]
    BY <2>2, Iterates
  <2> QED
    BY <2>1, <2>3
<1>4. \A k \in Nat : f[k] = IF k = 0 THEN 1 ELSE 2 * f[k - 1]
  <2> SUFFICES ASSUME NEW k \in Nat, k # 0 PROVE f[k] = 2 * f[k - 1]
    BY <1>3
  <2>1. k - 1 \in Nat /\ (k - 1) + 1 = k
    OBVIOUS
  <2>2. f[k] = g[f[k - 1]]
    BY <1>3, <2>1
  <2> QED
    BY <1>1, <1>2, <1>3, <2>1, <2>2
<1>5. f = [k \in Nat |-> f[k]]
  BY <1>3
<1>6. Doubles(f)
  BY <1>4, <1>5
<1>7. PowerOf2 = CHOOSE e : Doubles(e)
  BY DEF PowerOf2
<1>8. Doubles(PowerOf2)
  BY <1>6, <1>7
<1>9. PICK p : p = PowerOf2
  OBVIOUS
<1>10. p = [k \in Nat |-> IF k = 0 THEN 1 ELSE 2 * p[k - 1]]
  BY <1>8, <1>9
<1>11. p[0] = 1 /\ \A k \in Nat : p[k + 1] = 2 * p[k]
  <2>1. \A k \in Nat : k + 1 \in Nat /\ k + 1 # 0 /\ (k + 1) - 1 = k
    OBVIOUS
  <2> QED
    BY <1>10, <2>1
<1> DEFINE U == {k \in Nat : p[k] \in Nat \ {0}}
<1>12. 0 \in U /\ \A k \in Nat : k \in U => k + 1 \in U
  BY <1>11
<1>13. \A k \in Nat : k \in U
  <2> HIDE DEF U
  <2> QED
    BY <1>12, AllNaturals
<1>14. p \in [Nat -> Nat \ {0}]
  BY <1>10, <1>13
<1> QED
  BY <1>9, <1>11, <1>14

LEMMA PowersOutrun == \A k \in Nat : PowerOf2[k] >= k + 1
<1> DEFINE U == {k \in Nat : PowerOf2[k] >= k + 1}
<1>1. 0 \in U
  BY Powers
<1>2. ASSUME NEW k \in Nat, k \in U PROVE k + 1 \in U
  <2>1. PowerOf2[k + 1] = 2 * PowerOf2[k] /\ PowerOf2[k] \in Nat /\ PowerOf2[k] >= k + 1
    BY <1>2, Powers
  <2> QED
    BY <2>1
<1>3. \A k \in Nat : k \in U => k + 1 \in U
  BY <1>2
<1> HIDE DEF U
<1>4. \A k \in Nat : k \in U
  BY <1>1, <1>3, AllNaturals
<1> USE DEF U
<1> QED
  BY <1>4

LEMMA PowersGrow ==
  ASSUME NEW k \in Nat, NEW w \in Nat, PowerOf2[k] < PowerOf2[w]
  PROVE  PowerOf2[k + 1] <= PowerOf2[w]
<1> DEFINE U == {d \in Nat : PowerOf2[k + d] >= PowerOf2[k] /\ PowerOf2[w + d] >= PowerOf2[w]}
<1>1. 0 \in U
  BY Powers
<1>2. ASSUME NEW d \in Nat, d \in U PROVE d + 1 \in U
  <2>1. k + d \in Nat /\ w + d \in Nat /\ k + (d + 1) = (k + d) + 1 /\ w + (d + 1) = (w + d) + 1
    OBVIOUS
  <2>2. /\ PowerOf2[k + (d + 1)] = 2 * PowerOf2[k + d] /\ PowerOf2[k + d] \in Nat
        /\ PowerOf2[w + (d + 1)] = 2 * PowerOf2[w + d] /\ PowerOf2[w + d] \in Nat
    BY <2>1, Powers
  <2>3. PowerOf2[k + d] >= PowerOf2[k] /\ PowerOf2[w + d] >= PowerOf2[w]
    BY <1>2
  <2>4. PowerOf2[k] \in Nat /\ PowerOf2[w] \in Nat
    BY Powers
  <2>5. PowerOf2[k + (d + 1)] >= PowerOf2[k] /\ PowerOf2[w + (d + 1)] >= PowerOf2[w]
    BY <2>2, <2>3, <2>4
  <2> QED
    BY <2>5
<1>3. \A d \in Nat : d \in U => d + 1 \in U
  BY <1>2
<1> HIDE DEF U
<1>4. \A d \in Nat : d \in U
  BY <1>1, <1>3, AllNaturals
<1> USE DEF U
<1>5. PowerOf2[k] \in Nat /\ PowerOf2[w] \in Nat /\ PowerOf2[k + 1] = 2 * PowerOf2[k]
  BY Powers
<1>6. CASE w <= k
  <2>1. PICK d \in Nat : d = k - w
    BY <1>6
  <2>2. w + d = k
    BY <2>1
  <2>3. PowerOf2[k] >= PowerOf2[w]
    BY <1>4, <2>1, <2>2
  <2> QED
    BY <1>5, <2>3
<1>7. CASE ~ w <= k
  <2>1. PICK d \in Nat : d = w - (k + 1)
    BY <1>7
  <2>2. (k + d) + 1 = w /\ k + d \in Nat
    BY <2>1
  <2>3. PowerOf2[w] = 2 * PowerOf2[k + d] /\ PowerOf2[k + d] \in Nat
    BY <2>2, Powers
  <2>4. PowerOf2[k + d] >= PowerOf2[k]
    BY <1>4, <2>1
  <2> QED
    BY <1>5, <2>3, <2>4
<1> QED
  BY <1>6, <1>7

(* The next power of two fits in a size_t or wraps to zero.                *)
LEMMA NextPowerWraps ==
  ASSUME NEW k \in Nat, PowerOf2[k] < SizeModulus
  PROVE  Wrap(2 * PowerOf2[k]) \in {0, PowerOf2[k + 1]}
<1>1. PICK w \in Nat : SizeModulus = PowerOf2[w]
  BY CalcAssumption
<1>2. PICK p \in Nat : p = PowerOf2[k + 1] /\ p = 2 * PowerOf2[k] /\ p <= SizeModulus
  BY <1>1, Powers, PowersGrow
<1>3. SizeModulus \in Nat \ {0}
  BY CalcAssumption
<1>4. p < SizeModulus => p % SizeModulus = p
  BY <1>2, <1>3, RemainderOfSmall
<1>5. p = SizeModulus => p % SizeModulus = 0
  BY <1>3
<1> QED
  BY <1>2, <1>3, <1>4, <1>5 DEF Wrap

-----------------------------------------------------------------------------
(***************************************************************************)
(* calc_find_prime.  Rounding to a double moves a number by less than one  *)
(* part in 512, less than the factors of the code raise it, so its first   *)
(* candidate is above n; and where the loop for pow2 ends, n is in the     *)
(* lower half of the range, so the candidate stays in its first three      *)
(* quarters, below a prime at which the search stops at the latest.        *)
(***************************************************************************)
LEMMA Widths ==
  /\ SizeModulus \in Nat /\ SizeModulus >= 1024
  /\ Significand = 2 * One /\ One \in Nat /\ One >= 256
<1>1. PICK k \in Nat : Significand = PowerOf2[k]
  BY CalcAssumption
<1>2. Significand \in Nat /\ Significand >= 512
  BY CalcAssumption
<1>3. k # 0
  BY <1>1, <1>2, Powers
<1>4. k - 1 \in Nat /\ (k - 1) + 1 = k
  BY <1>3
<1>5. PICK h \in Nat : h = PowerOf2[k - 1] /\ Significand = 2 * h
  BY <1>1, <1>4, Powers
<1>6. One = h
  BY <1>5 DEF One
<1> QED
  BY <1>2, <1>5, <1>6, CalcAssumption

(* The unit of x is one, or such that x has a full significand of them.    *)
LEMMA UnitFits ==
  ASSUME NEW x \in Nat
  PROVE  \E u \in Nat \ {0} : Unit[x] = u /\ (u = 1 \/ 256 * u <= x)
<1> DEFINE K == {t \in Nat : x < Significand * PowerOf2[t]}
<1>1. PICK s \in Nat : s = Significand /\ s >= 512
  BY CalcAssumption
<1>2. x \in K
  <2>1. PICK p \in Nat : p = PowerOf2[x] /\ p >= x + 1
    BY Powers, PowersOutrun
  <2>2. s * p >= p
    BY <1>1, <2>1
  <2> QED
    BY <1>1, <2>1, <2>2
<1>3. PICK l \in K : \A t \in K : l <= t
  <2>1. K \subseteq Nat /\ K # {}
    BY <1>2
  <2> HIDE DEF K
  <2> QED
    BY <2>1, LeastExists
<1> DEFINE Fits(k) == /\ x < Significand * PowerOf2[k]
                      /\ k > 0 => x >= Significand * PowerOf2[k - 1]
<1>4. l \in 0..x /\ Fits(l)
  <2>1. l \in Nat /\ l <= x /\ x < Significand * PowerOf2[l]
    BY <1>2, <1>3
  <2>2. ASSUME l > 0 PROVE x >= Significand * PowerOf2[l - 1]
    <3>1. l - 1 \in Nat /\ ~ l <= l - 1
      BY <2>1, <2>2
    <3>2. l - 1 \notin K
      BY <1>3, <3>1
    <3>3. PICK p \in Nat : p = PowerOf2[l - 1]
      BY <3>1, Powers
    <3>4. s * p \in Nat
      BY <1>1, <3>3
    <3> QED
      BY <1>1, <3>1, <3>2, <3>3, <3>4
  <2> QED
    BY <2>1, <2>2
<1>5. PICK k \in 0..x : k = (CHOOSE t \in 0..x : Fits(t)) /\ Fits(k)
  <2> HIDE DEF Fits
  <2> QED
    BY <1>4
<1>6. Unit[x] = PowerOf2[k]
  BY <1>5 DEF Unit
<1>7. CASE k = 0
  BY <1>6, <1>7, Powers
<1>8. CASE k # 0
  <2>1. k - 1 \in Nat /\ (k - 1) + 1 = k
    BY <1>5, <1>8
  <2>2. PICK p \in Nat \ {0} : p = PowerOf2[k - 1] /\ PowerOf2[k] = 2 * p
    BY <2>1, Powers
  <2>3. x >= s * p
    BY <1>1, <1>5, <1>8, <2>1, <2>2
  <2>4. s * p >= 512 * p
    BY <1>1, <2>2
  <2>5. 2 * p \in Nat \ {0} /\ 256 * (2 * p) <= x
    BY <2>2, <2>3, <2>4
  <2> QED
    BY <1>6, <2>2, <2>5
<1> QED
  BY <1>7, <1>8

(* Rounding to a double moves a number by one part in 512 at most.         *)
LEMMA RoundedNear ==
  ASSUME NEW x \in Nat
  PROVE  Rounded[x] \in Nat /\ 511 * x <= 512 * Rounded[x] /\ 512 * Rounded[x] <= 513 * x
<1>1. PICK u \in Nat \ {0} : Unit[x] = u /\ (u = 1 \/ 256 * u <= x)
  BY UnitFits
<1>2. PICK q, r : q = x \div u /\ r = x % u
  OBVIOUS
<1>3. q \in Int /\ r \in 0..(u - 1) /\ x = u * q + r
  BY <1>1, <1>2, Division
<1>4. PICK low : low = q * u
  OBVIOUS
<1>5. low \in Int /\ x = low + r
  BY <1>1, <1>3, <1>4
<1>6. PICK y : y = IF 2 * (x - low) > u \/ (2 * (x - low) = u /\ q % 2 = 1) THEN low + u ELSE low
  OBVIOUS
<1>7. ToMultiple(x, u) = y
  BY <1>2, <1>4, <1>6 DEF ToMultiple
<1>8. Rounded[x] = ToMultiple(x, u)
  BY <1>1 DEF Rounded
<1>9. y \in Int /\ 2 * (x - y) <= u /\ 2 * (y - x) <= u /\ (u = 1 => y = x)
  BY <1>1, <1>3, <1>5, <1>6
<1> QED
  BY <1>1, <1>7, <1>8, <1>9

(* A factor is the nearest number of steps of 1 / One.                     *)
LEMMA FactorNear ==
  ASSUME NEW d \in Nat
  PROVE  /\ Factor(d) \in Int
         /\ 20000000 * (Factor(d) - One) <= 2 * (One * d) + 10000000
         /\ 2 * (One * d) < 20000000 * (Factor(d) - One) + 10000000
<1>1. PICK o \in Nat : o = One
  BY Widths
<1>2. PICK a \in Int : a = 2 * (o * d) + 10000000
  BY SMT
<1>3. Factor(d) = o + (a \div 20000000)
  BY SMT, <1>1, <1>2 DEF Factor, Nearest
<1>4. /\ a \div 20000000 \in Int
      /\ 20000000 * (a \div 20000000) <= a
      /\ a < 20000000 * (a \div 20000000) + 20000000
  BY SMT
<1> QED
  BY SMT, <1>1, <1>2, <1>3, <1>4

(* The factors of the code raise a number by one percent at least.         *)
Raises(d, c) ==
  /\ Factor(d) \in Nat /\ c < 1200
  /\ 101 * One <= 100 * Factor(d) /\ 1000 * Factor(d) <= c * One

LEMMA Factors == Raises(RANDOM_1, 1046) /\ Raises(RANDOM_2, 1118) /\ Raises(RANDOM_3, 1018)
<1>1. One \in Nat /\ One >= 256
  BY Widths
<1>2. /\ Factor(RANDOM_1) \in Int
      /\ 20000000 * (Factor(RANDOM_1) - One) <= 2 * (One * 412321) + 10000000
      /\ 2 * (One * 412321) < 20000000 * (Factor(RANDOM_1) - One) + 10000000
  BY SMT, FactorNear DEF RANDOM_1
<1>3. /\ Factor(RANDOM_2) \in Int
      /\ 20000000 * (Factor(RANDOM_2) - One) <= 2 * (One * 1131347) + 10000000
      /\ 2 * (One * 1131347) < 20000000 * (Factor(RANDOM_2) - One) + 10000000
  BY SMT, FactorNear DEF RANDOM_2
<1>4. /\ Factor(RANDOM_3) \in Int
      /\ 20000000 * (Factor(RANDOM_3) - One) <= 2 * (One * 132677) + 10000000
      /\ 2 * (One * 132677) < 20000000 * (Factor(RANDOM_3) - One) + 10000000
  BY SMT, FactorNear DEF RANDOM_3
<1> QED
  BY SMT, <1>1, <1>2, <1>3, <1>4 DEF Raises

(* Products of numbers that are compared.                                  *)
LEMMA ProductsGrow ==
  ASSUME NEW a \in Nat, NEW b \in Nat, NEW c \in Nat, a <= b
  PROVE  a * c <= b * c
OBVIOUS

LEMMA WholeMultiples ==
  ASSUME NEW m \in Nat \ {0}, NEW x \in Nat
  PROVE  x \div m \in Int /\ (x \div m) * m <= x /\ x < (x \div m) * m + m
<1>1. PICK q \in Int, r \in 0..(m - 1) : q = x \div m /\ x = m * q + r
  BY Division
<1>2. m * q = q * m
  OBVIOUS
<1> QED
  BY <1>1, <1>2

(* A factor between 1.01 and c / 1000, applied as the code applies it.     *)
RaisedTo(x, v, c) == v \in Nat /\ x <= v /\ 1000 * v <= c * x

LEMMA ScaledBy ==
  ASSUME NEW x \in Nat, NEW d \in Nat, NEW c \in Nat, Raises(d, c)
  PROVE  RaisedTo(x, Scaled(x, d), c + 5)
<1>1. PICK o \in Nat \ {0}, f \in Nat : /\ o = One /\ o >= 256 /\ f = Factor(d)
                                        /\ 101 * o <= 100 * f /\ 1000 * f <= c * o
                                        /\ c < 1200
  BY Widths DEF Raises
<1>2. PICK y \in Nat : y = Rounded[x] /\ 511 * x <= 512 * y /\ 512 * y <= 513 * x
  BY RoundedNear
<1>3. PICK p \in Nat : p = y * f
  OBVIOUS
<1>4. PICK z \in Nat : z = Rounded[p] /\ 511 * p <= 512 * z /\ 512 * z <= 513 * p
  BY RoundedNear
<1>5. PICK w \in Nat, v \in Nat : w = x * o /\ v = y * o
  OBVIOUS
<1>6. 101 * v <= 100 * p /\ 1000 * p <= c * v
  <2>1. y * (101 * o) <= y * (100 * f) /\ y * (1000 * f) <= y * (c * o)
    BY <1>1
  <2>2. y * (101 * o) = 101 * v /\ y * (100 * f) = 100 * p /\ y * (1000 * f) = 1000 * p
    BY <1>3, <1>5
  <2>3. y * (c * o) = c * v
    BY <1>5
  <2> QED
    BY <2>1, <2>2, <2>3
<1>7. 511 * w <= 512 * v /\ 512 * v <= 513 * w
  <2>1. (511 * x) * o <= (512 * y) * o /\ (512 * y) * o <= (513 * x) * o
    BY <1>2, ProductsGrow
  <2>2. (511 * x) * o = 511 * w /\ (512 * y) * o = 512 * v /\ (513 * x) * o = 513 * w
    BY <1>5
  <2> QED
    BY <2>1, <2>2
<1>8. w <= z
  BY ONLY <1>4, <1>6, <1>7, w \in Nat, v \in Nat, p \in Nat, z \in Nat
<1>9. PICK q \in Int : q = z \div o /\ q * o <= z /\ z < q * o + o
  BY WholeMultiples
<1>10. Scaled(x, d) = q
  BY <1>1, <1>2, <1>3, <1>4, <1>9 DEF Scaled
<1>11. x <= q
  <2> SUFFICES ASSUME q + 1 <= x PROVE FALSE
    OBVIOUS
  <2>1. (q + 1) * o <= x * o
    OBVIOUS
  <2>2. (q + 1) * o = q * o + o
    OBVIOUS
  <2> QED
    BY <1>5, <1>8, <1>9, <2>1, <2>2
<1>12. 1000 * z <= (c + 5) * w
  <2>1. PICK e \in Nat : e = c * v
    OBVIOUS
  <2>2. PICK g \in Nat : g = c * w
    OBVIOUS
  <2>3. 512 * e <= 513 * g
    <3>1. c * (512 * v) <= c * (513 * w)
      BY <1>7
    <3>2. c * (512 * v) = 512 * e /\ c * (513 * w) = 513 * g
      BY <2>1, <2>2
    <3> QED
      BY <3>1, <3>2
  <2>4. g <= 1200 * w
    BY <1>1, <2>2, ProductsGrow
  <2>5. 1000 * z <= g + 5 * w
    BY ONLY <1>4, <1>6, <2>1, <2>3, <2>4, w \in Nat, v \in Nat, p \in Nat,
            z \in Nat, e \in Nat, g \in Nat
  <2> QED
    BY <2>2, <2>5
<1>13. 1000 * q <= (c + 5) * x
  <2> SUFFICES ASSUME (c + 5) * x + 1 <= 1000 * q PROVE FALSE
    OBVIOUS
  <2>1. ((c + 5) * x + 1) * o <= (1000 * q) * o
    <3>1. q \in Nat
      BY <1>11
    <3> QED
      BY <3>1, ProductsGrow
  <2>2. ((c + 5) * x + 1) * o = (c + 5) * w + o
    BY <1>5
  <2>3. (1000 * q) * o = 1000 * (q * o)
    OBVIOUS
  <2> QED
    BY <1>1, <1>9, <1>12, <2>1, <2>2, <2>3
<1> QED
  BY <1>10, <1>11, <1>13 DEF RaisedTo

LEMMA ScaledNear ==
  ASSUME NEW x \in Nat
  PROVE  /\ RaisedTo(x, Scaled(x, RANDOM_1), 1051)
         /\ RaisedTo(x, Scaled(x, RANDOM_2), 1123)
         /\ RaisedTo(x, Scaled(x, RANDOM_3), 1023)
<1>1. PICK a \in Nat, b \in Nat, c \in Nat :
        /\ a = 1046 /\ b = 1118 /\ c = 1018
        /\ Raises(RANDOM_1, a) /\ Raises(RANDOM_2, b) /\ Raises(RANDOM_3, c)
  BY Factors
<1>2. RANDOM_1 \in Nat /\ RANDOM_2 \in Nat /\ RANDOM_3 \in Nat
  BY SMT DEF RANDOM_1, RANDOM_2, RANDOM_3
<1>3. /\ RaisedTo(x, Scaled(x, RANDOM_1), a + 5)
      /\ RaisedTo(x, Scaled(x, RANDOM_2), b + 5)
      /\ RaisedTo(x, Scaled(x, RANDOM_3), c + 5)
  BY <1>1, <1>2, ScaledBy
<1>4. a + 5 = 1051 /\ b + 5 = 1123 /\ c + 5 = 1023
  BY <1>1
<1> QED
  BY <1>3, <1>4

(* From a number in the lower half of the range the first candidate is not *)
(* below it and in the first three quarters, whatever pow2 is.             *)
LEMMA FarIsAbove ==
  ASSUME NEW x \in Nat, NEW pow2, 2 * x <= SizeModulus
  PROVE  /\ FarFromPowerOf2(x, pow2) \in Nat /\ x <= FarFromPowerOf2(x, pow2)
         /\ 4 * FarFromPowerOf2(x, pow2) <= 3 * SizeModulus
<1>1. PICK s \in Nat : s = SizeModulus /\ s >= 1024
  BY Widths
<1>2. PICK y : y = IF Rounded[x] * One < Factor(500000) * pow2 THEN Scaled(x, RANDOM_1) ELSE x
  OBVIOUS
<1>3. y \in Nat /\ x <= y /\ 1000 * y <= 1051 * x
  <2>1. RaisedTo(x, Scaled(x, RANDOM_1), 1051)
    BY ScaledNear
  <2>2. y = Scaled(x, RANDOM_1) \/ y = x
    BY <1>2
  <2> QED
    BY <2>1, <2>2 DEF RaisedTo
<1>4. PICK z : z = IF Rounded[y] * Significand > NearlyOne * Wrap(2 * pow2)
                   THEN Scaled(y, RANDOM_2) ELSE y
  OBVIOUS
<1>5. z \in Nat /\ y <= z /\ 1000 * z <= 1123 * y
  <2>1. RaisedTo(y, Scaled(y, RANDOM_2), 1123)
    BY <1>3, ScaledNear
  <2>2. z = Scaled(y, RANDOM_2) \/ z = y
    BY <1>4
  <2> QED
    BY <1>3, <2>1, <2>2 DEF RaisedTo
<1>6. PICK w : w = IF z > Wrap(Wrap(2 * pow2) - 20) THEN Wrap(z + 30) ELSE z
  OBVIOUS
<1>7. Wrap(z + 30) = z + 30
  <2>1. z + 30 \in 0..(s - 1) /\ s \in Nat \ {0}
    BY <1>1, <1>3, <1>5
  <2> QED
    BY <1>1, <2>1, RemainderOfSmall DEF Wrap
<1>8. w \in Nat /\ z <= w /\ w <= z + 30
  BY <1>5, <1>6, <1>7
<1>9. RaisedTo(w, Scaled(w, RANDOM_3), 1023)
  BY <1>8, ScaledNear
<1>10. FarFromPowerOf2(x, pow2) = Scaled(w, RANDOM_3)
  BY <1>2, <1>4, <1>6 DEF FarFromPowerOf2
<1>11. PICK v \in Nat : v = Scaled(w, RANDOM_3) /\ w <= v /\ 1000 * v <= 1023 * w
  BY <1>9 DEF RaisedTo
<1>12. x <= v /\ 4 * v <= 3 * s
  BY <1>1, <1>3, <1>5, <1>8, <1>11
<1> QED
  BY <1>1, <1>10, <1>11, <1>12

(* What pow2 is while it is doubled: a power of two, or zero after it has  *)
(* wrapped.                                                                *)
PowerOrZero(r) == r = 0 \/ (r < SizeModulus /\ \E k \in Nat : r = PowerOf2[k])

(* The loop ends only for a number in the lower half of the range.         *)
LEMMA DoublingEnds ==
  ASSUME NEW r, PowerOrZero(r), NEW x \in Nat
  PROVE  /\ PowerOrZero(Wrap(2 * r))
         /\ ~ Wrap(2 * r) < x => 2 * x <= SizeModulus
<1>1. PICK s \in Nat \ {0} : s = SizeModulus
  BY Widths
<1>2. CASE r = 0
  <2>1. 0 \in 0..(s - 1)
    OBVIOUS
  <2>2. Wrap(2 * r) = 0
    BY <1>1, <1>2, <2>1, RemainderOfSmall DEF Wrap
  <2> QED
    BY <1>1, <2>2 DEF PowerOrZero
<1>3. CASE r # 0
  <2>1. PICK k \in Nat : r = PowerOf2[k] /\ r < SizeModulus
    BY <1>3 DEF PowerOrZero
  <2>2. PICK p \in Nat \ {0} : p = PowerOf2[k + 1] /\ PowerOf2[(k + 1) + 1] = 2 * p
    BY Powers
  <2>3. Wrap(2 * r) = 0 \/ Wrap(2 * r) = p
    BY <2>1, <2>2, NextPowerWraps
  <2>4. Wrap(2 * r) < SizeModulus
    <3>1. 2 * r \in Int
      BY <2>1, Powers
    <3> QED
      BY <1>1, <3>1, Division DEF Wrap
  <2>5. CASE Wrap(2 * r) = 0
    BY <1>1, <2>5 DEF PowerOrZero
  <2>6. CASE Wrap(2 * r) = p
    <3>1. PICK w \in Nat : SizeModulus = PowerOf2[w]
      BY CalcAssumption
    <3>2. 2 * p <= SizeModulus
      BY <2>2, <2>4, <2>6, <3>1, PowersGrow
    <3> QED
      BY <1>1, <2>2, <2>4, <2>6, <3>2 DEF PowerOrZero
  <2> QED
    BY <2>3, <2>5, <2>6
<1> QED
  BY <1>2, <1>3

(* A number of at least two that no number up to its root divides.         *)
LEMMA NoDivisorMakesPrime ==
  ASSUME NEW x \in Nat, x > 1, x < SizeModulus, ~HasDivisor(x)
  PROVE  IsPrime(x)
<1>1. SUFFICES ASSUME NEW d \in 2..(x - 1), x % d = 0 PROVE FALSE
  BY DEF IsPrime
<1>2. PICK e \in Int : x = d * e
  <2>1. d \in Nat \ {0}
    OBVIOUS
  <2>2. x \div d \in Int /\ x = d * (x \div d) + (x % d)
    BY <2>1, Division
  <2> QED
    BY <1>1, <2>2
<1>3. e \in 2..x
  <2>1. CASE e <= 0
    <3>1. d * e <= 0
      BY <2>1
    <3> QED
      BY <1>2, <3>1
  <2>2. CASE e = 1
    BY <1>2, <2>2
  <2>3. CASE e > 1
    <3>1. d * e >= e
      BY <2>3
    <3> QED
      BY <1>2, <2>3, <3>1
  <2> QED
    BY <1>2, <2>1, <2>2, <2>3
<1>4. x % e = 0
  <2>1. e \in Nat \ {0} /\ d \in Int
    BY <1>3
  <2>2. (d * e) % e = 0
    BY <2>1
  <2> QED
    BY <1>2, <2>2
<1>5. ASSUME NEW c \in 2..x, x % c = 0, c * c <= x PROVE FALSE
  <2>1. ASSUME NEW t \in 2..c PROVE Wrap(t * t) <= x
    <3>1. t * t <= c * c
      OBVIOUS
    <3>2. t * t \in 0..(SizeModulus - 1) /\ SizeModulus \in Nat \ {0}
      BY <1>5, <3>1, Widths
    <3>3. Wrap(t * t) = t * t
      BY <3>2, RemainderOfSmall DEF Wrap
    <3> QED
      BY <1>5, <3>1, <3>2, <3>3
  <2> QED
    BY <1>5, <2>1 DEF HasDivisor
<1>6. CASE d <= e
  <2>1. d * d <= d * e
    BY <1>3, <1>6
  <2>2. d \in 2..x /\ d * d <= x /\ x % d = 0
    BY <1>1, <1>2, <2>1
  <2> QED
    BY <1>5, <2>2
<1>7. CASE e <= d
  <2>1. e * e <= d * e
    BY <1>3, <1>7
  <2>2. e \in 2..x /\ e * e <= x /\ x % e = 0
    BY <1>2, <1>3, <1>4, <2>1
  <2> QED
    BY <1>5, <2>2
<1> QED
  BY <1>3, <1>6, <1>7

(* A prime the search cannot pass by: i stops at its root, before i * i    *)
(* would wrap.                                                             *)
Stops(p) == p \in Nat /\ p < SizeModulus /\ 4 * p > 3 * SizeModulus /\ ~HasDivisor(p)

Stop == CHOOSE p \in Nat : Stops(p)

LEMMA StopExists == Stops(Stop)
<1>1. PICK r \in Size, p \in Size :
        r * r < SizeModulus /\ 4 * p > 3 * SizeModulus /\ p < r * r /\ IsPrime(p)
  BY PrimeAssumption
<1>2. PICK s \in Nat : s = SizeModulus /\ s >= 1024 /\ r \in 0..(s - 1) /\ p \in 0..(s - 1)
  BY <1>1, Widths DEF Size
<1>3. r \in 2..p
  <2>1. r >= 2
    <3>1. r \in {0, 1} => r * r <= 1
      OBVIOUS
    <3> QED
      BY <1>1, <1>2, <3>1
  <2>2. r * 2 <= r * r
    BY <1>2, <2>1
  <2> QED
    BY <1>1, <1>2, <2>1, <2>2
<1>4. Wrap(r * r) = r * r
  <2>1. r * r \in 0..(s - 1) /\ s \in Nat \ {0}
    BY <1>1, <1>2
  <2> QED
    BY <1>2, <2>1, RemainderOfSmall DEF Wrap
<1>5. ASSUME NEW d \in 2..p, p % d = 0, \A t \in 2..d : Wrap(t * t) <= p PROVE FALSE
  <2>1. d = p
    <3>1. \A e \in 2..(p - 1) : p % e # 0
      BY <1>1 DEF IsPrime
    <3>2. d \notin 2..(p - 1)
      BY <1>5, <3>1
    <3> QED
      BY <1>2, <3>2
  <2>2. Wrap(r * r) <= p
    BY <1>3, <1>5, <2>1
  <2> QED
    BY <1>1, <1>2, <1>4, <2>2
<1>6. Stops(p)
  BY <1>1, <1>2, <1>5 DEF Stops, HasDivisor
<1> QED
  BY <1>2, <1>6 DEF Stop, Stops

PrimeInv ==
  /\ Running("find_prime") =>
       asked.n \in Size /\ n = Wrap(asked.n + 100) /\ PowerOrZero(res)
  /\ phase = "searching" =>
       /\ asked.fn = "find_prime" /\ asked.n \in Size
       /\ n \in 0..Stop
       /\ asked.n + 100 < SizeModulus => asked.n + 100 <= n
  /\ PrimeIsFound

(* A step of a call that looks for no prime.                               *)
LEMMA NoPrime ==
  ASSUME asked'.fn # "find_prime", phase' # "searching"
  PROVE  PrimeInv'
BY DEF PrimeInv, PrimeIsFound, Running, Returned

LEMMA PrimeStarts == ASSUME PrimeInv, PrimeCall PROVE PrimeInv'
<1>1. PICK x \in PrimeInputs :
        /\ asked' = [fn |-> "find_prime", n |-> x, m |-> 0] /\ phase' = "running"
        /\ n' = Wrap(x + 100) /\ res' = 1
  BY DEF PrimeCall, Begin
<1>2. x \in Size
  BY CalcAssumption
<1>3. PowerOrZero(1)
  BY Powers, Widths DEF PowerOrZero
<1> QED
  BY <1>1, <1>2, <1>3 DEF PrimeInv, PrimeIsFound, Running, Returned

LEMMA PowerRoundKeepsPrime == ASSUME PrimeInv, PrimePowerRound PROVE PrimeInv'
<1>1. PICK x : x = asked.n
  OBVIOUS
<1>2. /\ Running("find_prime") /\ asked' = asked
      /\ x \in Size /\ n = Wrap(x + 100) /\ PowerOrZero(res) /\ res' = Wrap(2 * res)
  BY <1>1 DEF PrimePowerRound, PrimeInv
<1>3. PICK s \in Nat \ {0} : s = SizeModulus /\ s >= 1024 /\ x \in 0..(s - 1)
  BY <1>2, Widths DEF Size
<1>4. n \in Nat /\ (x + 100 < s => n = x + 100)
  <2>1. x + 100 \in Int
    BY <1>3
  <2>2. n = (x + 100) % s
    BY <1>2, <1>3 DEF Wrap
  <2>3. (x + 100) % s \in 0..(s - 1)
    BY <2>1, Division
  <2>4. x + 100 < s => x + 100 \in 0..(s - 1)
    BY <1>3
  <2> QED
    BY <1>3, <2>2, <2>3, <2>4, RemainderOfSmall
<1>5. PowerOrZero(res')
  BY <1>2, <1>4, DoublingEnds
<1>6. CASE Wrap(2 * res) < n
  <2>1. n' = n /\ phase' = "running"
    BY <1>2, <1>6 DEF PrimePowerRound, Running
  <2> QED
    BY <1>1, <1>2, <1>5, <2>1 DEF PrimeInv, PrimeIsFound, Running, Returned
<1>7. CASE ~ Wrap(2 * res) < n
  <2>1. n' = FarFromPowerOf2(n, res) /\ phase' = "searching"
    BY <1>7 DEF PrimePowerRound
  <2>2. 2 * n <= SizeModulus
    BY <1>2, <1>4, <1>7, DoublingEnds
  <2>3. PICK c \in Nat : c = FarFromPowerOf2(n, res) /\ n <= c /\ 4 * c <= 3 * SizeModulus
    BY <1>4, <2>2, FarIsAbove
  <2>4. c \in 0..Stop
    BY <1>3, <2>3, StopExists DEF Stops
  <2>5. x + 100 < SizeModulus => x + 100 <= c
    BY <1>3, <1>4, <2>3
  <2> QED
    BY <1>1, <1>2, <2>1, <2>3, <2>4, <2>5 DEF PrimeInv, PrimeIsFound, Running, Returned
<1> QED
  BY <1>6, <1>7

LEMMA SearchKeepsPrime == ASSUME PrimeInv, PrimeRound PROVE PrimeInv'
<1>1. PICK x, s : x = asked.n /\ s = SizeModulus /\ s \in Nat
  BY Widths
<1>2. /\ phase = "searching" /\ asked.fn = "find_prime" /\ asked' = asked
      /\ x \in Size /\ n \in 0..Stop /\ (x + 100 < s => x + 100 <= n)
  BY <1>1 DEF PrimeRound, PrimeInv, Answer
<1>3. x \in Nat /\ n \in Nat /\ n < s /\ Stop \in Nat /\ Stop < s
  BY <1>1, <1>2, StopExists DEF Stops, Size
<1>4. CASE HasDivisor(n)
  <2>1. n' = Wrap(n + 1) /\ phase' = phase
    BY <1>4 DEF PrimeRound
  <2>2. n # Stop
    BY <1>4, StopExists DEF Stops
  <2>3. n + 1 \in 0..(s - 1) /\ n + 1 \in 0..Stop /\ s \in Nat \ {0}
    BY <1>1, <1>2, <1>3, <2>2
  <2>4. n' = n + 1
    BY <1>1, <2>1, <2>3, RemainderOfSmall DEF Wrap
  <2>5. x + 100 < s => x + 100 <= n + 1
    BY <1>2, <1>3
  <2> QED
    BY <1>1, <1>2, <2>1, <2>3, <2>4, <2>5 DEF PrimeInv, PrimeIsFound, Running, Returned
<1>5. CASE ~HasDivisor(n)
  <2>1. res' = n /\ phase' = "returned"
    BY <1>5 DEF PrimeRound, Answer
  <2>2. n \in {0, 1} \/ IsPrime(n)
    BY <1>1, <1>3, <1>5, NoDivisorMakesPrime
  <2>3. x + 100 < s => n > x /\ n > 1
    BY <1>2, <1>3
  <2> QED
    BY <1>1, <1>2, <2>1, <2>2, <2>3 DEF PrimeInv, PrimeIsFound, Running, Returned
<1> QED
  BY <1>4, <1>5

(* Every step keeps the invariant of the primes.                           *)
LEMMA PrimeKept == ASSUME PrimeInv, [CalcNext]_calcVars PROVE PrimeInv'
<1>1. CASE PrimeCall \/ PrimePowerRound \/ PrimeRound
  BY <1>1, PrimeStarts, PowerRoundKeepsPrime, SearchKeepsPrime
<1>2. CASE AlignCall \/ LogCall \/ PowerCall \/ FoldCall \/ CalcForget
  <2>1. asked'.fn # "find_prime" /\ phase' \in {"running", "idle"}
    BY <1>2 DEF AlignCall, LogCall, PowerCall, FoldCall, CalcForget, Begin, NothingAsked
  <2> QED
    BY <2>1, NoPrime
<1>3. CASE AlignDown \/ Align \/ LogRound \/ PowerRound \/ FoldStringRound \/ FoldBinaryRound
  <2>1. asked' = asked /\ asked.fn # "find_prime" /\ phase' \in {"running", "returned"}
    BY <1>3 DEF AlignDown, Align, LogRound, PowerRound, FoldStringRound, FoldBinaryRound,
                Running, Answer
  <2> QED
    BY <2>1, NoPrime
<1>4. CASE UNCHANGED calcVars
  BY <1>4 DEF calcVars, PrimeInv, PrimeIsFound, Running, Returned
<1> QED
  BY <1>1, <1>2, <1>3, <1>4 DEF CalcNext, Rounds

(* PrimeIsFound: what calc_find_prime returns, at every width of size_t    *)
(* and of a double and for every argument, those included for which n +    *)
(* 100 wraps, is prime, 0 or 1; and a prime above its argument where that  *)
(* sum does not wrap.                                                      *)
THEOREM Primes == CalcSpec => []PrimeIsFound
<1>1. CalcInit => PrimeInv
  BY DEF CalcInit, PrimeInv, PrimeIsFound, Running, Returned
<1>2. PrimeInv /\ [CalcNext]_calcVars => PrimeInv'
  BY PrimeKept
<1>3. PrimeInv => PrimeIsFound
  BY DEF PrimeInv
<1> QED
  BY <1>1, <1>2, <1>3, PTL DEF CalcSpec

-----------------------------------------------------------------------------
(***************************************************************************)
(* calc_2_log and calc_2_power_up.  After res rounds the logarithm has     *)
(* divided n - 1 by the res-th power of two; the loop of calc_2_power_up   *)
(* keeps res a power of two, or zero once it has wrapped.                  *)
(***************************************************************************)
LogInv ==
  Running("log") =>
    /\ asked.n \in Size \ {0} /\ n \in Nat /\ res \in Nat
    /\ n * PowerOf2[res] <= asked.n - 1 /\ asked.n - 1 < (n + 1) * PowerOf2[res]
    /\ n > 0 \/ res = 0

PowerInv ==
  phase \in {"running", "returned"} /\ asked.fn = "power_up" =>
    /\ asked.n \in Size \ {0} /\ n = asked.n
    /\ res \in Nat
    /\ res = 0 \/ \E k \in 0..res : res = PowerOf2[k]
    /\ res < 2 * asked.n

PowersInv == LogInv /\ PowerInv /\ RoundedToPowers

(* A round of the logarithm halves n.                                      *)
LEMMA LogHalves ==
  ASSUME NEW m \in Nat, NEW h \in Nat, h = m \div 2, NEW x \in Nat, NEW p \in Nat,
         m * p <= x, x < (m + 1) * p
  PROVE  h * (2 * p) <= x /\ x < (h + 1) * (2 * p)
<1>1. m = 2 * h \/ m = 2 * h + 1
  OBVIOUS
<1>2. h * (2 * p) = (2 * h) * p /\ (h + 1) * (2 * p) = (2 * h) * p + 2 * p
  OBVIOUS
<1>3. (2 * h + 1) * p = (2 * h) * p + p /\ ((2 * h + 1) + 1) * p = (2 * h) * p + 2 * p
  OBVIOUS
<1> QED
  BY <1>1, <1>2, <1>3

LEMMA NoPowers ==
  ASSUME asked'.fn \notin {"log", "power_up"} \/ phase' = "idle"
  PROVE  PowersInv'
BY DEF PowersInv, LogInv, PowerInv, RoundedToPowers, Running, Returned

LEMMA LogStarts == ASSUME PowersInv, LogCall PROVE PowersInv'
<1>1. PICK x \in Inputs : /\ asked' = [fn |-> "log", n |-> x, m |-> 0] /\ phase' = "running"
                          /\ n' = x - 1 /\ res' = 0
  BY DEF LogCall, Begin
<1>2. x \in Size \ {0} /\ x \in Nat /\ x - 1 \in Nat
  BY CalcAssumption DEF Size
<1>3. PowerOf2[0] = 1
  BY Powers
<1>4. (x - 1) * 1 <= x - 1 /\ x - 1 < ((x - 1) + 1) * 1
  BY <1>2
<1> QED
  BY <1>1, <1>2, <1>3, <1>4 DEF PowersInv, LogInv, PowerInv, RoundedToPowers, Running, Returned

LEMMA LogKept == ASSUME PowersInv, LogRound PROVE PowersInv'
<1>1. PICK x, p, s : x = asked.n /\ p = PowerOf2[res] /\ s = res
  OBVIOUS
<1>2. /\ Running("log") /\ asked' = asked /\ n' = n \div 2 /\ n \in Nat /\ s \in Nat
      /\ x \in Size \ {0} /\ n * p <= x - 1 /\ x - 1 < (n + 1) * p /\ (n > 0 \/ s = 0)
  BY <1>1 DEF LogRound, Answer, PowersInv, LogInv
<1>3. x \in Nat /\ x >= 1 /\ x < SizeModulus /\ SizeModulus \in Nat
  BY <1>2, CalcAssumption DEF Size
<1>4. p \in Nat /\ p >= s + 1 /\ PowerOf2[s + 1] = 2 * p
  BY <1>1, <1>2, Powers, PowersOutrun
<1>5. n > 0 => p <= x - 1
  <2>1. n > 0 => p <= n * p
    BY <1>2, <1>4
  <2> QED
    BY <1>2, <1>3, <1>4, <2>1
<1>6. s + 1 < SizeModulus
  BY <1>2, <1>3, <1>4, <1>5
<1>7. Wrap(s + 1) = s + 1
  BY <1>2, <1>3, <1>6, RemainderOfSmall DEF Wrap
<1>8. res' = s + 1
  BY <1>1, <1>7 DEF LogRound, Answer
<1>9. PICK h \in Nat : h = n \div 2 /\ n' = h
  BY <1>2
<1>10. h * (2 * p) <= x - 1 /\ x - 1 < (h + 1) * (2 * p)
  BY <1>2, <1>3, <1>4, <1>9, LogHalves
<1>11. CASE h = 0
  <2>1. phase' = "returned"
    BY <1>9, <1>11 DEF LogRound, Answer
  <2>2. x <= PowerOf2[s + 1]
    BY <1>3, <1>4, <1>10, <1>11
  <2>3. x >= 2 => p < x
    BY <1>2, <1>3, <1>4, <1>5, Powers, <1>1
  <2>4. (s + 1) - 1 = s
    BY <1>2
  <2> QED
    BY <1>1, <1>2, <1>8, <2>1, <2>2, <2>3, <2>4
       DEF PowersInv, LogInv, PowerInv, RoundedToPowers, Running, Returned
<1>12. CASE h # 0
  <2>1. phase' = "running"
    BY <1>2, <1>9, <1>12 DEF LogRound, Running
  <2> QED
    BY <1>1, <1>2, <1>4, <1>8, <1>9, <1>10, <1>12, <2>1
       DEF PowersInv, LogInv, PowerInv, RoundedToPowers, Running, Returned
<1> QED
  BY <1>11, <1>12

LEMMA PowerStarts == ASSUME PowersInv, PowerCall PROVE PowersInv'
<1>1. PICK x \in Inputs : /\ asked' = [fn |-> "power_up", n |-> x, m |-> 0] /\ phase' = "running"
                          /\ n' = x /\ res' = 1
  BY DEF PowerCall, Begin
<1>2. x \in Size \ {0} /\ 1 < 2 * x
  BY CalcAssumption DEF Size
<1>3. \E k \in 0..1 : 1 = PowerOf2[k]
  BY Powers
<1> QED
  BY <1>1, <1>2, <1>3 DEF PowersInv, LogInv, PowerInv, RoundedToPowers, Running, Returned

LEMMA PowerKept == ASSUME PowersInv, PowerRound PROVE PowersInv'
<1>1. PICK x, r : x = asked.n /\ r = res
  OBVIOUS
<1>2. /\ Running("power_up") /\ asked' = asked /\ n' = n /\ n = x
      /\ x \in Size \ {0} /\ r \in Nat /\ r < 2 * x
      /\ r = 0 \/ \E k \in 0..r : r = PowerOf2[k]
  BY <1>1 DEF PowerRound, Answer, PowersInv, PowerInv, Running
<1>3. x \in Nat /\ x >= 1 /\ x < SizeModulus /\ SizeModulus \in Nat
  BY <1>2, CalcAssumption DEF Size
<1>4. CASE r < n
  <2>1. res' = Wrap(2 * r) /\ phase' = "running"
    BY <1>1, <1>2, <1>4 DEF PowerRound, Running
  <2>2. CASE r = 0
    <3>1. Wrap(2 * r) = 0
      BY <1>3, <2>2 DEF Wrap
    <3> QED
      BY <1>1, <1>2, <1>3, <2>1, <3>1
         DEF PowersInv, LogInv, PowerInv, RoundedToPowers, Running, Returned
  <2>3. CASE r # 0
    <3>1. PICK k \in Nat : r = PowerOf2[k]
      BY <1>2, <2>3
    <3>2. Wrap(2 * r) = 0 \/ Wrap(2 * r) = PowerOf2[k + 1]
      BY <1>2, <1>3, <1>4, <3>1, NextPowerWraps
    <3>3. PICK s \in Nat : s = res'
      BY <2>1, <3>1, <3>2, Powers
    <3>4. s = 0 \/ (s = PowerOf2[k + 1] /\ s = 2 * r /\ k + 1 \in 0..s)
      BY <2>1, <3>1, <3>2, <3>3, Powers, PowersOutrun
    <3>5. s < 2 * x
      BY <1>2, <1>3, <1>4, <3>4
    <3>6. s = 0 \/ \E o \in 0..s : s = PowerOf2[o]
      BY <3>4
    <3> QED
      BY <1>1, <1>2, <2>1, <3>3, <3>5, <3>6
         DEF PowersInv, LogInv, PowerInv, RoundedToPowers, Running, Returned
  <2> QED
    BY <2>2, <2>3
<1>5. CASE ~ r < n
  <2>1. res' = r /\ phase' = "returned"
    BY <1>1, <1>5 DEF PowerRound, Answer
  <2>2. r # 0 /\ x <= r
    BY <1>2, <1>3, <1>5
  <2> QED
    BY <1>1, <1>2, <2>1, <2>2 DEF PowersInv, LogInv, PowerInv, RoundedToPowers, Running, Returned
<1> QED
  BY <1>4, <1>5

LEMMA PowersKept == ASSUME PowersInv, [CalcNext]_calcVars PROVE PowersInv'
<1>1. CASE LogCall \/ LogRound \/ PowerCall \/ PowerRound
  BY <1>1, LogStarts, LogKept, PowerStarts, PowerKept
<1>2. CASE AlignCall \/ PrimeCall \/ FoldCall \/ CalcForget
  <2>1. asked'.fn \notin {"log", "power_up"}
    BY <1>2 DEF AlignCall, PrimeCall, FoldCall, CalcForget, Begin, NothingAsked
  <2> QED
    BY <2>1, NoPowers
<1>3. CASE \/ AlignDown \/ Align \/ PrimePowerRound \/ PrimeRound
           \/ FoldStringRound \/ FoldBinaryRound
  <2>1. asked'.fn \notin {"log", "power_up"}
    BY <1>3 DEF AlignDown, Align, PrimePowerRound, PrimeRound, FoldStringRound,
                FoldBinaryRound, Running, Answer
  <2> QED
    BY <2>1, NoPowers
<1>4. CASE UNCHANGED calcVars
  BY <1>4 DEF calcVars, PowersInv, LogInv, PowerInv, RoundedToPowers, Running, Returned
<1> QED
  BY <1>1, <1>2, <1>3, <1>4 DEF CalcNext, Rounds

(* RoundedToPowers: calc_2_log (from 2 on) and calc_2_power_up, where they *)
(* return, return the least power of two that reaches n, for every width.  *)
THEOREM Rounding == CalcSpec => []RoundedToPowers
<1>1. CalcInit => PowersInv
  BY DEF CalcInit, PowersInv, LogInv, PowerInv, RoundedToPowers, Running, Returned
<1>2. PowersInv /\ [CalcNext]_calcVars => PowersInv'
  BY PowersKept
<1>3. PowersInv => RoundedToPowers
  BY DEF PowersInv
<1> QED
  BY <1>1, <1>2, <1>3, PTL DEF CalcSpec

-----------------------------------------------------------------------------
(***************************************************************************)
(* The checked arithmetic of calc.c is exact at every width: the proofs    *)
(* about Overflow.  The arithmetic is in the lemmas, one per function; the *)
(* invariant adds only that the operands are still those of the call.      *)
(***************************************************************************)

(***************************************************************************)
(* Truncation to a width changes nothing that fits in it.                  *)
(***************************************************************************)

(* A conversion to a signed type leaves a value of that type alone: what   *)
(* (int8_t)res does once res has been found to be in range.                *)
LEMMA SignedWrappedOfSmall ==
  ASSUME NEW h \in Nat \ {0}, NEW x \in -h..(h - 1)
  PROVE  SignedWrapped(x, 2 * h) = x
<1>1. (2 * h) \div 2 = h
  OBVIOUS
<1>2. (x + h) % (2 * h) = x + h
  BY RemainderOfSmall
<1> QED
  BY <1>1, <1>2 DEF SignedWrapped

(* Twice the width holds every sum, difference and product.                *)
LEMMA DoubleWidthIsEnough ==
  ASSUME NEW x \in -(Half * Half)..(Half * Half)
  PROVE  DoubleWidth(x) = x
<1> DEFINE h == 2 * Half * Half
<1>1. h \in Nat \ {0} /\ Modulus * Modulus = 2 * h
  BY OverflowAssumption DEF Modulus
<1>2. x \in -h..(h - 1)
  BY OverflowAssumption
<1> QED
  BY <1>1, <1>2, SignedWrappedOfSmall DEF DoubleWidth

LEMMA ProductBound ==
  ASSUME NEW a \in Signed, NEW b \in Signed
  PROVE  /\ a * b \in -(Half * Half)..(Half * Half)
         /\ a + b \in -(Half * Half)..(Half * Half)
         /\ a - b \in -(Half * Half)..(Half * Half)
BY OverflowAssumption DEF Signed, HighestSigned, LowestSigned

LEMMA SignedFits ==
  ASSUME NEW x \in Signed
  PROVE  SignedWrapped(x, Modulus) = x
<1>1. Half \in Nat \ {0} /\ x \in -Half..(Half - 1)
  BY OverflowAssumption DEF Signed, HighestSigned, LowestSigned
<1>2. SignedWrapped(x, 2 * Half) = x
  BY <1>1, SignedWrappedOfSmall
<1> QED
  BY <1>2 DEF Modulus

(***************************************************************************)
(* s64: the tests on the operands are exact.                               *)
(***************************************************************************)

LEMMA AddOverflowsExactly ==
  ASSUME NEW a \in Signed, NEW b \in Signed
  PROVE  AddOverflows(a, b) <=> a + b \notin Signed
BY OverflowAssumption DEF AddOverflows, Signed, HighestSigned, LowestSigned

LEMMA SubOverflowsExactly ==
  ASSUME NEW a \in Signed, NEW b \in Signed
  PROVE  SubOverflows(a, b) <=> a - b \notin Signed
BY OverflowAssumption DEF SubOverflows, Signed, HighestSigned, LowestSigned

(* A product of naturals exceeds u exactly when one factor exceeds the     *)
(* quotient of u by the other.                                             *)
LEMMA ExceedsQuotient ==
  ASSUME NEW u \in Nat, NEW x \in Nat, NEW y \in Nat \ {0}
  PROVE  x > u \div y <=> x * y > u
<1> DEFINE q == u \div y
           r == u % y
<1>1. q \in Int /\ r \in 0..(y - 1) /\ u = y * q + r
  BY Division
<1>2. ASSUME x > q PROVE x * y > u
  <2>1. x >= q + 1
    BY <1>1, <1>2
  <2>2. x * y >= (q + 1) * y
    BY <1>1, <2>1
  <2> QED
    BY <1>1, <2>2
<1>3. ASSUME ~(x > q) PROVE ~(x * y > u)
  <2>1. x * y <= q * y
    BY <1>1, <1>3
  <2> QED
    BY <1>1, <2>1
<1> QED
  BY <1>1, <1>2, <1>3

(* The product of two values of half the width fits.                       *)
LEMMA NarrowProductFits ==
  ASSUME NEW a \in Signed, NEW b \in Signed, Narrow(a), Narrow(b)
  PROVE  a * b \in Signed
<1>1. a * b \in -(NarrowHalf * NarrowHalf)..(NarrowHalf * NarrowHalf)
  BY OverflowAssumption DEF Narrow, Signed, HighestSigned, LowestSigned
<1> QED
  BY <1>1, OverflowAssumption DEF Signed, HighestSigned, LowestSigned

(* The four divisions of calc_mul_s64_overflow decide exactly, once both   *)
(* narrow operands and the factors 0 and 1 are out of the way.             *)
LEMMA MulOverflowsExactly ==
  ASSUME NEW a \in Signed, NEW b \in Signed
  PROVE  MulOverflows(a, b) <=> a * b \notin Signed
<1>0. a \in Int /\ b \in Int /\ Half \in Nat /\ Half > 1
      /\ HighestSigned = Half - 1 /\ LowestSigned = -Half
  BY OverflowAssumption DEF Signed, HighestSigned, LowestSigned
<1>1. CASE Narrow(a) /\ Narrow(b)
  BY <1>1, NarrowProductFits DEF MulOverflows
<1>2. CASE a \in {0, 1} \/ b \in {0, 1}
  BY <1>0, <1>2 DEF MulOverflows, Signed
<1>3. CASE /\ ~(Narrow(a) /\ Narrow(b))
           /\ a \notin {0, 1} /\ b \notin {0, 1}
  <2> DEFINE tooBig == a * b > HighestSigned
             tooSmall == a * b < LowestSigned
  <2>1. CASE a > 0 /\ b > 0
    <3>1. Quotient(HighestSigned, b) = HighestSigned \div b
      BY <1>0, <2>1 DEF Quotient, Abs
    <3>2. a > HighestSigned \div b <=> tooBig
      BY <1>0, <2>1, ExceedsQuotient
    <3>3. ~tooSmall
      BY <1>0, <2>1
    <3>4. MulOverflows(a, b) <=> a > Quotient(HighestSigned, b)
      BY <1>0, <1>3, <2>1 DEF MulOverflows
    <3> QED
      BY <1>0, <3>1, <3>2, <3>3, <3>4 DEF Signed
  <2>2. CASE a > 0 /\ b < 0
    <3>1. Quotient(LowestSigned, a) = -(Half \div a)
      BY <1>0, <2>2 DEF Quotient, Abs
    <3>2. -b > Half \div a <=> (-b) * a > Half
      BY <1>0, <2>2, ExceedsQuotient
    <3>3. (-b) * a > Half <=> tooSmall
      BY <1>0
    <3>4. ~tooBig
      BY <1>0, <2>2
    <3>5. Half \div a \in Int
      BY <1>0, <2>2, Division
    <3>6. MulOverflows(a, b) <=> b < Quotient(LowestSigned, a)
      BY <1>0, <1>3, <2>2 DEF MulOverflows
    <3>7. b < -(Half \div a) <=> -b > Half \div a
      BY <1>0, <3>5
    <3> QED
      BY <1>0, <3>1, <3>2, <3>3, <3>4, <3>6, <3>7 DEF Signed
  <2>3. CASE a < 0 /\ b > 0
    <3>1. Quotient(LowestSigned, b) = -(Half \div b)
      BY <1>0, <2>3 DEF Quotient, Abs
    <3>2. -a > Half \div b <=> (-a) * b > Half
      BY <1>0, <2>3, ExceedsQuotient
    <3>3. (-a) * b > Half <=> tooSmall
      BY <1>0
    <3>4. ~tooBig
      BY <1>0, <2>3
    <3>5. Half \div b \in Int
      BY <1>0, <2>3, Division
    <3>6. MulOverflows(a, b) <=> a < Quotient(LowestSigned, b)
      BY <1>0, <1>3, <2>3 DEF MulOverflows
    <3>7. a < -(Half \div b) <=> -a > Half \div b
      BY <1>0, <3>5
    <3> QED
      BY <1>0, <3>1, <3>2, <3>3, <3>4, <3>6, <3>7 DEF Signed
  <2>4. CASE a < 0 /\ b < 0
    <3>1. Quotient(HighestSigned, b) = -(HighestSigned \div (-b))
      BY <1>0, <2>4 DEF Quotient, Abs
    <3>2. -a > HighestSigned \div (-b) <=> (-a) * (-b) > HighestSigned
      BY <1>0, <2>4, ExceedsQuotient
    <3>3. (-a) * (-b) = a * b
      BY <1>0
    <3>4. ~tooSmall
      BY <1>0, <2>4
    <3>5. HighestSigned \div (-b) \in Int
      BY <1>0, <2>4, Division
    <3>6. MulOverflows(a, b) <=> a < Quotient(HighestSigned, b)
      BY <1>0, <1>3, <2>4 DEF MulOverflows
    <3>7. a < -(HighestSigned \div (-b)) <=> -a > HighestSigned \div (-b)
      BY <1>0, <3>5
    <3> QED
      BY <1>0, <3>1, <3>2, <3>3, <3>4, <3>6, <3>7 DEF Signed
  <2> QED
    BY <1>0, <1>3, <2>1, <2>2, <2>3, <2>4
<1> QED
  BY <1>1, <1>2, <1>3

(***************************************************************************)
(* Unsigned types: looking at the wrapped result is exact.                 *)
(***************************************************************************)

(* A sum that wrapped is smaller than its operands, any other is not.      *)
LEMMA SumWrapsExactly ==
  ASSUME NEW a \in Unsigned, NEW b \in Unsigned
  PROVE  /\ Wrapped(a + b, Modulus) < a <=> a + b \notin Unsigned
         /\ a + b \in Unsigned => Wrapped(a + b, Modulus) = a + b
<1>0. Modulus \in Nat \ {0} /\ a \in 0..(Modulus - 1) /\ b \in 0..(Modulus - 1)
  BY OverflowAssumption DEF Modulus, Unsigned
<1>1. CASE a + b < Modulus
  <2>1. (a + b) % Modulus = a + b
    BY <1>0, <1>1, RemainderOfSmall
  <2> QED
    BY <1>0, <1>1, <2>1 DEF Wrapped, Unsigned
<1>2. CASE a + b >= Modulus
  <2>1. a + b \in Modulus..(2 * Modulus - 1)
    BY <1>0, <1>2
  <2>2. (a + b) % Modulus = a + b - Modulus
    BY <1>0, <2>1
  <2> QED
    BY <1>0, <1>2, <2>2 DEF Wrapped, Unsigned
<1> QED
  BY <1>0, <1>1, <1>2

(* A product that wrapped is not divided back to the other factor.         *)
LEMMA ProductWrapsExactly ==
  ASSUME NEW a \in Unsigned, NEW b \in Unsigned
  PROVE  LET got == Wrapped(a * b, Modulus)
         IN  /\ (a # 0 /\ b # got \div a) <=> a * b \notin Unsigned
             /\ a * b \in Unsigned => got = a * b
<1> DEFINE got == Wrapped(a * b, Modulus)
<1>0. /\ Modulus \in Nat \ {0} /\ a \in 0..(Modulus - 1) /\ b \in 0..(Modulus - 1)
      /\ a * b \in Nat
  BY OverflowAssumption DEF Modulus, Unsigned
<1>1. CASE a * b < Modulus
  <2>1. got = a * b
    <3>1. a * b \in 0..(Modulus - 1)
      BY <1>0, <1>1
    <3> QED
      BY <1>0, <3>1, RemainderOfSmall DEF Wrapped
  <2>2. a # 0 => (a * b) \div a = b
    <3> SUFFICES ASSUME a # 0 PROVE (a * b) \div a = b
      OBVIOUS
    <3>1. PICK q \in Int, r \in 0..(a - 1) : q = (a * b) \div a /\ a * b = a * q + r
      BY <1>0, Division
    <3>2. a * (b - q) = r
      BY <1>0, <3>1
    <3>3. b - q <= 0
      <4>1. b - q >= 1 => a * (b - q) >= a
        BY <1>0, <3>1
      <4> QED
        BY <1>0, <3>1, <3>2, <4>1
    <3>4. b - q >= 0
      <4>1. b - q <= -1 => a * (b - q) < 0
        BY <1>0, <3>1
      <4> QED
        BY <1>0, <3>1, <3>2, <4>1
    <3> QED
      BY <1>0, <3>1, <3>3, <3>4
  <2> QED
    BY <1>0, <1>1, <2>1, <2>2 DEF Unsigned
<1>2. CASE a * b >= Modulus
  <2>1. a # 0
    BY <1>0, <1>2
  <2>2. got \in 0..(Modulus - 1)
    BY <1>0, Division DEF Wrapped
  <2>3. PICK q \in Int, r \in 0..(a - 1) : q = got \div a /\ got = a * q + r
    <3>1. a \in Nat \ {0} /\ got \in Int
      BY <1>0, <2>1, <2>2
    <3>2. /\ got \div a \in Int
          /\ got % a \in 0..(a - 1)
          /\ got = a * (got \div a) + (got % a)
      BY <3>1, Division
    <3> HIDE DEF got
    <3> QED
      BY <3>2
  <2>4. a * q < Modulus
    BY <1>0, <2>2, <2>3
  <2>5. b # q
    BY <1>0, <1>2, <2>3, <2>4
  <2> QED
    BY <1>0, <1>2, <2>1, <2>3, <2>5 DEF Unsigned
<1> QED
  BY <1>0, <1>1, <1>2

LEMMA DifferenceFits ==
  ASSUME NEW a \in Unsigned, NEW b \in Unsigned
  PROVE  /\ b > a <=> a - b \notin Unsigned
         /\ b <= a => Wrapped(a - b, Modulus) = a - b
<1>0. Modulus \in Nat \ {0} /\ a \in 0..(Modulus - 1) /\ b \in 0..(Modulus - 1)
  BY OverflowAssumption DEF Modulus, Unsigned
<1>1. ASSUME b <= a PROVE (a - b) % Modulus = a - b
  BY <1>0, <1>1, RemainderOfSmall
<1> QED
  BY <1>0, <1>1 DEF Wrapped, Unsigned

(* Twice the width holds every product of unsigned numbers.                *)
LEMMA UnsignedProductFits ==
  ASSUME NEW a \in Unsigned, NEW b \in Unsigned
  PROVE  /\ Wrapped(a * b, Modulus * Modulus) = a * b
         /\ a * b > Modulus - 1 <=> a * b \notin Unsigned
         /\ a * b \in Unsigned => Wrapped(a * b, Modulus) = a * b
<1>0. Modulus \in Nat \ {0} /\ a \in 0..(Modulus - 1) /\ b \in 0..(Modulus - 1)
  BY OverflowAssumption DEF Modulus, Unsigned
<1>1. a * b \in Nat /\ Modulus * Modulus \in Nat \ {0}
  BY <1>0
<1>2. a * b <= (Modulus - 1) * (Modulus - 1)
  <2>1. a * b <= a * (Modulus - 1)
    BY <1>0
  <2>2. a * (Modulus - 1) <= (Modulus - 1) * (Modulus - 1)
    BY <1>0
  <2> QED
    BY <1>0, <2>1, <2>2
<1>3. a * b \in 0..(Modulus * Modulus - 1)
  <2>1. (Modulus - 1) * (Modulus - 1) = Modulus * Modulus - 2 * Modulus + 1
    BY <1>0
  <2>2. a * b <= Modulus * Modulus - 1
    BY <1>0, <1>1, <1>2, <2>1
  <2> QED
    BY <1>1, <2>2
<1>4. (a * b) % (Modulus * Modulus) = a * b
  BY <1>1, <1>3, RemainderOfSmall
<1>5. ASSUME a * b <= Modulus - 1 PROVE (a * b) % Modulus = a * b
  <2>1. PICK p \in Nat : p = a * b
    BY <1>1
  <2>2. p \in 0..(Modulus - 1)
    BY <1>0, <1>5, <2>1
  <2>3. p % Modulus = p
    BY <1>0, <2>2, RemainderOfSmall
  <2> QED
    BY <2>1, <2>3
<1> QED
  BY <1>0, <1>1, <1>4, <1>5 DEF Wrapped, Unsigned

-----------------------------------------------------------------------------
(***************************************************************************)
(* The invariant.                                                          *)
(***************************************************************************)
Calls == SignedCalls \cup UnsignedCalls

(* While a function runs, and after it, the call names two operands of its *)
(* type, and until it returns *result is what the caller left there.       *)
CallIsLegal ==
  /\ step \in {"idle", "called", "returned"}
  /\ overflow \in BOOLEAN
  /\ step # "idle" =>
       \E fn \in Calls, before \in Leftovers :
         \E a, b \in TypeOf(fn) :
           call = [fn |-> fn, a |-> a, b |-> b, before |-> before]
  /\ step = "called" => result = call.before

OverflowInv == CallIsLegal /\ OverflowIsExact

(* A function that decides exactly, and computes exactly when it decides   *)
(* that nothing overflows, keeps the invariant.                            *)
LEMMA ReturnKeeps ==
  ASSUME OverflowInv, NEW fn \in Calls, NEW o \in BOOLEAN, NEW v, Return(fn, o, v),
         o <=> Exact(call) \notin TypeOf(fn),
         ~o => v = Exact(call)
  PROVE  OverflowInv'
<1>1. call.fn = fn /\ step = "called" /\ call' = call /\ step' = "returned" /\ overflow' = o
  BY DEF Return
<1>2. result' = IF o THEN call.before ELSE Exact(call)
  BY <1>1 DEF Return, OverflowInv, CallIsLegal
<1>3. CallIsLegal'
  BY <1>1 DEF OverflowInv, CallIsLegal
<1>4. OverflowIsExact'
  BY <1>1, <1>2 DEF OverflowIsExact, Exact
<1> QED
  BY <1>3, <1>4 DEF OverflowInv

LEMMA OperandsOf ==
  ASSUME OverflowInv, step = "called"
  PROVE  /\ call.fn \in Calls
         /\ call.a \in TypeOf(call.fn)
         /\ call.b \in TypeOf(call.fn)
BY DEF OverflowInv, CallIsLegal

(* OverflowIsExact, whatever the width: the functions for 8, 16 and 32     *)
(* bits, those for 64 bits without a wider type to compute in, and the     *)
(* unsigned ones report an overflow exactly when there is one and store    *)
(* the result exactly when there is none.                                  *)
THEOREM Exactness == OverflowSpec => []OverflowIsExact
<1>1. OverflowInit => OverflowInv
  BY DEF OverflowInit, OverflowInv, CallIsLegal, OverflowIsExact
<1>2. OverflowInv /\ [OverflowNext]_overflowVars => OverflowInv'
  <2> SUFFICES ASSUME OverflowInv, [OverflowNext]_overflowVars PROVE OverflowInv'
    OBVIOUS
  <2>1. CASE Call
    <3>1. PICK fns \in {SignedCalls, UnsignedCalls} :
            CallOn(fns, IF fns = SignedCalls THEN Signed ELSE Unsigned)
      BY <2>1 DEF Call, SignedCalls, UnsignedCalls
    <3>2. PICK fn \in fns, before \in Leftovers :
            \E a, b \in TypeOf(fn) :
              /\ call' = [fn |-> fn, a |-> a, b |-> b, before |-> before]
              /\ result' = before
      BY <3>1 DEF CallOn, TypeOf, SignedCalls, UnsignedCalls
    <3>3. step' = "called" /\ overflow' = overflow
      BY <3>1 DEF CallOn
    <3> QED
      BY <3>2, <3>3 DEF OverflowInv, CallIsLegal, OverflowIsExact, Calls
  <2>2. CASE OverflowForget
    BY <2>2 DEF OverflowForget, OverflowInv, CallIsLegal, OverflowIsExact
  <2>3. CASE UNCHANGED overflowVars
    BY <2>3 DEF overflowVars, OverflowInv, CallIsLegal, OverflowIsExact
  <2>4. CASE AddS \/ SubS \/ MulS
    <3>1. step = "called" /\ call.fn \in {"add_s", "sub_s", "mul_s"}
      BY <2>4 DEF AddS, SubS, MulS, Return
    <3>2. call.a \in Signed /\ call.b \in Signed /\ TypeOf(call.fn) = Signed
      BY <3>1, OperandsOf DEF TypeOf, SignedCalls
    <3> DEFINE e == Exact(call)
               got == DoubleWidth(e)
    <3>3. Return(call.fn, OutOfRange(got), SignedWrapped(got, Modulus))
      BY <2>4, <3>1 DEF AddS, SubS, MulS, Return, Exact
    <3>4. e \in -(Half * Half)..(Half * Half)
      BY <3>1, <3>2, ProductBound DEF Exact
    <3>5. got = e /\ e \in Int
      BY <3>4, DoubleWidthIsEnough, OverflowAssumption
    <3>6. OutOfRange(e) <=> e \notin Signed
      BY <3>5, OverflowAssumption DEF OutOfRange, Signed, HighestSigned, LowestSigned
    <3>7. ~OutOfRange(e) => SignedWrapped(e, Modulus) = e
      BY <3>6, SignedFits
    <3>8. call.fn \in Calls /\ OutOfRange(e) \in BOOLEAN
      BY <3>1 DEF Calls, SignedCalls, OutOfRange
    <3> QED
      BY <3>2, <3>3, <3>5, <3>6, <3>7, <3>8, ReturnKeeps
  <2>5. CASE AddS64 \/ SubS64 \/ MulS64
    <3>1. step = "called" /\ call.fn \in {"add_s64", "sub_s64", "mul_s64"}
      BY <2>5 DEF AddS64, SubS64, MulS64, Return
    <3>2. call.a \in Signed /\ call.b \in Signed /\ TypeOf(call.fn) = Signed
      BY <3>1, OperandsOf DEF TypeOf, SignedCalls
    <3> DEFINE e == Exact(call)
    <3>3. PICK o \in BOOLEAN :
            /\ Return(call.fn, o, SignedWrapped(e, Modulus))
            /\ o <=> e \notin Signed
      <4>1. CASE AddS64
        BY <3>2, <4>1, AddOverflowsExactly DEF AddS64, Return, Exact, AddOverflows
      <4>2. CASE SubS64
        BY <3>2, <4>2, SubOverflowsExactly DEF SubS64, Return, Exact, SubOverflows
      <4>3. CASE MulS64
        BY <3>2, <4>3, MulOverflowsExactly DEF MulS64, Return, Exact, MulOverflows
      <4> QED
        BY <2>5, <4>1, <4>2, <4>3
    <3>4. ~o => SignedWrapped(e, Modulus) = e
      BY <3>3, SignedFits
    <3>5. call.fn \in Calls
      BY <3>1 DEF Calls, SignedCalls
    <3> QED
      BY <3>2, <3>3, <3>4, <3>5, ReturnKeeps
  <2>6. CASE AddU \/ SubU \/ MulU \/ MulU64
    <3>1. step = "called" /\ call.fn \in UnsignedCalls
      BY <2>6 DEF AddU, SubU, MulU, MulU64, Return, UnsignedCalls
    <3>2. call.a \in Unsigned /\ call.b \in Unsigned /\ TypeOf(call.fn) = Unsigned
      BY <3>1, OperandsOf DEF TypeOf, SignedCalls, UnsignedCalls
    <3> DEFINE e == Exact(call)
    <3>3. call.fn \in Calls
      BY <3>1 DEF Calls
    <3>4. CASE AddU
      <4> DEFINE v == Wrapped(call.a + call.b, Modulus)
                 o == v < call.a
      <4>1. Return(call.fn, o, v) /\ e = call.a + call.b
        BY <3>4 DEF AddU, Return, Exact
      <4>2. (o <=> e \notin Unsigned) /\ (~o => v = e) /\ o \in BOOLEAN
        BY <3>2, <4>1, SumWrapsExactly
      <4> HIDE DEF v, o
      <4> QED
        BY <3>2, <3>3, <4>1, <4>2, ReturnKeeps
    <3>5. CASE SubU
      <4> DEFINE v == Wrapped(call.a - call.b, Modulus)
                 o == call.b > call.a
      <4>1. Return(call.fn, o, v) /\ e = call.a - call.b
        BY <3>5 DEF SubU, Return, Exact
      <4>2. (o <=> e \notin Unsigned) /\ (~o => v = e) /\ o \in BOOLEAN
        BY <3>2, <4>1, DifferenceFits, OverflowAssumption DEF Unsigned, Modulus
      <4> HIDE DEF v, o
      <4> QED
        BY <3>2, <3>3, <4>1, <4>2, ReturnKeeps
    <3>6. CASE MulU
      <4> DEFINE v == Wrapped(Wrapped(call.a * call.b, Modulus * Modulus), Modulus)
                 o == Wrapped(call.a * call.b, Modulus * Modulus) > Modulus - 1
      <4>1. Return(call.fn, o, v) /\ e = call.a * call.b
        BY <3>6 DEF MulU, Return, Exact
      <4>2. (o <=> e \notin Unsigned) /\ (~o => v = e) /\ o \in BOOLEAN
        BY <3>2, <4>1, UnsignedProductFits
      <4> HIDE DEF v, o
      <4> QED
        BY <3>2, <3>3, <4>1, <4>2, ReturnKeeps
    <3>7. CASE MulU64
      <4> DEFINE v == Wrapped(call.a * call.b, Modulus)
                 o == call.a # 0 /\ call.b # v \div call.a
      <4>1. Return(call.fn, o, v) /\ e = call.a * call.b
        BY <3>7 DEF MulU64, Return, Exact
      <4>2. (o <=> e \notin Unsigned) /\ (~o => v = e) /\ o \in BOOLEAN
        BY <3>2, <4>1, ProductWrapsExactly
      <4> HIDE DEF v, o
      <4> QED
        BY <3>2, <3>3, <4>1, <4>2, ReturnKeeps
    <3> QED
      BY <2>6, <3>4, <3>5, <3>6, <3>7
  <2> QED
    BY <2>1, <2>2, <2>3, <2>4, <2>5, <2>6 DEF OverflowNext
<1>3. OverflowInv => OverflowIsExact
  BY DEF OverflowInv
<1> QED
  BY <1>1, <1>2, <1>3, PTL DEF OverflowSpec

-----------------------------------------------------------------------------
(***************************************************************************)
(* The deadlines of sec.c are exact and valid, for every length of second  *)
(* and whatever is added: the proofs about Sec.                            *)
(***************************************************************************)

SecInv ==
  /\ tv \in [sec : Nat, usec : 0 .. (UsecPerSec - 1)]
  /\ ts \in [sec : Nat, nsec : 0 .. (UsecPerSec * NsecPerUsec - 1)]
  /\ due \in Nat
  /\ DeadlineIsExact

(* Splitting a time into seconds and microseconds loses nothing.           *)
LEMMA FromUsecIsExact ==
  ASSUME NEW usec \in Nat
  PROVE  /\ FromUsec(usec) \in [sec : Nat, usec : 0 .. (UsecPerSec - 1)]
         /\ FromUsec(usec).sec * UsecPerSec + FromUsec(usec).usec = usec
BY SecAssumption DEF FromUsec

LEMMA SecInvAlways == SecSpec => []SecInv
<1>1. SecInit => SecInv
  <2> SUFFICES ASSUME SecInit PROVE SecInv
    OBVIOUS
  <2>1. ts \in [sec : Nat, nsec : 0 .. (UsecPerSec * NsecPerUsec - 1)]
    BY SecAssumption DEF SecInit
  <2> QED
    BY <2>1, FromUsecIsExact DEF SecInit, SecInv, DeadlineIsExact
<1>2. SecInv /\ [SecNext]_secVars => SecInv'
  <2> SUFFICES ASSUME SecInv, [SecNext]_secVars PROVE SecInv'
    OBVIOUS
  <2>1. CASE TimevalNow
    BY <2>1, FromUsecIsExact, SecAssumption DEF TimevalNow, SecInv, DeadlineIsExact
  <2>2. CASE TimevalFromUsec
    BY <2>2, FromUsecIsExact, SecAssumption DEF TimevalFromUsec, SecInv, DeadlineIsExact
  <2>3. CASE TimevalAddUsec
    <3>1. PICK usec \in Delays :
            /\ tv' = Carry([sec  |-> tv.sec + (usec \div UsecPerSec),
                            usec |-> tv.usec + (usec % UsecPerSec)])
            /\ due' = due + usec
            /\ ts' = ts
      BY <2>3 DEF TimevalAddUsec
    <3>2. PICK q \in Nat, r \in 0 .. (UsecPerSec - 1) :
            /\ q = usec \div UsecPerSec /\ r = usec % UsecPerSec
            /\ usec = q * UsecPerSec + r
      <4>1. FromUsec(usec) \in [sec : Nat, usec : 0 .. (UsecPerSec - 1)]
            /\ FromUsec(usec).sec * UsecPerSec + FromUsec(usec).usec = usec
        BY SecAssumption, FromUsecIsExact
      <4> QED
        BY <4>1 DEF FromUsec
    <3>3. tv' = Carry([sec |-> tv.sec + q, usec |-> tv.usec + r])
      BY <3>1, <3>2
    <3>4. CASE tv.usec + r >= UsecPerSec
      <4>1. tv' = [sec |-> tv.sec + q + 1, usec |-> tv.usec + r - UsecPerSec]
        BY <3>2, <3>3, <3>4, SecAssumption DEF Carry, SecInv
      <4>2. (tv.sec + q + 1) * UsecPerSec + (tv.usec + r - UsecPerSec) = due + usec
        BY <3>2, SecAssumption DEF SecInv, DeadlineIsExact
      <4> QED
        BY <3>1, <3>2, <3>4, <4>1, <4>2, SecAssumption DEF SecInv, DeadlineIsExact
    <3>5. CASE tv.usec + r < UsecPerSec
      <4>1. tv' = [sec |-> tv.sec + q, usec |-> tv.usec + r]
        BY <3>2, <3>3, <3>5, SecAssumption DEF Carry, SecInv
      <4>2. (tv.sec + q) * UsecPerSec + (tv.usec + r) = due + usec
        BY <3>2, SecAssumption DEF SecInv, DeadlineIsExact
      <4> QED
        BY <3>1, <3>2, <3>5, <4>1, <4>2, SecAssumption DEF SecInv, DeadlineIsExact
    <3> QED
      BY <3>2, <3>4, <3>5, SecAssumption DEF SecInv
  <2>4. CASE TimespecFromTimeval
    <3>1. tv.usec * NsecPerUsec \in 0 .. (UsecPerSec * NsecPerUsec - 1)
      BY SecAssumption DEF SecInv
    <3> QED
      BY <2>4, <3>1 DEF TimespecFromTimeval, SecInv, DeadlineIsExact
  <2>5. CASE UNCHANGED secVars
    BY <2>5 DEF secVars, SecInv, DeadlineIsExact
  <2> QED
    BY <2>1, <2>2, <2>3, <2>4, <2>5 DEF SecNext
<1> QED
  BY <1>1, <1>2, PTL DEF SecSpec

(* DeadlineIsValid: the assertion of sec.c:26 never fails and every        *)
(* timespec handed to cond_timedwait is one it accepts.                    *)
THEOREM ValidDeadline == SecSpec => []DeadlineIsValid
<1>1. SecInv => DeadlineIsValid
  BY DEF SecInv, DeadlineIsValid
<1> QED
  BY <1>1, SecInvAlways, PTL

(* DeadlineIsExact: no microsecond is lost or gained by the carry.         *)
THEOREM ExactDeadline == SecSpec => []DeadlineIsExact
<1>1. SecInv => DeadlineIsExact
  BY DEF SecInv
<1> QED
  BY <1>1, SecInvAlways, PTL

(* ConversionIsExact: the timespec is the same moment in nanoseconds.      *)
THEOREM ExactConversion == SecSpec => ConversionIsExact
<1>1. SecInv /\ [SecNext]_secVars =>
        [TimespecFromTimeval =>
           ts'.sec * UsecPerSec * NsecPerUsec + ts'.nsec = due * NsecPerUsec]_secVars
  <2> SUFFICES ASSUME SecInv, TimespecFromTimeval
               PROVE  ts'.sec * UsecPerSec * NsecPerUsec + ts'.nsec = due * NsecPerUsec
    OBVIOUS
  <2>1. ts'.sec = tv.sec /\ ts'.nsec = tv.usec * NsecPerUsec
    BY DEF TimespecFromTimeval
  <2>2. (tv.sec * UsecPerSec + tv.usec) * NsecPerUsec
          = tv.sec * UsecPerSec * NsecPerUsec + tv.usec * NsecPerUsec
    BY SecAssumption DEF SecInv
  <2> QED
    BY <2>1, <2>2 DEF SecInv, DeadlineIsExact
<1> QED
  BY <1>1, SecInvAlways, PTL DEF SecSpec, ConversionIsExact

-----------------------------------------------------------------------------
(***************************************************************************)
(* The functions of sort.c sort: proofs about Sort, for arrays of every    *)
(* size and numbers.                                                       *)
(*                                                                         *)
(* Every function only ever exchanges numbers (in the inner loop of the    *)
(* insertions once tmp is thought back into the hole at j + gap), so the   *)
(* array stays a rearrangement of the one it was given.  That it ascends   *)
(* in the end follows from an invariant of each loop: bubble_sort fills    *)
(* the end of the array with the greatest numbers, selection_sort its      *)
(* beginning with the smallest, and the last pass of an insertion, with a  *)
(* gap of 1, keeps what it has passed in order.                            *)
(***************************************************************************)

Gapped == sorter \in {"insertion", "shell"}

(* The array with tmp back in the hole.                                    *)
Filled == IF Gapped /\ at = "inner" THEN [array EXCEPT ![j + gap] = tmp] ELSE array

SortTypeOK ==
  /\ sorter \in Sorters
  /\ size \in Nat
  /\ array \in [Indices -> Int]
  /\ given \in [Indices -> Int]
  /\ i \in Nat /\ j \in Int /\ min \in Nat /\ tmp \in Int /\ gap \in Nat
  /\ at \in {"idle", "outer", "inner", "returned"}

(* The locals of a loop that runs.                                         *)
BubbleLocals ==
  sorter = "bubble" /\ at = "inner" => i < size - 1 /\ j \in 0..(size - i - 1)

SelectionLocals ==
  sorter = "selection" /\ at = "inner" =>
    i < size - 1 /\ min \in i..(size - 1) /\ j \in (i + 1)..size

GapLocals ==
  /\ sorter = "insertion" => gap \in {0, 1}
  /\ Gapped /\ at = "inner" =>
       gap > 0 /\ i < size /\ j <= i - gap /\ j + gap >= 0

(* The last u places of an array a of s numbers hold what belongs there,   *)
(* the first u do, the first u are in order, a[m] is the greatest up to m, *)
(* and a[m] is the least from lo to hi - 1.                                *)
TailPlaced(a, s, u) == \A x, y \in 0..(s - 1) : x <= y /\ y >= s - u => a[x] <= a[y]

HeadPlaced(a, s, u) == \A x, y \in 0..(s - 1) : x <= y /\ x < u => a[x] <= a[y]

InOrder(a, s, u) == \A x, y \in 0..(s - 1) : x <= y /\ y < u => a[x] <= a[y]

Greatest(a, s, m) == \A x \in 0..(s - 1) : x <= m => a[x] <= a[m]

Least(a, s, m, lo, hi) == \A x \in 0..(s - 1) : lo <= x /\ x < hi => a[m] <= a[x]

(* The first u + 1 places but the hole h are in order, those after the     *)
(* hole no less than t.                                                    *)
HoleFits(a, s, u, h, t) ==
  /\ \A x, y \in 0..(s - 1) : x <= y /\ y <= u /\ x # h /\ y # h => a[x] <= a[y]
  /\ \A y \in 0..(s - 1) : h < y /\ y <= u => t <= a[y]

BubbleInv ==
  /\ sorter = "bubble" /\ at \in {"outer", "inner"} => TailPlaced(array, size, i)
  /\ sorter = "bubble" /\ at = "inner" => Greatest(array, size, j)

SelectionInv ==
  /\ sorter = "selection" /\ at \in {"outer", "inner"} => HeadPlaced(array, size, i)
  /\ sorter = "selection" /\ at = "inner" => Least(array, size, min, i, j)

(* What the insertions have passed with a gap of 1.                        *)
GapInv ==
  /\ Gapped /\ at = "outer" /\ gap = 1 => InOrder(array, size, i)
  /\ Gapped /\ at = "outer" /\ gap = 0 => HeadPlaced(array, size, size)
  /\ Gapped /\ at = "inner" /\ gap = 1 => HoleFits(array, size, i, j + 1, tmp)

SortInv ==
  /\ SortTypeOK
  /\ BubbleLocals /\ SelectionLocals /\ GapLocals
  /\ Rearranges(Filled, given, size)
  /\ BubbleInv /\ SelectionInv /\ GapInv
  /\ at = "returned" => HeadPlaced(array, size, size)

-----------------------------------------------------------------------------
(* An array is a rearrangement of itself.                                  *)
LEMMA RearrangesItself ==
  ASSUME NEW s \in Nat, NEW a \in [0..(s - 1) -> Int]
  PROVE  Rearranges(a, a, s)
<1> DEFINE p == [x \in 0..(s - 1) |-> x]
<1>1. p \in [0..(s - 1) -> 0..(s - 1)]
  OBVIOUS
<1>2. \A x, y \in 0..(s - 1) : p[x] = p[y] => x = y
  OBVIOUS
<1>3. \A x \in 0..(s - 1) : a[x] = a[p[x]]
  OBVIOUS
<1> QED
  BY <1>1, <1>2, <1>3 DEF Rearranges

(* Exchanging two places leaves a rearrangement one: p with its values at  *)
(* the two places exchanged tells where the numbers come from.             *)
LEMMA RearrangesSwapped ==
  ASSUME NEW s \in Nat, NEW a \in [0..(s - 1) -> Int], NEW b,
         NEW u \in 0..(s - 1), NEW v \in 0..(s - 1),
         Rearranges(a, b, s)
  PROVE  Rearranges(Swapped(a, u, v), b, s)
<1>1. PICK p \in [0..(s - 1) -> 0..(s - 1)] :
        /\ \A x, y \in 0..(s - 1) : p[x] = p[y] => x = y
        /\ \A x \in 0..(s - 1) : a[x] = b[p[x]]
  BY DEF Rearranges
<1> DEFINE q == Swapped(p, u, v)
           c == Swapped(a, u, v)
<1>2. q \in [0..(s - 1) -> 0..(s - 1)]
  BY DEF Swapped
<1>3. \A x \in 0..(s - 1) : q[x] = IF x = v THEN p[u] ELSE IF x = u THEN p[v] ELSE p[x]
  BY DEF Swapped
<1>4. \A x \in 0..(s - 1) : c[x] = IF x = v THEN a[u] ELSE IF x = u THEN a[v] ELSE a[x]
  BY DEF Swapped
<1>5. \A x, y \in 0..(s - 1) : q[x] = q[y] => x = y
  <2> SUFFICES ASSUME NEW x \in 0..(s - 1), NEW y \in 0..(s - 1), q[x] = q[y]
               PROVE  x = y
    OBVIOUS
  <2> DEFINE from(z) == IF z = v THEN u ELSE IF z = u THEN v ELSE z
  <2>1. \A z \in 0..(s - 1) : from(z) \in 0..(s - 1) /\ q[z] = p[from(z)]
    BY <1>3
  <2>2. from(x) = from(y)
    <3> HIDE DEF q, from
    <3> QED
      BY <1>1, <2>1
  <2> QED
    BY <2>2
<1> HIDE DEF q, c
<1>6. \A x \in 0..(s - 1) : c[x] = b[q[x]]
  BY <1>1, <1>3, <1>4
<1>7. Rearranges(c, b, s)
  BY <1>2, <1>5, <1>6 DEF Rearranges
<1> QED
  BY <1>7 DEF c

(* What an exchange does to the array.                                     *)
LEMMA SwappedAt ==
  ASSUME NEW D, NEW a \in [D -> Int], NEW u \in D, NEW v \in D
  PROVE  /\ Swapped(a, u, v) \in [D -> Int]
         /\ \A x \in D : Swapped(a, u, v)[x] =
                           IF x = v THEN a[u] ELSE IF x = u THEN a[v] ELSE a[x]
BY DEF Swapped

-----------------------------------------------------------------------------
(* What halving a gap leaves.                                              *)
LEMMA Halved == ASSUME NEW u \in Nat PROVE u \div 2 \in Nat /\ (u \div 2 = 0 => u \in {0, 1})
OBVIOUS

(* Where the loops start.                                                  *)
LEMMA NothingPlaced ==
  ASSUME NEW s \in Nat, NEW a \in [0..(s - 1) -> Int]
  PROVE  /\ TailPlaced(a, s, 0) /\ HeadPlaced(a, s, 0)
         /\ InOrder(a, s, 0) /\ InOrder(a, s, 1)
         /\ Greatest(a, s, 0)
         /\ s \in {0, 1} => HeadPlaced(a, s, s)
BY DEF TailPlaced, HeadPlaced, InOrder, Greatest

(* Where they end: the last number left has only its place.                *)
LEMMA AllPlaced ==
  ASSUME NEW s \in Nat, NEW a \in [0..(s - 1) -> Int], NEW u \in Nat
  PROVE  /\ TailPlaced(a, s, u) /\ u >= s - 1 => HeadPlaced(a, s, s)
         /\ HeadPlaced(a, s, u) /\ u >= s - 1 => HeadPlaced(a, s, s)
         /\ InOrder(a, s, u) /\ u >= s => HeadPlaced(a, s, s)
BY DEF TailPlaced, HeadPlaced, InOrder

(* A round of bubble_sort's inner loop carries the greatest number on;     *)
(* at the end of the loop it has reached its place.                        *)
LEMMA Bubbles ==
  ASSUME NEW s \in Nat, NEW a \in [0..(s - 1) -> Int], NEW u \in Nat, NEW m \in Nat,
         TailPlaced(a, s, u), Greatest(a, s, m), m < s - u - 1
  PROVE  LET b == IF a[m] > a[m + 1] THEN Swapped(a, m, m + 1) ELSE a
         IN  TailPlaced(b, s, u) /\ Greatest(b, s, m + 1)
<1>1. m \in 0..(s - 1) /\ m + 1 \in 0..(s - 1)
  OBVIOUS
<1>2. CASE a[m] > a[m + 1]
  <2> DEFINE b == Swapped(a, m, m + 1)
  <2>1. \A x \in 0..(s - 1) : b[x] = IF x = m + 1 THEN a[m] ELSE IF x = m THEN a[m + 1] ELSE a[x]
    BY <1>1 DEF Swapped
  <2> HIDE DEF b
  <2>2. TailPlaced(b, s, u)
    BY <1>1, <1>2, <2>1 DEF TailPlaced
  <2>3. Greatest(b, s, m + 1)
    BY <1>1, <1>2, <2>1 DEF Greatest
  <2> QED
    BY <1>2, <2>2, <2>3 DEF b
<1>3. CASE ~(a[m] > a[m + 1])
  <2>1. Greatest(a, s, m + 1)
    BY <1>1, <1>3 DEF Greatest
  <2> QED
    BY <1>3, <2>1
<1> QED
  BY <1>2, <1>3

(* The end of bubble_sort's inner loop.                                    *)
LEMMA Bubbled ==
  ASSUME NEW s \in Nat, NEW a \in [0..(s - 1) -> Int], NEW u \in Nat,
         TailPlaced(a, s, u), Greatest(a, s, s - u - 1)
  PROVE  TailPlaced(a, s, u + 1)
BY DEF TailPlaced, Greatest

(* Where selection_sort's search starts.                                   *)
LEMMA LeastOfOne ==
  ASSUME NEW s \in Nat, NEW a \in [0..(s - 1) -> Int], NEW u \in 0..(s - 1)
  PROVE  Least(a, s, u, u, u + 1)
BY DEF Least

(* A round of selection_sort's inner loop.                                 *)
LEMMA Selects ==
  ASSUME NEW s \in Nat, NEW a \in [0..(s - 1) -> Int], NEW u \in Nat,
         NEW m \in 0..(s - 1), NEW hi \in 0..(s - 1), Least(a, s, m, u, hi)
  PROVE  Least(a, s, IF a[hi] < a[m] THEN hi ELSE m, u, hi + 1)
BY DEF Least

(* The exchange at the end of the search.                                  *)
LEMMA Selected ==
  ASSUME NEW s \in Nat, NEW a \in [0..(s - 1) -> Int], NEW u \in 0..(s - 1),
         NEW m \in u..(s - 1), HeadPlaced(a, s, u), Least(a, s, m, u, s)
  PROVE  HeadPlaced(Swapped(a, m, u), s, u + 1)
<1> DEFINE b == Swapped(a, m, u)
<1>1. \A x \in 0..(s - 1) : b[x] = IF x = u THEN a[m] ELSE IF x = m THEN a[u] ELSE a[x]
  <2>1. m \in 0..(s - 1)
    OBVIOUS
  <2> QED
    BY <2>1 DEF Swapped
<1> HIDE DEF b
<1>2. HeadPlaced(b, s, u + 1)
  BY <1>1 DEF HeadPlaced, Least
<1> QED
  BY <1>2 DEF b

(* The insertion opens a hole at the number it takes out.                  *)
LEMMA HoleOpens ==
  ASSUME NEW s \in Nat, NEW a \in [0..(s - 1) -> Int], NEW u \in 0..(s - 1), InOrder(a, s, u)
  PROVE  HoleFits(a, s, u, u, a[u])
BY DEF InOrder, HoleFits

(* A number moved up is, with tmp thought back into the hole, an exchange. *)
LEMMA HoleExchanges ==
  ASSUME NEW s \in Nat, NEW a \in [0..(s - 1) -> Int], NEW t \in Int,
         NEW u \in 0..(s - 1), NEW v \in 0..(s - 1), u # v, NEW b,
         NEW whole, whole = [a EXCEPT ![v] = t], Rearranges(whole, b, s),
         NEW moved, moved = [a EXCEPT ![v] = a[u]],
         NEW filled, filled = [moved EXCEPT ![u] = t]
  PROVE  Rearranges(filled, b, s)
<1>1. whole \in [0..(s - 1) -> Int]
  OBVIOUS
<1>2. filled = Swapped(whole, u, v)
  BY DEF Swapped
<1>3. Rearranges(Swapped(whole, u, v), b, s)
  BY <1>1, RearrangesSwapped
<1> QED
  BY <1>2, <1>3

(* It moves down past a greater number.                                    *)
LEMMA HoleMoves ==
  ASSUME NEW s \in Nat, NEW a \in [0..(s - 1) -> Int], NEW u \in 0..(s - 1),
         NEW h \in 1..u, NEW t \in Int, HoleFits(a, s, u, h, t), a[h - 1] > t
  PROVE  HoleFits([a EXCEPT ![h] = a[h - 1]], s, u, h - 1, t)
<1> DEFINE b == [a EXCEPT ![h] = a[h - 1]]
<1>1. \A x \in 0..(s - 1) : b[x] = IF x = h THEN a[h - 1] ELSE a[x]
  OBVIOUS
<1> HIDE DEF b
<1>2. HoleFits(b, s, u, h - 1, t)
  BY <1>1 DEF HoleFits
<1> QED
  BY <1>2 DEF b

(* It closes where the number below is not greater.                        *)
LEMMA HoleCloses ==
  ASSUME NEW s \in Nat, NEW a \in [0..(s - 1) -> Int], NEW u \in 0..(s - 1),
         NEW h \in 0..u, NEW t \in Int, HoleFits(a, s, u, h, t),
         h = 0 \/ ~(a[h - 1] > t)
  PROVE  InOrder([a EXCEPT ![h] = t], s, u + 1)
<1> DEFINE b == [a EXCEPT ![h] = t]
<1>1. \A x \in 0..(s - 1) : b[x] = IF x = h THEN t ELSE a[x]
  OBVIOUS
<1> HIDE DEF b
<1>2. InOrder(b, s, u + 1)
  BY <1>1 DEF HoleFits, InOrder
<1> QED
  BY <1>2 DEF b

-----------------------------------------------------------------------------
(* Nothing is sorted yet.                                                  *)
LEMMA Initially == SortInit => SortInv
<1> SUFFICES ASSUME SortInit PROVE SortInv
  OBVIOUS
<1>1. SortTypeOK
  BY DEF SortInit, SortTypeOK, Indices, Sorters
<1>2. Rearranges(array, given, size)
  BY <1>1, RearrangesItself DEF SortInit, SortTypeOK, Indices
<1> QED
  BY <1>1, <1>2 DEF SortInit, SortInv, BubbleLocals, SelectionLocals, GapLocals, Filled,
     Gapped, BubbleInv, SelectionInv, GapInv

(* A call starts with nothing placed, or with nothing to do.               *)
LEMMA Calling == ASSUME SortInv, SortCall PROVE SortInv'
<1>1. size' \in Nat /\ array' \in [0..(size' - 1) -> Int] /\ given' = array'
  <2>1. size' \in 0..MaxSize /\ given' \in [0..(size' - 1) -> Numbers] /\ array' = given'
    BY DEF SortCall
  <2>2. Numbers \subseteq Int /\ MaxSize \in Nat
    BY SortAssumption
  <2>3. size' \in Nat
    BY <2>1, <2>2
  <2>4. given' \in [0..(size' - 1) -> Int]
    BY <2>1, <2>2
  <2> QED
    BY <2>1, <2>3, <2>4
<1>2. /\ sorter' \in Sorters /\ at' = "outer" /\ j' = 0
      /\ gap' = IF sorter' = "shell" THEN size' \div 2 ELSE 1
      /\ i' = IF sorter' \in {"insertion", "shell"} THEN gap' ELSE 0
  BY DEF SortCall
<1>3. gap' \in Nat /\ i' \in Nat
  <2>1. size' \div 2 \in Nat
    BY <1>1, Halved
  <2> QED
    BY <2>1, <1>2
<1>4. SortTypeOK'
  <2>1. min' \in Nat /\ tmp' \in Int
    BY DEF SortInv, SortTypeOK, SortCall
  <2>2. array' \in [Indices' -> Int] /\ given' \in [Indices' -> Int]
    BY <1>1 DEF Indices
  <2>3. sorter' \in Sorters /\ j' \in Int /\ at' \in {"idle", "outer", "inner", "returned"}
    BY <1>2
  <2>4. size' \in Nat
    BY <1>1
  <2> QED
    BY <1>3, <2>1, <2>2, <2>3, <2>4 DEF SortTypeOK
<1>5. Rearranges(Filled, given, size)'
  BY <1>1, <1>2, RearrangesItself DEF Filled
<1>6. BubbleLocals' /\ SelectionLocals' /\ GapLocals'
  BY <1>2 DEF BubbleLocals, SelectionLocals, GapLocals, Gapped
<1>7. BubbleInv' /\ SelectionInv'
  BY <1>1, <1>2, NothingPlaced DEF BubbleInv, SelectionInv
<1>8. GapInv'
  <2>1. gap' = 0 => HeadPlaced(array', size', size')
    <3>1. gap' = size' \div 2 \/ gap' = 1
      BY <1>2
    <3>2. gap' = 0 => size' \div 2 = 0
      BY <3>1
    <3>3. gap' = 0 => size' \in {0, 1}
      BY <1>1, <3>2, Halved
    <3> QED
      BY <1>1, <3>3, NothingPlaced
  <2>2. InOrder(array', size', 1)
    BY <1>1, NothingPlaced
  <2> QED
    BY <1>2, <2>1, <2>2 DEF GapInv, Gapped
<1> QED
  BY <1>2, <1>4, <1>5, <1>6, <1>7, <1>8 DEF SortInv

-----------------------------------------------------------------------------
(* What the invariant says of the types.                                   *)
LEMMA Typed ==
  ASSUME SortInv
  PROVE  /\ size \in Nat /\ array \in [0..(size - 1) -> Int]
         /\ i \in Nat /\ j \in Int /\ min \in Nat /\ tmp \in Int /\ gap \in Nat
         /\ sorter \in Sorters /\ given \in [0..(size - 1) -> Int]
BY DEF SortInv, SortTypeOK, Indices

(* The types after a step, from those of what the step assigns.            *)
LEMMA TypedNext ==
  ASSUME sorter' = sorter, size' = size, given' = given, SortInv,
         array' \in [0..(size - 1) -> Int],
         i' \in Nat, j' \in Int, min' \in Nat, tmp' \in Int, gap' \in Nat,
         at' \in {"idle", "outer", "inner", "returned"}
  PROVE  SortTypeOK'
<1>1. array' \in [Indices' -> Int] /\ given' \in [Indices' -> Int]
  BY Typed DEF Indices
<1>2. sorter' \in Sorters /\ size' \in Nat
  BY Typed
<1> QED
  BY <1>1, <1>2 DEF SortTypeOK

(* What the invariant comes to for the function that runs.                 *)
LEMMA NextInBubbleSort ==
  ASSUME sorter' = "bubble", SortTypeOK', BubbleLocals',
         Rearranges(array', given', size'), BubbleInv',
         at' = "returned" => HeadPlaced(array', size', size')
  PROVE  SortInv'
BY DEF SortInv, SelectionLocals, GapLocals, SelectionInv, GapInv, Gapped, Filled

LEMMA NextInSelectionSort ==
  ASSUME sorter' = "selection", SortTypeOK', SelectionLocals',
         Rearranges(array', given', size'), SelectionInv',
         at' = "returned" => HeadPlaced(array', size', size')
  PROVE  SortInv'
BY DEF SortInv, BubbleLocals, GapLocals, BubbleInv, GapInv, Gapped, Filled

LEMMA NextInInsertion ==
  ASSUME sorter' \in {"insertion", "shell"}, SortTypeOK', GapLocals',
         Rearranges(Filled', given', size'), GapInv',
         at' = "returned" => HeadPlaced(array', size', size')
  PROVE  SortInv'
BY DEF SortInv, BubbleLocals, SelectionLocals, BubbleInv, SelectionInv

-----------------------------------------------------------------------------
(* bubble_sort: a next turn of the outer loop, or the end.                 *)
LEMMA BubblingOuter ==
  ASSUME SortInv, BubbleOuter, UNCHANGED <<sorter, size, given>>
  PROVE  SortInv'
<1>1. /\ sorter = "bubble" /\ at = "outer"
      /\ sorter' = sorter /\ size' = size /\ given' = given
      /\ array' = array /\ i' = i /\ min' = min /\ tmp' = tmp /\ gap' = gap
  BY DEF BubbleOuter, SortReturns, Runs
<1>2. TailPlaced(array, size, i) /\ Rearranges(array, given, size)
  BY <1>1 DEF SortInv, BubbleInv, Filled, Gapped
<1>3. CASE i < size - 1
  <2>1. j' = 0 /\ at' = "inner"
    BY <1>3 DEF BubbleOuter
  <2>2. SortTypeOK'
    BY <1>1, <2>1, Typed, TypedNext
  <2>3. BubbleLocals'
    BY <1>1, <1>3, <2>1, Typed DEF BubbleLocals
  <2>4. BubbleInv'
    BY <1>1, <1>2, <2>1, Typed, NothingPlaced DEF BubbleInv
  <2> QED
    BY <1>1, <1>2, <2>1, <2>2, <2>3, <2>4, NextInBubbleSort
<1>4. CASE ~(i < size - 1)
  <2>1. j' = j /\ at' = "returned"
    BY <1>4 DEF BubbleOuter, SortReturns
  <2>2. SortTypeOK'
    BY <1>1, <2>1, Typed, TypedNext
  <2>3. HeadPlaced(array, size, size)
    <3>1. size \in Nat /\ array \in [0..(size - 1) -> Int] /\ i \in Nat
      BY Typed
    <3>2. i >= size - 1
      BY <1>4, <3>1
    <3> QED
      BY <1>2, <3>1, <3>2, AllPlaced
  <2> QED
    BY <1>1, <1>2, <2>1, <2>2, <2>3, NextInBubbleSort DEF BubbleLocals, BubbleInv
<1> QED
  BY <1>3, <1>4

(* bubble_sort: a round of the inner loop, or its end.                     *)
LEMMA BubblingInner ==
  ASSUME SortInv, BubbleInner, UNCHANGED <<sorter, size, given>>
  PROVE  SortInv'
<1>1. /\ sorter = "bubble" /\ at = "inner"
      /\ sorter' = sorter /\ size' = size /\ given' = given
      /\ min' = min /\ tmp' = tmp /\ gap' = gap
  BY DEF BubbleInner, Runs
<1>2. /\ TailPlaced(array, size, i) /\ Greatest(array, size, j)
      /\ Rearranges(array, given, size)
      /\ i < size - 1 /\ j \in 0..(size - i - 1)
  BY <1>1 DEF SortInv, BubbleInv, BubbleLocals, Filled, Gapped
<1>3. CASE j < size - i - 1
  <2>1. /\ array' = IF array[j] > array[j + 1] THEN Swapped(array, j, j + 1) ELSE array
        /\ j' = j + 1 /\ i' = i /\ at' = at
    BY <1>3 DEF BubbleInner
  <2>2. j \in 0..(size - 1) /\ j + 1 \in 0..(size - 1) /\ j \in Nat
    BY <1>2, <1>3, Typed
  <2>3. array' \in [0..(size - 1) -> Int] /\ Rearranges(array', given, size)
    BY <1>2, <2>1, <2>2, Typed, SwappedAt, RearrangesSwapped
  <2>4. SortTypeOK'
    BY <1>1, <2>1, <2>2, <2>3, Typed, TypedNext
  <2>5. TailPlaced(array', size, i) /\ Greatest(array', size, j + 1)
    BY <1>2, <1>3, <2>1, <2>2, Typed, Bubbles
  <2>6. BubbleInv'
    BY <1>1, <2>1, <2>5 DEF BubbleInv
  <2>7. BubbleLocals'
    BY <1>1, <1>2, <1>3, <2>1, Typed DEF BubbleLocals
  <2> QED
    BY <1>1, <2>1, <2>3, <2>4, <2>6, <2>7, NextInBubbleSort
<1>4. CASE ~(j < size - i - 1)
  <2>1. array' = array /\ j' = j /\ i' = i + 1 /\ at' = "outer"
    BY <1>4 DEF BubbleInner
  <2>2. SortTypeOK'
    <3>1. i + 1 \in Nat
      BY Typed
    <3> QED
      BY <1>1, <2>1, <3>1, Typed, TypedNext
  <2>3. TailPlaced(array, size, i + 1)
    <3>1. j = size - i - 1
      BY <1>2, <1>4, Typed
    <3> QED
      BY <1>2, <3>1, Typed, Bubbled
  <2> QED
    BY <1>1, <1>2, <2>1, <2>2, <2>3, NextInBubbleSort DEF BubbleLocals, BubbleInv
<1> QED
  BY <1>3, <1>4

-----------------------------------------------------------------------------
(* selection_sort: a next turn of the outer loop, or the end.              *)
LEMMA SelectingOuter ==
  ASSUME SortInv, SelectionOuter, UNCHANGED <<sorter, size, given>>
  PROVE  SortInv'
<1>1. /\ sorter = "selection" /\ at = "outer"
      /\ sorter' = sorter /\ size' = size /\ given' = given
      /\ array' = array /\ i' = i /\ tmp' = tmp /\ gap' = gap
  BY DEF SelectionOuter, SortReturns, Runs
<1>2. HeadPlaced(array, size, i) /\ Rearranges(array, given, size)
  BY <1>1 DEF SortInv, SelectionInv, Filled, Gapped
<1>3. CASE i < size - 1
  <2>1. min' = i /\ j' = i + 1 /\ at' = "inner"
    BY <1>3 DEF SelectionOuter
  <2>2. SortTypeOK'
    <3>1. i + 1 \in Int
      BY Typed
    <3> QED
      BY <1>1, <2>1, <3>1, Typed, TypedNext
  <2>3. SelectionLocals'
    BY <1>1, <1>3, <2>1, Typed DEF SelectionLocals
  <2>4. Least(array, size, i, i, i + 1)
    <3>1. i \in 0..(size - 1)
      BY <1>3, Typed
    <3> QED
      BY <3>1, Typed, LeastOfOne
  <2>5. SelectionInv'
    BY <1>1, <1>2, <2>1, <2>4 DEF SelectionInv
  <2> QED
    BY <1>1, <1>2, <2>1, <2>2, <2>3, <2>5, NextInSelectionSort
<1>4. CASE ~(i < size - 1)
  <2>1. j' = j /\ min' = min /\ at' = "returned"
    BY <1>4 DEF SelectionOuter, SortReturns
  <2>2. SortTypeOK'
    BY <1>1, <2>1, Typed, TypedNext
  <2>3. HeadPlaced(array, size, size)
    <3>1. i >= size - 1
      BY <1>4, Typed
    <3> QED
      BY <1>2, <3>1, Typed, AllPlaced
  <2> QED
    BY <1>1, <1>2, <2>1, <2>2, <2>3, NextInSelectionSort DEF SelectionLocals, SelectionInv
<1> QED
  BY <1>3, <1>4

(* selection_sort: a round of the search, or the exchange after it.        *)
LEMMA SelectingInner ==
  ASSUME SortInv, SelectionInner, UNCHANGED <<sorter, size, given>>
  PROVE  SortInv'
<1>1. /\ sorter = "selection" /\ at = "inner"
      /\ sorter' = sorter /\ size' = size /\ given' = given
      /\ tmp' = tmp /\ gap' = gap
  BY DEF SelectionInner, Runs
<1>2. /\ HeadPlaced(array, size, i) /\ Least(array, size, min, i, j)
      /\ Rearranges(array, given, size)
      /\ i < size - 1 /\ min \in i..(size - 1) /\ j \in (i + 1)..size
  BY <1>1 DEF SortInv, SelectionInv, SelectionLocals, Filled, Gapped
<1>3. i \in 0..(size - 1) /\ min \in 0..(size - 1)
  BY <1>2, Typed
<1>4. CASE j < size
  <2>1. /\ min' = IF array[j] < array[min] THEN j ELSE min
        /\ j' = j + 1 /\ array' = array /\ i' = i /\ at' = at
    BY <1>4 DEF SelectionInner
  <2>2. j \in 0..(size - 1) /\ j + 1 \in Int /\ j \in Nat
    BY <1>2, <1>4, Typed
  <2>3. SortTypeOK'
    BY <1>1, <2>1, <2>2, Typed, TypedNext
  <2>4. Least(array, size, min', i, j + 1)
    BY <1>2, <1>3, <2>1, <2>2, Typed, Selects
  <2>5. SelectionInv'
    BY <1>1, <1>2, <2>1, <2>4 DEF SelectionInv
  <2>6. SelectionLocals'
    <3>1. min' = j \/ min' = min
      BY <2>1
    <3> QED
      BY <1>1, <1>2, <1>4, <2>1, <3>1, Typed DEF SelectionLocals
  <2> QED
    BY <1>1, <1>2, <2>1, <2>3, <2>5, <2>6, NextInSelectionSort
<1>5. CASE ~(j < size)
  <2>1. array' = Swapped(array, min, i) /\ i' = i + 1 /\ at' = "outer" /\ j' = j /\ min' = min
    BY <1>5 DEF SelectionInner
  <2>2. array' \in [0..(size - 1) -> Int] /\ Rearranges(array', given, size)
    BY <1>2, <1>3, <2>1, Typed, SwappedAt, RearrangesSwapped
  <2>3. SortTypeOK'
    <3>1. i + 1 \in Nat
      BY Typed
    <3> QED
      BY <1>1, <2>1, <2>2, <3>1, Typed, TypedNext
  <2>4. HeadPlaced(array', size, i + 1)
    <3>1. j = size
      BY <1>2, <1>5, Typed
    <3> QED
      BY <1>2, <1>3, <2>1, <3>1, Typed, Selected
  <2> QED
    BY <1>1, <2>1, <2>2, <2>3, <2>4, NextInSelectionSort DEF SelectionLocals, SelectionInv
<1> QED
  BY <1>4, <1>5

-----------------------------------------------------------------------------
(* The outer loops of insertion_sort and shell_sort: a next insertion, a   *)
(* next gap, or the end.                                                   *)
LEMMA InsertingOuter ==
  ASSUME SortInv, GapOuter, UNCHANGED <<sorter, size, given>>
  PROVE  SortInv'
<1>1. /\ sorter \in {"insertion", "shell"} /\ at = "outer" /\ Gapped
      /\ sorter' = sorter /\ size' = size /\ given' = given
      /\ array' = array /\ min' = min
  BY DEF GapOuter, SortReturns, Runs, Gapped
<1>2. /\ gap = 1 => InOrder(array, size, i)
      /\ gap = 0 => HeadPlaced(array, size, size)
      /\ Rearranges(array, given, size)
      /\ sorter = "insertion" => gap \in {0, 1}
  BY <1>1 DEF SortInv, GapInv, GapLocals, Filled
<1>3. CASE gap > 0 /\ i < size
  <2>1. tmp' = array[i] /\ j' = i - gap /\ at' = "inner" /\ i' = i /\ gap' = gap
    BY <1>3, Typed DEF GapOuter, SortReturns
  <2>2. i \in 0..(size - 1) /\ array[i] \in Int /\ i - gap \in Int /\ i - gap + gap = i
    BY <1>3, Typed
  <2>3. SortTypeOK'
    BY <1>1, <2>1, <2>2, Typed, TypedNext
  <2>4. GapLocals'
    BY <1>1, <1>2, <1>3, <2>1, Typed DEF GapLocals
  <2>5. Filled' = array
    <3>1. Filled' = [array EXCEPT ![i] = array[i]]
      BY <1>1, <2>1, <2>2 DEF Filled, Gapped
    <3> QED
      BY <3>1, Typed
  <2>6. gap = 1 => i - gap + 1 = i /\ HoleFits(array, size, i, i, array[i])
    BY <1>2, <2>2, Typed, HoleOpens
  <2>7. GapInv'
    BY <1>1, <2>1, <2>6 DEF GapInv
  <2> QED
    BY <1>1, <1>2, <2>1, <2>3, <2>4, <2>5, <2>7, NextInInsertion
<1>4. CASE gap > 0 /\ i >= size
  <2>1. gap' = NextGap /\ i' = gap' /\ j' = j /\ tmp' = tmp /\ at' = at
    BY <1>4, Typed DEF GapOuter, SortReturns
  <2>2. gap' \in Nat /\ (sorter = "insertion" => gap' = 0)
    BY <2>1, Typed, Halved DEF NextGap
  <2>3. SortTypeOK'
    BY <1>1, <2>1, <2>2, Typed, TypedNext
  <2>4. gap' = 0 => HeadPlaced(array, size, size)
    <3>1. gap' = 0 => gap = 1
      <4>1. gap \div 2 = 0 => gap \in {0, 1}
        BY Typed, Halved
      <4> QED
        BY <1>2, <1>4, <2>1, <4>1, Typed DEF NextGap
    <3> QED
      BY <1>2, <1>4, <3>1, Typed, AllPlaced
  <2>5. InOrder(array, size, 1)
    BY Typed, NothingPlaced
  <2>6. GapInv' /\ GapLocals'
    BY <1>1, <2>1, <2>2, <2>4, <2>5 DEF GapInv, GapLocals
  <2>7. Filled' = array
    BY <1>1, <2>1 DEF Filled
  <2> QED
    BY <1>1, <1>2, <2>1, <2>3, <2>6, <2>7, NextInInsertion
<1>5. CASE gap = 0 /\ SortReturns
  <2>1. at' = "returned" /\ i' = i /\ j' = j /\ tmp' = tmp /\ gap' = gap
    BY <1>5 DEF SortReturns
  <2>2. SortTypeOK'
    BY <1>1, <2>1, Typed, TypedNext
  <2>3. GapInv' /\ GapLocals' /\ Filled' = array
    BY <1>1, <1>2, <2>1 DEF GapInv, GapLocals, Filled
  <2> QED
    BY <1>1, <1>2, <1>5, <2>1, <2>2, <2>3, NextInInsertion
<1> QED
  BY <1>3, <1>4, <1>5 DEF GapOuter

(* The inner loop.  A number that moves up and the hole below it are, with *)
(* tmp thought back into the hole, an exchange.                            *)
LEMMA InsertingInner ==
  ASSUME SortInv, GapInner, UNCHANGED <<sorter, size, given>>
  PROVE  SortInv'
<1>1. /\ sorter \in {"insertion", "shell"} /\ at = "inner" /\ Gapped
      /\ sorter' = sorter /\ size' = size /\ given' = given
      /\ min' = min /\ tmp' = tmp /\ gap' = gap
  BY DEF GapInner, Runs, Gapped
<1>2. /\ gap > 0 /\ i < size /\ j <= i - gap /\ j + gap >= 0
      /\ sorter = "insertion" => gap \in {0, 1}
      /\ gap = 1 => HoleFits(array, size, i, j + 1, tmp)
      /\ Rearranges([array EXCEPT ![j + gap] = tmp], given, size)
  BY <1>1 DEF SortInv, GapInv, GapLocals, Filled
<1>3. i \in 0..(size - 1) /\ j + gap \in 0..(size - 1)
  BY <1>2, Typed
<1>4. CASE j >= 0 /\ array[j] > tmp
  <2>1. array' = [array EXCEPT ![j + gap] = array[j]] /\ j' = j - gap /\ i' = i /\ at' = at
    BY <1>4 DEF GapInner
  <2>2. j \in 0..(size - 1) /\ j - gap \in Int /\ j - gap + gap = j /\ j # j + gap
    <3>1. size \in Nat /\ i \in Nat /\ j \in Int /\ gap \in Nat
      BY Typed
    <3>2. gap > 0 /\ j <= i - gap /\ i <= size - 1 /\ j >= 0
      BY <1>2, <1>3, <1>4
    <3> QED
      BY <3>1, <3>2
  <2>3. array' \in [0..(size - 1) -> Int]
    <3>1. array \in [0..(size - 1) -> Int] /\ array[j] \in Int
      BY <2>2, Typed
    <3> QED
      BY <2>1, <3>1
  <2>4. SortTypeOK'
    BY <1>1, <2>1, <2>2, <2>3, Typed, TypedNext
  <2>5. GapLocals'
    BY <1>1, <1>2, <1>4, <2>1, Typed DEF GapLocals
  <2>6. Rearranges(Filled', given, size)
    <3> DEFINE whole == [array EXCEPT ![j + gap] = tmp]
    <3>1. Filled' = [array' EXCEPT ![j] = tmp]
      BY <1>1, <2>1, <2>2 DEF Filled, Gapped
    <3>2. Rearranges(whole, given, size) /\ whole = [array EXCEPT ![j + gap] = tmp]
      BY <1>2
    <3> HIDE DEF whole
    <3> QED
      BY <1>3, <2>1, <2>2, <3>1, <3>2, Typed, HoleExchanges
  <2>7. gap = 1 => HoleFits(array', size, i, j, tmp)
    <3> SUFFICES ASSUME gap = 1 PROVE HoleFits(array', size, i, j, tmp)
      OBVIOUS
    <3>1. j + 1 \in 1..i /\ (j + 1) - 1 = j /\ j + gap = j + 1
      BY <1>2, <2>2, Typed
    <3>2. array' = [array EXCEPT ![j + 1] = array[(j + 1) - 1]] /\ array[(j + 1) - 1] > tmp
      BY <1>4, <2>1, <3>1
    <3>3. HoleFits(array, size, i, j + 1, tmp)
      BY <1>2
    <3>4. HoleFits(array', size, i, (j + 1) - 1, tmp)
      BY <1>3, <3>1, <3>2, <3>3, Typed, HoleMoves
    <3> QED
      BY <3>1, <3>4
  <2>8. GapInv'
    <3>1. gap = 1 => j - gap + 1 = j
      BY Typed
    <3> QED
      BY <1>1, <2>1, <2>7, <3>1 DEF GapInv
  <2> QED
    BY <1>1, <2>1, <2>4, <2>5, <2>6, <2>8, NextInInsertion
<1>5. CASE ~(j >= 0 /\ array[j] > tmp)
  <2>1. /\ array' = [array EXCEPT ![j + gap] = tmp]
        /\ i' = i + 1 /\ at' = "outer" /\ j' = j
    BY <1>5 DEF GapInner
  <2>2. array' \in [0..(size - 1) -> Int] /\ i + 1 \in Nat
    BY <1>3, <2>1, Typed
  <2>3. SortTypeOK'
    BY <1>1, <2>1, <2>2, Typed, TypedNext
  <2>4. GapLocals' /\ Filled' = array'
    BY <1>1, <1>2, <2>1 DEF GapLocals, Filled
  <2>5. gap = 1 => InOrder(array', size, i + 1)
    <3> SUFFICES ASSUME gap = 1 PROVE InOrder(array', size, i + 1)
      OBVIOUS
    <3>1. j + 1 \in 0..i /\ (j + 1) - 1 = j /\ j + gap = j + 1
      BY <1>2, Typed
    <3>2. j + 1 = 0 \/ ~(array[j] > tmp)
      BY <1>5, <3>1, Typed
    <3> QED
      BY <1>2, <1>3, <2>1, <3>1, <3>2, Typed, HoleCloses
  <2>6. GapInv'
    <3>1. gap # 0
      BY <1>2, Typed
    <3> QED
      BY <1>1, <2>1, <2>5, <3>1 DEF GapInv
  <2> QED
    BY <1>1, <1>2, <2>1, <2>3, <2>4, <2>6, NextInInsertion
<1> QED
  BY <1>4, <1>5

-----------------------------------------------------------------------------
(* After the call.                                                         *)
LEMMA Forgetting == ASSUME SortInv, SortForget PROVE SortInv'
<1>1. /\ sorter' = "bubble" /\ size' = 0 /\ at' = "idle"
      /\ array' = [k \in {} |-> 0] /\ given' = [k \in {} |-> 0]
      /\ i' = 0 /\ j' = 0 /\ min' = 0 /\ tmp' = 0 /\ gap' = 0
  BY DEF SortForget
<1>2. Indices' = {} /\ 0..(0 - 1) = {}
  BY <1>1 DEF Indices
<1>3. [k \in {} |-> 0] \in [{} -> Int]
  OBVIOUS
<1>4. SortTypeOK'
  BY <1>1, <1>2, <1>3 DEF SortTypeOK, Sorters
<1>5. Rearranges(array', given', size')
  BY <1>1, <1>2, <1>3, RearrangesItself
<1> QED
  BY <1>1, <1>4, <1>5, NextInBubbleSort DEF BubbleLocals, BubbleInv

(* A stuttering step.                                                      *)
LEMMA Standing == ASSUME SortInv, UNCHANGED sortVars PROVE SortInv'
BY DEF sortVars, SortInv, SortTypeOK, Indices, BubbleLocals, SelectionLocals, GapLocals, Gapped,
   Filled, BubbleInv, SelectionInv, GapInv

(* The inductive invariant: what every loop of the four functions keeps.   *)
THEOREM SortInvAlways == SortSpec => []SortInv
<1>1. SortInv /\ [SortNext]_sortVars => SortInv'
  BY Calling, BubblingOuter, BubblingInner, SelectingOuter, SelectingInner, InsertingOuter,
     InsertingInner, Forgetting, Standing DEF SortNext, SortStep
<1> QED
  BY <1>1, Initially, PTL DEF SortSpec

(* SortIsRight: whatever the size and the numbers, a sorting function that *)
(* returns has put the numbers it was given in ascending order.            *)
THEOREM Sorting == SortSpec => []SortIsRight
<1>1. SortInv => SortIsRight
  <2> SUFFICES ASSUME SortInv, at = "returned" 
               PROVE  Ascending(array, 0, size - 1) /\ Rearranges(array, given, size)
    BY DEF SortIsRight
  <2>1. HeadPlaced(array, size, size) /\ Rearranges(array, given, size)
    BY DEF SortInv, Filled
  <2>2. Ascending(array, 0, size - 1)
    BY <2>1, Typed DEF HeadPlaced, Ascending
  <2> QED
    BY <2>1, <2>2
<1> QED
  BY <1>1, SortInvAlways, PTL


-----------------------------------------------------------------------------
(***************************************************************************)
(* A list kept with the macros of lst.h is whole for every set of nodes    *)
(* and after every sequence of calls: proofs about Lst.  The invariant     *)
(* says that the header and the links are those of a list along some path  *)
(* through the members; Lemmas says how each macro changes the path. *)
(***************************************************************************)

LstInv ==
  /\ links \in Links(Nodes)
  /\ \E len \in Nat : \E s : Along(s, len, Nodes, list, links) /\ NodesOf(s, len) = member

-----------------------------------------------------------------------------
(* Any number of paths can be widened and narrowed.                        *)
LEMMA Paths ==
  ASSUME NEW s, NEW len, NEW p, NEW y
  PROVE  (\E w : Widens(w, s, len, p, y)) /\ (\E w : Narrows(w, s, len, p))
BY DEF Widens, Narrows

LEMMA LstInvInit == ASSUME LstInit PROVE LstInv
<1> USE LstAssumption DEF LstInit
<1>1. links \in Links(Nodes)
  BY DEF Links, Link, Detached
<1>2. PICK s : s = [o \in 0..1 |-> NoNode]
  OBVIOUS
<1>3. Along(s, 0, Nodes, list, links)
  BY <1>2 DEF Along, Path, Threaded, HeaderOf, EmptyList
<1>4. NodesOf(s, 0) = member
  BY DEF NodesOf
<1> QED
  BY <1>1, <1>3, <1>4 DEF LstInv

(* What Walk is before and after a step, as a sequence.                    *)
OrderOf(s, len) == [o \in 1..len |-> s[o]]

(* t is q with y put behind its p-th place, or q without that place.       *)
PutBehind(t, q, len, p, y) == t = SubSeq(q, 1, p) \o <<y>> \o SubSeq(q, p + 1, len)

CutOut(t, q, len, p) == t = SubSeq(q, 1, p - 1) \o SubSeq(q, p + 1, len)

LEMMA SeqSame ==
  ASSUME NEW S, NEW len \in Nat, NEW f, f = [o \in 1..len |-> f[o]],
         NEW r \in Seq(S), Len(r) = len, \A o \in 1..len : f[o] = r[o]
  PROVE  f = r
OBVIOUS

LEMMA WidenedOrder ==
  ASSUME NEW S, NEW len \in Nat, NEW s, Path(s, len, S), NEW p \in 0..len, NEW y \in S,
         NEW w, Widens(w, s, len, p, y)
  PROVE  PutBehind(OrderOf(w, len + 1), OrderOf(s, len), len, p, y)
<1>0. PICK q : q = OrderOf(s, len)
  OBVIOUS
<1>1. q \in Seq(S) /\ Len(q) = len /\ \A o \in 1..len : q[o] = s[o]
  BY <1>0 DEF OrderOf, Path
<1>2. PICK a, b, r : a = SubSeq(q, 1, p) /\ b = SubSeq(q, p + 1, len) /\ r = a \o <<y>> \o b
  OBVIOUS
<1>3. a \in Seq(S) /\ Len(a) = p /\ \A o \in 1..p : a[o] = s[o]
  BY <1>1, <1>2
<1>4. b \in Seq(S) /\ Len(b) = len - p /\ \A o \in 1..(len - p) : b[o] = s[p + o]
  BY <1>1, <1>2
<1>5. r \in Seq(S) /\ Len(r) = len + 1
  BY <1>2, <1>3, <1>4
<1>6. \A o \in 1..(len + 1) :
        r[o] = IF o <= p THEN a[o] ELSE IF o = p + 1 THEN y ELSE b[o - (p + 1)]
  BY <1>2, <1>3, <1>4
<1>7. PICK f : f = OrderOf(w, len + 1)
  OBVIOUS
<1>8. f = [o \in 1..(len + 1) |-> f[o]]
  BY <1>7 DEF OrderOf
<1>9. \A o \in 1..(len + 1) : f[o] = IF o <= p THEN s[o] ELSE IF o = p + 1 THEN y ELSE s[o - 1]
  BY <1>7 DEF OrderOf, Widens
<1>10. ASSUME NEW o \in 1..(len + 1) PROVE f[o] = r[o]
  <2>1. CASE o <= p
    BY <1>3, <1>6, <1>9, <2>1
  <2>2. CASE o = p + 1
    BY <1>6, <1>9, <2>2
  <2>3. CASE o > p + 1
    <3>1. o - (p + 1) \in 1..(len - p) /\ p + (o - (p + 1)) = o - 1
      BY <2>3
    <3>2. b[o - (p + 1)] = s[o - 1]
      BY <1>4, <3>1
    <3> QED
      BY <1>6, <1>9, <2>3, <3>2
  <2> QED
    BY <2>1, <2>2, <2>3
<1>11. f = r
  BY <1>5, <1>8, <1>10, SeqSame
<1> QED
  BY <1>0, <1>2, <1>7, <1>11 DEF PutBehind

LEMMA NarrowedOrder ==
  ASSUME NEW S, NEW len \in Nat, NEW s, Path(s, len, S), NEW p \in 1..len,
         NEW w, Narrows(w, s, len, p)
  PROVE  CutOut(OrderOf(w, len - 1), OrderOf(s, len), len, p)
<1>0. PICK q : q = OrderOf(s, len)
  OBVIOUS
<1>1. q \in Seq(S) /\ Len(q) = len /\ \A o \in 1..len : q[o] = s[o]
  BY <1>0 DEF OrderOf, Path
<1>2. PICK a, b, r : a = SubSeq(q, 1, p - 1) /\ b = SubSeq(q, p + 1, len) /\ r = a \o b
  OBVIOUS
<1>3. a \in Seq(S) /\ Len(a) = p - 1 /\ \A o \in 1..(p - 1) : a[o] = s[o]
  BY <1>1, <1>2
<1>4. b \in Seq(S) /\ Len(b) = len - p /\ \A o \in 1..(len - p) : b[o] = s[p + o]
  <2>1. \A o \in (p + 1)..len : q[o] \in S
    BY <1>1
  <2>2. /\ b \in Seq(S) /\ Len(b) = IF p + 1 <= len THEN len - (p + 1) + 1 ELSE 0
        /\ \A o \in 1..(len - (p + 1) + 1) : b[o] = q[(p + 1) + o - 1]
    BY <1>2, <2>1, SubSeqProperties
  <2>3. \A o \in 1..(len - p) : p + o \in 1..len /\ (p + 1) + o - 1 = p + o
    OBVIOUS
  <2> QED
    BY <1>1, <2>2, <2>3
<1>5. r \in Seq(S) /\ Len(r) = len - 1 /\ len - 1 \in Nat
  <2>1. r \in Seq(S) /\ Len(r) = Len(a) + Len(b)
    BY <1>2, <1>3, <1>4, ConcatProperties
  <2>2. len - 1 \in Nat /\ (p - 1) + (len - p) = len - 1
    OBVIOUS
  <2> QED
    BY <1>3, <1>4, <2>1, <2>2
<1>6. \A o \in 1..(len - 1) : r[o] = IF o < p THEN a[o] ELSE b[o - (p - 1)]
  <2>1. \A o \in 1..(Len(a) + Len(b)) : r[o] = IF o <= Len(a) THEN a[o] ELSE b[o - Len(a)]
    BY <1>2, <1>3, <1>4
  <2>2. Len(a) + Len(b) = len - 1 /\ \A o \in 1..(len - 1) : o <= Len(a) <=> o < p
    BY <1>3, <1>4
  <2> QED
    BY <1>3, <2>1, <2>2
<1>7. PICK f : f = OrderOf(w, len - 1)
  OBVIOUS
<1>8. f = [o \in 1..(len - 1) |-> f[o]]
  BY <1>7 DEF OrderOf
<1>9. \A o \in 1..(len - 1) : f[o] = IF o < p THEN s[o] ELSE s[o + 1]
  BY <1>7 DEF OrderOf, Narrows
<1>10. ASSUME NEW o \in 1..(len - 1) PROVE f[o] = r[o]
  <2>1. CASE o < p
    BY <1>3, <1>6, <1>9, <2>1
  <2>2. CASE o >= p
    <3>1. o - (p - 1) \in 1..(len - p) /\ p + (o - (p - 1)) = o + 1
      BY <2>2
    <3>2. b[o - (p - 1)] = s[o + 1]
      BY <1>4, <3>1
    <3> QED
      BY <1>6, <1>9, <2>2, <3>2
  <2> QED
    BY <2>1, <2>2
<1>11. f = r
  BY <1>5, <1>8, <1>10, SeqSame
<1> QED
  BY <1>0, <1>2, <1>7, <1>11 DEF CutOut

(* The walk is the order of the path, its nodes are the members.           *)
LEMMA WalkIsOrder ==
  ASSUME NEW len \in Nat, NEW s, NEW l, NEW k, Along(s, len, Nodes, l, k)
  PROVE  /\ Visited(l, k) = OrderOf(s, len)
         /\ Path(s, len, Nodes)
         /\ OrderOf(s, len) \in Seq(Nodes) /\ Len(OrderOf(s, len)) = len
         /\ Sequence!ToSet(OrderOf(s, len)) = NodesOf(s, len)
<1>1. Path(s, len, Nodes)
  BY DEF Along
<1>2. Visited(l, k) = OrderOf(s, len)
  BY VisitedIsPath DEF OrderOf
<1>3. OrderOf(s, len) \in Seq(Nodes) /\ Len(OrderOf(s, len)) = len
  BY <1>1 DEF OrderOf, Path
<1>4. Sequence!ToSet(OrderOf(s, len)) = NodesOf(s, len)
  BY DEF OrderOf, NodesOf, Sequence!ToSet
<1> QED
  BY <1>1, <1>2, <1>3, <1>4

-----------------------------------------------------------------------------
(* Every macro leads from a path to the path it widens or narrows, which   *)
(* is the step ListOrder takes.                                            *)
LEMMA FirstAdded ==
  ASSUME LstInv, NEW x \in Nodes, DoAddFirst(x)
  PROVE  LstInv' /\ Sequence!PutFirst(x)
<1>0. PICK len \in Nat : \E s : Along(s, len, Nodes, list, links) /\ NodesOf(s, len) = member
  BY DEF LstInv
<1>1. PICK s : Along(s, len, Nodes, list, links) /\ NodesOf(s, len) = member
  BY <1>0
<1>2. /\ links \in Links(Nodes) /\ NoNode \notin Nodes
      /\ Path(s, len, Nodes) /\ Walk = OrderOf(s, len)
      /\ Walk \in Seq(Nodes) /\ Len(Walk) = len /\ Sequence!ToSet(Walk) = member
  BY <1>1, LstAssumption, WalkIsOrder DEF LstInv, Walk
<1>3. PICK w : Widens(w, s, len, 0, x)
  BY Paths
<1>4. PICK r : r = ListAddFirst(list, links, x)
  OBVIOUS
<1>5. /\ list' = r.list /\ links' = r.links /\ x \notin NodesOf(s, len)
      /\ member' = member \cup {x}
  BY <1>1, <1>4 DEF DoAddFirst, Becomes
<1>6. r.links \in Links(Nodes) /\ Along(w, len + 1, Nodes, r.list, r.links)
  BY <1>1, <1>2, <1>3, <1>4, <1>5, AddFirstWidens
<1>7. NodesOf(w, len + 1) = member' /\ len + 1 \in Nat
  BY <1>1, <1>2, <1>3, <1>5, WidenedPath
<1>8. LstInv'
  BY <1>5, <1>6, <1>7 DEF LstInv
<1>9. Walk' = OrderOf(w, len + 1)
  BY <1>5, <1>6, <1>7, WalkIsOrder DEF Walk
<1>10. PutBehind(OrderOf(w, len + 1), OrderOf(s, len), len, 0, x)
  BY <1>2, <1>3, WidenedOrder
<1>11. Walk' = <<x>> \o Walk
  BY <1>2, <1>9, <1>10 DEF PutBehind
<1> QED
  BY <1>1, <1>2, <1>5, <1>8, <1>11 DEF Sequence!PutFirst, Sequence!Free

LEMMA LastAdded ==
  ASSUME LstInv, NEW x \in Nodes, DoAddLast(x)
  PROVE  LstInv' /\ Sequence!PutLast(x)
<1>0. PICK len \in Nat : \E s : Along(s, len, Nodes, list, links) /\ NodesOf(s, len) = member
  BY DEF LstInv
<1>1. PICK s : Along(s, len, Nodes, list, links) /\ NodesOf(s, len) = member
  BY <1>0
<1>2. /\ links \in Links(Nodes) /\ NoNode \notin Nodes
      /\ Path(s, len, Nodes) /\ Walk = OrderOf(s, len)
      /\ Walk \in Seq(Nodes) /\ Len(Walk) = len /\ Sequence!ToSet(Walk) = member
  BY <1>1, LstAssumption, WalkIsOrder DEF LstInv, Walk
<1>3. PICK w : Widens(w, s, len, len, x)
  BY Paths
<1>4. PICK r : r = ListAddLast(list, links, x)
  OBVIOUS
<1>5. /\ list' = r.list /\ links' = r.links /\ x \notin NodesOf(s, len)
      /\ member' = member \cup {x}
  BY <1>1, <1>4 DEF DoAddLast, Becomes
<1>6. r.links \in Links(Nodes) /\ Along(w, len + 1, Nodes, r.list, r.links)
  BY <1>1, <1>2, <1>3, <1>4, <1>5, AddLastWidens
<1>7. NodesOf(w, len + 1) = member' /\ len + 1 \in Nat /\ len \in 0..len
  BY <1>1, <1>2, <1>3, <1>5, WidenedPath
<1>8. LstInv'
  BY <1>5, <1>6, <1>7 DEF LstInv
<1>9. Walk' = OrderOf(w, len + 1)
  BY <1>5, <1>6, <1>7, WalkIsOrder DEF Walk
<1>10. PutBehind(OrderOf(w, len + 1), OrderOf(s, len), len, len, x)
  BY <1>2, <1>3, <1>7, WidenedOrder
<1>11. SubSeq(Walk, 1, len) = Walk /\ SubSeq(Walk, len + 1, len) = << >>
  BY <1>2
<1>12. Walk' = Walk \o <<x>>
  BY <1>2, <1>9, <1>10, <1>11 DEF PutBehind
<1> QED
  BY <1>1, <1>2, <1>5, <1>8, <1>12 DEF Sequence!PutLast, Sequence!Free

LEMMA InsertedAfter ==
  ASSUME LstInv, NEW x \in Nodes, NEW y \in Nodes, DoInsertAfter(x, y)
  PROVE  LstInv' /\ Sequence!PutAfter(x, y)
<1>0. PICK len \in Nat : \E s : Along(s, len, Nodes, list, links) /\ NodesOf(s, len) = member
  BY DEF LstInv
<1>1. PICK s : Along(s, len, Nodes, list, links) /\ NodesOf(s, len) = member
  BY <1>0
<1>2. /\ links \in Links(Nodes) /\ NoNode \notin Nodes
      /\ Path(s, len, Nodes) /\ Walk = OrderOf(s, len)
      /\ Walk \in Seq(Nodes) /\ Len(Walk) = len /\ Sequence!ToSet(Walk) = member
  BY <1>1, LstAssumption, WalkIsOrder DEF LstInv, Walk
<1>3. PICK p \in 1..len : s[p] = x
  BY <1>1 DEF DoInsertAfter, NodesOf
<1>4. PICK w : Widens(w, s, len, p, y)
  BY Paths
<1>5. PICK r : r = ListInsertAfter(list, links, s[p], y)
  OBVIOUS
<1>6. /\ list' = r.list /\ links' = r.links /\ y \notin NodesOf(s, len)
      /\ member' = member \cup {y}
  BY <1>1, <1>3, <1>5 DEF DoInsertAfter, Becomes
<1>7. r.links \in Links(Nodes) /\ Along(w, len + 1, Nodes, r.list, r.links)
  BY <1>1, <1>2, <1>4, <1>5, <1>6, InsertAfterWidens
<1>8. NodesOf(w, len + 1) = member' /\ len + 1 \in Nat /\ p \in 0..len
  BY <1>1, <1>2, <1>4, <1>6, WidenedPath
<1>9. LstInv'
  BY <1>6, <1>7, <1>8 DEF LstInv
<1>10. Walk' = OrderOf(w, len + 1)
  BY <1>6, <1>7, <1>8, WalkIsOrder DEF Walk
<1>11. PutBehind(OrderOf(w, len + 1), OrderOf(s, len), len, p, y)
  BY <1>2, <1>4, <1>8, WidenedOrder
<1>12. Walk' = Sequence!InsertAt(Walk, p + 1, y)
  <2>1. (p + 1) - 1 = p
    OBVIOUS
  <2> QED
    BY <1>2, <1>10, <1>11, <2>1 DEF Sequence!InsertAt, PutBehind
<1>13. p \in DOMAIN Walk /\ Walk[p] = x
  BY <1>2, <1>3 DEF OrderOf
<1> QED
  BY <1>1, <1>2, <1>6, <1>9, <1>12, <1>13 DEF Sequence!PutAfter, Sequence!Free

LEMMA TakenOut ==
  ASSUME LstInv, NEW x \in Nodes, DoRemove(x)
  PROVE  LstInv' /\ Sequence!TakeOut(x)
<1>0. PICK len \in Nat : \E s : Along(s, len, Nodes, list, links) /\ NodesOf(s, len) = member
  BY DEF LstInv
<1>1. PICK s : Along(s, len, Nodes, list, links) /\ NodesOf(s, len) = member
  BY <1>0
<1>2. /\ links \in Links(Nodes) /\ NoNode \notin Nodes
      /\ Path(s, len, Nodes) /\ Walk = OrderOf(s, len)
      /\ Walk \in Seq(Nodes) /\ Len(Walk) = len
  BY <1>1, LstAssumption, WalkIsOrder DEF LstInv, Walk
<1>3. PICK p \in 1..len : s[p] = x
  BY <1>1 DEF DoRemove, NodesOf
<1>4. PICK w : Narrows(w, s, len, p)
  BY Paths
<1>5. PICK r : r = ListRemove(list, links, s[p])
  OBVIOUS
<1>6. list' = r.list /\ links' = r.links /\ member' = member \ {s[p]}
  BY <1>1, <1>3, <1>5 DEF DoRemove, Becomes
<1>7. r.links \in Links(Nodes) /\ Along(w, len - 1, Nodes, r.list, r.links)
  BY <1>1, <1>2, <1>4, <1>5, RemoveNarrows
<1>8. NodesOf(w, len - 1) = member' /\ len - 1 \in Nat
  BY <1>1, <1>2, <1>4, <1>6, NarrowedPath
<1>9. LstInv'
  BY <1>6, <1>7, <1>8 DEF LstInv
<1>10. Walk' = OrderOf(w, len - 1)
  BY <1>6, <1>7, <1>8, WalkIsOrder DEF Walk
<1>11. CutOut(OrderOf(w, len - 1), OrderOf(s, len), len, p)
  BY <1>2, <1>4, NarrowedOrder
<1>12. Walk' = Sequence!RemoveAt(Walk, p)
  BY <1>2, <1>10, <1>11 DEF Sequence!RemoveAt, CutOut
<1>13. p \in DOMAIN Walk /\ Walk[p] = x
  BY <1>2, <1>3 DEF OrderOf
<1> QED
  BY <1>9, <1>12, <1>13 DEF Sequence!TakeOut

LEMMA LstInvKept ==
  ASSUME LstInv, [LstNext]_lstVars
  PROVE  LstInv' /\ [Sequence!Next]_Walk
<1>1. CASE UNCHANGED lstVars
  BY <1>1 DEF LstInv, lstVars, Walk
<1>2. CASE LstNext
  BY <1>2, FirstAdded, LastAdded, InsertedAfter, TakenOut DEF LstNext, Sequence!Next
<1> QED
  BY <1>1, <1>2

LEMMA LstInvAlways == LstSpec => []LstInv
<1>1. LstInit => LstInv
  BY LstInvInit
<1>2. LstInv /\ [LstNext]_lstVars => LstInv'
  BY LstInvKept
<1> QED
  BY <1>1, <1>2, PTL DEF LstSpec

-----------------------------------------------------------------------------
(* BothWaysTheSame: LIST_FOREACH visits every member once and then meets   *)
(* null, and walking back along prev visits the same nodes in reverse.     *)
LEMMA LstInvShows == ASSUME LstInv PROVE BothWaysTheSame
<1>0. PICK len \in Nat : \E s : Along(s, len, Nodes, list, links) /\ NodesOf(s, len) = member
  BY DEF LstInv
<1>1. PICK s : Along(s, len, Nodes, list, links) /\ NodesOf(s, len) = member
  BY <1>0
<1>2. /\ Path(s, len, Nodes) /\ Threaded(s, len, links)
      /\ list = [count |-> len, first |-> s[1], last |-> s[len]]
  BY <1>1 DEF Along, HeaderOf
<1>3. Walk = [o \in 1..len |-> s[o]]
  BY <1>1, VisitedIsPath DEF Walk
<1>4. VisitedBackwards(list, links) = [o \in 1..len |-> s[len + 1 - o]]
  BY <1>1, VisitedBackwardsIsPath
<1>5. {Walk[o] : o \in 1..len} = member
  BY <1>1, <1>3 DEF NodesOf
<1>6. \A o, v \in 1..len : o # v => Walk[o] # Walk[v]
  BY <1>2, <1>3 DEF Path
<1>7. \A o \in 1..len : VisitedBackwards(list, links)[o] = Walk[len + 1 - o]
  BY <1>3, <1>4
<1>8. len > 0 => links[Walk[len]].next = NoNode /\ links[Walk[1]].prev = NoNode
  BY <1>2, <1>3 DEF Path, Threaded
<1>9. len = 0 => list = EmptyList
  BY <1>2 DEF Path, EmptyList
<1>10. list.count = len
  BY <1>2
<1> QED
  BY <1>5, <1>6, <1>7, <1>8, <1>9, <1>10 DEF BothWaysTheSame

THEOREM ListsStayWhole == LstSpec => []BothWaysTheSame
<1>1. LstInv => BothWaysTheSame
  BY LstInvShows
<1> QED
  BY <1>1, LstInvAlways, PTL

(* ImplementsSequence: every call on a list is the step of ListOrder it    *)
(* stands for, so the nodes come in the order the calls have put them in.  *)
THEOREM ListsKeepOrder == LstSpec => ImplementsSequence
<1>1. LstInit => Sequence!Init
  <2> SUFFICES ASSUME LstInit PROVE Sequence!Init
    OBVIOUS
  <2>1. LstInv
    BY LstInvInit
  <2>2. PICK len, s : len \in Nat /\ Along(s, len, Nodes, list, links)
    BY <2>1 DEF LstInv
  <2>3. len = 0
    BY <2>2 DEF LstInit, Along, HeaderOf, EmptyList
  <2>4. Walk = OrderOf(s, len)
    BY <2>2, WalkIsOrder DEF Walk
  <2> QED
    BY <2>3, <2>4 DEF OrderOf, Sequence!Init
<1>2. LstInv /\ [LstNext]_lstVars => [Sequence!Next]_Walk
  BY LstInvKept
<1> QED
  BY <1>1, <1>2, LstInvAlways, PTL DEF LstSpec, ImplementsSequence, Sequence!Spec

-----------------------------------------------------------------------------
(***************************************************************************)
(* A behaviour of the parts together is a behaviour of each of them.       *)
(***************************************************************************)
LEMMA EveryStepIsAStepOfEach ==
  ASSUME [Next]_vars
  PROVE  /\ [CalcNext]_calcVars /\ [OverflowNext]_overflowVars /\ [SecNext]_secVars
         /\ [LstNext]_lstVars /\ [SortNext]_sortVars
BY DEF Next, vars

THEOREM Parts == Spec => CalcSpec /\ OverflowSpec /\ SecSpec /\ LstSpec /\ SortSpec
<1>1. Init => CalcInit /\ OverflowInit /\ SecInit /\ LstInit /\ SortInit
  BY DEF Init
<1>2. [Next]_vars => /\ [CalcNext]_calcVars /\ [OverflowNext]_overflowVars
                     /\ [SecNext]_secVars /\ [LstNext]_lstVars /\ [SortNext]_sortVars
  BY EveryStepIsAStepOfEach
<1> QED
  BY <1>1, <1>2, PTL DEF Spec, CalcSpec, OverflowSpec, SecSpec, LstSpec, SortSpec

(* What the parts promise they keep beside each other: the macros of       *)
(* calc.h align, the checked arithmetic is exact, deadlines are valid,     *)
(* lists are whole and keep their order, arrays are sorted.                *)
THEOREM PartsAreRight ==
  Spec => /\ [](AlignIsTight /\ FoldsEveryByte /\ PrimeIsFound /\ RoundedToPowers)
          /\ [](OverflowIsExact /\ DeadlineIsValid /\ BothWaysTheSame /\ SortIsRight)
          /\ ConversionIsExact
          /\ ImplementsSequence
BY Parts, Alignment, Folding, Primes, Rounding, Exactness, ValidDeadline, ExactConversion,
   ListsStayWhole, ListsKeepOrder, Sorting, PTL
=============================================================================

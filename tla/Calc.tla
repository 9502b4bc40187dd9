-------------------------------- MODULE Calc --------------------------------
(***************************************************************************)
(* calc.h and calc.c: alignment, logarithm, power of two, the prime the    *)
(* hash tables take as their size, and the folding of strings.  The macros *)
(* return in one step; the functions take one step per round of their      *)
(* loop, on a size_t that wraps around and, where calc_find_prime computes *)
(* in double, on numbers rounded to what a double holds.  m of the         *)
(* alignment macros is a power of two, as calc.h says, so masking with m-1 *)
(* is taking the remainder by m.                                           *)
(***************************************************************************)
EXTENDS Integers, Sequences

CONSTANTS
  SizeModulus,   (* 2 to the width of size_t                               *)
  Significand,   (* 2 to the bits of a double's significand: 2^53          *)
  Inputs,        (* arguments of the functions that loop                   *)
  PrimeInputs,   (* arguments of calc_find_prime                           *)
  AlignInputs,   (* first arguments of the alignment macros                *)
  Alignments,    (* their second arguments                                 *)
  MaskModulus,   (* 2^32: calc_fold_binary masks len with 0xFFFFFFF8       *)
  FoldLengths    (* the lengths of what is folded                          *)

Size == 0 .. (SizeModulus - 1)

PowerOf2[k \in Nat] == IF k = 0 THEN 1 ELSE 2 * PowerOf2[k - 1]

ASSUME CalcAssumption ==
  /\ SizeModulus \in Nat \ {0}
  /\ \E k \in 0..SizeModulus : SizeModulus = PowerOf2[k]
  /\ SizeModulus >= 1024       (* a size_t has 16 bits at least, by C99      *)
  /\ Significand \in Nat
  /\ \E k \in 0..Significand : Significand = PowerOf2[k]
  /\ Significand >= 512        (* and a double ten decimal digits            *)
  /\ Inputs \subseteq Size \ {0}
  /\ PrimeInputs \subseteq Size
  /\ AlignInputs \subseteq Size
  /\ Alignments \subseteq Size \ {0}
  /\ \A m \in Alignments : SizeModulus % m = 0
  /\ MaskModulus \in Nat \ {0} /\ MaskModulus % 8 = 0
  /\ FoldLengths \subseteq Size

IsPrime(x) == x > 1 /\ \A d \in 2..(x - 1) : x % d # 0

(* Every size_t has primes in the last quarter of its range, and a square  *)
(* above one of them: the search of calc_find_prime never goes that far.   *)
ASSUME PrimeAssumption ==
  \E root \in Size :
    /\ root * root < SizeModulus
    /\ \E p \in Size : 4 * p > 3 * SizeModulus /\ p < root * root /\ IsPrime(p)

VARIABLES
  asked,     (* the call under way: [fn, n, m], m only for the macros        *)
  n,        (* the local n of the function                                 *)
  res,      (* its local res or pow2, and in the end what it returned      *)
  folded,    (* the bytes a calc_fold function has folded, as positions    *)
  phase      (* "idle", "running", "searching" (calc_find_prime, for a     *)
             (* number without divisors) or "returned"                     *)

calcVars == <<asked, n, res, folded, phase>>

NothingAsked == [fn |-> "none", n |-> 0, m |-> 0]

CalcInit ==
  /\ asked = NothingAsked
  /\ n = 0
  /\ res = 0
  /\ folded = <<>>
  /\ phase = "idle"

Wrap(x) == x % SizeModulus

Running(fn) == phase = "running" /\ asked.fn = fn

Answer(value) ==
  /\ res' = value
  /\ phase' = "returned"
  /\ UNCHANGED <<asked, folded>>

Begin(fn, arg, m, local, start) ==
  /\ asked' = [fn |-> fn, n |-> arg, m |-> m]
  /\ n' = local
  /\ res' = start
  /\ phase' = "running"
  /\ UNCHANGED folded

(***************************************************************************)
(* calc_align_down (calc_2pow_round) and calc_align                        *)
(***************************************************************************)
Masked(x, m) == (x \div m) * m

AlignCall ==
  /\ phase = "idle"
  /\ \E x \in AlignInputs, m \in Alignments, fn \in {"align", "align_down"} :
       Begin(fn, x, m, x, 0)

AlignDown ==
  /\ Running("align_down")
  /\ Answer(Masked(n, asked.m))
  /\ UNCHANGED n

AlignPastMultiples ==          \* mutant: adds m where the macro adds m - 1
  /\ Running("align")
  /\ Answer(Masked(Wrap(n + asked.m), asked.m))
  /\ UNCHANGED n

Align ==
  /\ Running("align")
  /\ Answer(Masked(Wrap(n + asked.m - 1), asked.m))
  /\ UNCHANGED n

(***************************************************************************)
(* calc_2_log                                                              *)
(***************************************************************************)
LogCallUnshifted ==            \* mutant: no n = n - 1
  /\ phase = "idle"
  /\ \E x \in Inputs : Begin("log", x, 0, x, 0)

LogCall ==
  /\ phase = "idle"
  /\ \E x \in Inputs : Begin("log", x, 0, x - 1, 0)

LogRound ==
  /\ Running("log")
  /\ n' = n \div 2
  /\ IF n' = 0 THEN Answer(Wrap(res + 1))
               ELSE res' = Wrap(res + 1) /\ UNCHANGED <<asked, folded, phase>>

(***************************************************************************)
(* calc_2_power_up                                                         *)
(***************************************************************************)
PowerCall ==
  /\ phase = "idle"
  /\ \E x \in Inputs : Begin("power_up", x, 0, x, 1)

PowerRoundPast ==              \* mutant: while (res <= n)
  /\ Running("power_up")
  /\ IF res <= n THEN res' = Wrap(2 * res) /\ UNCHANGED <<asked, folded, phase>>
                 ELSE Answer(res)
  /\ UNCHANGED n

PowerRound ==
  /\ Running("power_up")
  /\ IF res < n THEN res' = Wrap(2 * res) /\ UNCHANGED <<asked, folded, phase>>
                ELSE Answer(res)
  /\ UNCHANGED n

(***************************************************************************)
(* calc_find_prime.  A double holds the integers below Significand, and    *)
(* above it those that are a multiple of a power of two and less than      *)
(* Significand times it; other numbers are rounded, ties to the even one.  *)
(***************************************************************************)
Unit[x \in Nat] ==
  PowerOf2[CHOOSE k \in 0..x : /\ x < Significand * PowerOf2[k]
                               /\ k > 0 => x >= Significand * PowerOf2[k - 1]]

ToMultiple(x, unit) ==
  LET low == (x \div unit) * unit
  IN  IF 2 * (x - low) > unit \/ (2 * (x - low) = unit /\ (x \div unit) % 2 = 1)
      THEN low + unit ELSE low

Rounded[x \in Nat] == ToMultiple(x, Unit[x])

Nearest(a, b) == (2 * a + b) \div (2 * b)

(* What is behind the decimal point of the constants, which as doubles are *)
(* a number of steps of 1 / One, or for 0.95 of half that.                 *)
RANDOM_1 == 412321
RANDOM_2 == 1131347
RANDOM_3 == 132677
One == Significand \div 2
Factor(decimals) == One + Nearest(One * decimals, 10000000)
NearlyOne == Nearest(95 * Significand, 100)

(* (size_t)((double)x * factor).  A product out of the range of size_t,    *)
(* which would be undefined, is never computed: see the theorem Primes.    *)
Scaled(x, decimals) == Rounded[Rounded[x] * Factor(decimals)] \div One

(* calc_find_prime from the end of its first loop to its search.           *)
FarFromPowerOf2(x, pow2) ==
  LET high == Wrap(2 * pow2)
      y    == IF Rounded[x] * One < Factor(500000) * pow2 THEN Scaled(x, RANDOM_1) ELSE x
      z    == IF Rounded[y] * Significand > NearlyOne * high THEN Scaled(y, RANDOM_2) ELSE y
  IN  Scaled(IF z > Wrap(high - 20) THEN Wrap(z + 30) ELSE z, RANDOM_3)

PrimeCall ==
  /\ phase = "idle"
  /\ \E x \in PrimeInputs : Begin("find_prime", x, 0, Wrap(x + 100), 1)

(* The loop doubles pow2, and so does the line behind its comparison.      *)
PrimePowerRound ==
  /\ Running("find_prime")
  /\ res' = Wrap(2 * res)
  /\ IF Wrap(2 * res) < n THEN UNCHANGED <<n, phase>>
                          ELSE n' = FarFromPowerOf2(n, res) /\ phase' = "searching"
  /\ UNCHANGED <<asked, folded>>

(* i goes up as long as i * i, which wraps, is not above x.                *)
HasDivisorBelowRoot(x) ==      \* mutant: while (i * i < n)
  \E i \in 2..x : x % i = 0 /\ \A j \in 2..i : Wrap(j * j) < x

HasDivisor(x) == \E i \in 2..x : x % i = 0 /\ \A j \in 2..i : Wrap(j * j) <= x

PrimeRound ==
  /\ phase = "searching" /\ asked.fn = "find_prime"
  /\ IF HasDivisor(n) THEN n' = Wrap(n + 1) /\ UNCHANGED <<asked, res, folded, phase>>
                      ELSE Answer(n) /\ UNCHANGED n

(***************************************************************************)
(* calc_fold_string and calc_fold_binary.  calc_fold_pair mixes what is    *)
(* folded so far with the next byte; what matters is which bytes it gets,  *)
(* and in which order.  n is how far str has come.                         *)
(***************************************************************************)
FoldCall ==
  /\ phase = "idle"
  /\ \E len \in FoldLengths, fn \in {"fold_string", "fold_binary"} :
       Begin(fn, len, 0, 0, 0)

Fold(bytes) ==
  /\ folded' = folded \o [k \in 1..bytes |-> n + k - 1]
  /\ n' = n + bytes

(* The string ends behind the bytes it has.                                *)
FoldStringRound ==
  /\ Running("fold_string")
  /\ IF n < asked.n THEN Fold(1) /\ UNCHANGED <<asked, res, phase>>
                    ELSE Answer(res) /\ UNCHANGED n

FoldEndByRounding(len) == Masked(len + 7, 8)   \* mutant: str_end rounded up

FoldEnd(len) == Masked(len % MaskModulus, 8)

(* Eight bytes at a time up to str_end; then the case of len & 0x7 falls   *)
(* through to the cases below it.                                          *)
FoldBinaryRound ==
  /\ Running("fold_binary")
  /\ \/ n < FoldEnd(asked.n) /\ Fold(8) /\ UNCHANGED <<asked, res, phase>>
     \/ n >= FoldEnd(asked.n) /\ Fold(asked.n % 8)
        /\ phase' = "returned" /\ UNCHANGED <<asked, res>>

CalcForget ==
  /\ phase = "returned"
  /\ asked' = NothingAsked
  /\ n' = 0
  /\ res' = 0
  /\ folded' = <<>>
  /\ phase' = "idle"

Rounds ==
  \/ AlignDown \/ Align \/ LogRound \/ PowerRound \/ PrimePowerRound \/ PrimeRound
  \/ FoldStringRound \/ FoldBinaryRound

CalcNext == AlignCall \/ LogCall \/ PowerCall \/ PrimeCall \/ FoldCall \/ Rounds \/ CalcForget

CalcSpec == CalcInit /\ [][CalcNext]_calcVars

-----------------------------------------------------------------------------
Returned(fn) == phase = "returned" /\ asked.fn = fn

(* calc_align returns the smallest multiple of m that is not smaller than  *)
(* n, wherever a size_t can hold one; calc_align_down the biggest that is  *)
(* not bigger.                                                             *)
AlignIsTight ==
  /\ Returned("align") /\ asked.n + asked.m <= SizeModulus =>
       res % asked.m = 0 /\ res \in asked.n .. (asked.n + asked.m - 1)
  /\ Returned("align_down") =>
       res % asked.m = 0 /\ res \in (asked.n - asked.m + 1) .. asked.n

(* calc_2_log and calc_2_power_up round up to the same power of two, the  *)
(* least that reaches n (the logarithm from 2 on).                         *)
RoundedToPowers ==
  /\ Returned("log") /\ asked.n >= 2 => PowerOf2[res - 1] < asked.n /\ asked.n <= PowerOf2[res]
  /\ Returned("power_up") => /\ \E k \in 0..res : res = PowerOf2[k]
                             /\ asked.n <= res /\ res < 2 * asked.n

(* calc.h:30: "the 2-logarithm of a number, rounded upward to an integer", *)
(* for every number the assertion n > 0 lets in.                           *)
LogAsDocumented ==
  Returned("log") => asked.n <= PowerOf2[res] /\ (res > 0 => PowerOf2[res - 1] < asked.n)

(* calc_find_prime returns a prime bigger than n, although its search only *)
(* divides up to the root and starts at a number it has made up; for the   *)
(* last hundred numbers, where n + 100 wraps, a small prime, or 0 or 1.    *)
PrimeIsFound ==
  Returned("find_prime") =>
    /\ res \in {0, 1} \/ IsPrime(res)
    /\ asked.n + 100 < SizeModulus => IsPrime(res) /\ res > asked.n

(* A fold depends on every byte of its string, each folded once and in its *)
(* place, whatever the length leaves over from the rounds of eight; beyond *)
(* the 32 bits of the mask whole rounds would be skipped.                  *)
FoldsEveryByte ==
  /\ Returned("fold_string") => folded = [k \in 1..asked.n |-> k - 1]
  /\ Returned("fold_binary") /\ asked.n < MaskModulus =>
       folded = [k \in 1..asked.n |-> k - 1]

(* Every call returns, except that a calc_2_power_up of more than half the *)
(* range of size_t never does, nor a calc_find_prime from there on: res,   *)
(* and pow2, wrap to zero and stay there.                                  *)
CanReturn ==
  /\ asked.fn = "power_up" => 2 * asked.n <= SizeModulus
  /\ asked.fn = "find_prime" => 2 * Wrap(asked.n + 100) <= SizeModulus

CallsReturn == []<>~(phase \in {"running", "searching"} /\ CanReturn)
=============================================================================

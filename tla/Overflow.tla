------------------------------ MODULE Overflow ------------------------------
(***************************************************************************)
(* calc.c: the checked additions, subtractions and multiplications.  A     *)
(* calc_<op>_<type>_overflow function returns whether <op> overflows the   *)
(* type of its operands and stores the result only when it does not.       *)
(*                                                                         *)
(* The functions for 8, 16 and 32 bits compute in a type of twice the      *)
(* width; those for 64 bits have no wider type and look at the operands    *)
(* first; unsigned ones let the sum or product wrap and look afterwards.   *)
(* All are modelled at one width, w bits, so Half is 2^(w-1).              *)
(***************************************************************************)
EXTENDS Integers

CONSTANTS
  Half,           (* 2^(w-1): one more than SHRT_MAX, INT_MAX, LLONG_MAX   *)
  NarrowHalf,     (* 2^(w/2-1): what INT_MAX is to LLONG_MAX               *)
  Leftovers       (* what *result may hold before the call                 *)

Modulus == 2 * Half

HighestSigned == Half - 1
LowestSigned  == -Half

Signed   == LowestSigned .. HighestSigned
Unsigned == 0 .. (Modulus - 1)

ASSUME OverflowAssumption ==
  /\ Half \in Nat /\ Half > 1
  /\ NarrowHalf \in Nat \ {0}
  /\ Half = 2 * NarrowHalf * NarrowHalf
  /\ Leftovers \subseteq Int

VARIABLES
  call,      (* the call under way, or NoCall                              *)
  overflow,  (* what it returned                                           *)
  result,    (* *result                                                    *)
  step       (* "idle", "called" or "returned"                             *)

overflowVars == <<call, overflow, result, step>>

NoCall == [fn |-> "none", a |-> 0, b |-> 0, before |-> 0]

SignedCalls   == {"add_s", "sub_s", "mul_s", "add_s64", "sub_s64", "mul_s64"}
UnsignedCalls == {"add_u", "sub_u", "mul_u", "mul_u64"}

OverflowInit ==
  /\ call = NoCall
  /\ overflow = FALSE
  /\ result = 0
  /\ step = "idle"

(* A caller passes two operands of the type and the place for the result.  *)
CallOn(fns, type) ==
  /\ step = "idle"
  /\ \E fn \in fns, a, b \in type, before \in Leftovers :
       /\ call' = [fn |-> fn, a |-> a, b |-> b, before |-> before]
       /\ result' = before
  /\ step' = "called"
  /\ UNCHANGED overflow

Call == CallOn(SignedCalls, Signed) \/ CallOn(UnsignedCalls, Unsigned)

Return(fn, overflows, value) ==
  /\ step = "called"
  /\ call.fn = fn
  /\ overflow' = overflows
  /\ result' = IF overflows THEN result ELSE value
  /\ step' = "returned"
  /\ UNCHANGED call

(***************************************************************************)
(* What arithmetic and conversions of C do: an unsigned type of modulus m  *)
(* wraps around, a conversion to a signed one does as well, a division     *)
(* truncates towards zero (it is only ever asked for with operands whose   *)
(* quotient exists).                                                       *)
(***************************************************************************)
Wrapped(x, m) == x % m

SignedWrapped(x, m) == ((x + m \div 2) % m) - m \div 2

Abs(x) == IF x < 0 THEN -x ELSE x

Quotient(x, y) ==
  LET q == Abs(x) \div Abs(y)
  IN  IF (x < 0) = (y < 0) THEN q ELSE -q

(***************************************************************************)
(* s8, s16, s32 (with CHAR_MAX and CHAR_MIN those of a signed char)        *)
(***************************************************************************)
DoubleWidth(exact) == SignedWrapped(exact, Modulus * Modulus)

OutOfRange(res) == res > HighestSigned \/ res < LowestSigned

AddS ==
  LET res == DoubleWidth(call.a + call.b)
  IN  Return("add_s", OutOfRange(res), SignedWrapped(res, Modulus))

SubS ==
  LET res == DoubleWidth(call.a - call.b)
  IN  Return("sub_s", OutOfRange(res), SignedWrapped(res, Modulus))

MulS ==
  LET res == DoubleWidth(call.a * call.b)
  IN  Return("mul_s", OutOfRange(res), SignedWrapped(res, Modulus))

(***************************************************************************)
(* s64                                                                     *)
(***************************************************************************)
AddOverflows(a, b) ==
  \/ a > 0 /\ b > 0 /\ a > HighestSigned - b
  \/ a < 0 /\ b < 0 /\ a < LowestSigned - b

AddS64 ==
  Return("add_s64", AddOverflows(call.a, call.b),
         SignedWrapped(call.a + call.b, Modulus))

SubOverflowsAboveZero(a, b) ==   \* mutant: a > 0 where the code has a >= 0
  \/ a < 0 /\ b > 0 /\ a < LowestSigned + b
  \/ a > 0 /\ b < 0 /\ a > HighestSigned + b

SubOverflows(a, b) ==
  \/ a < 0 /\ b > 0 /\ a < LowestSigned + b
  \/ a >= 0 /\ b < 0 /\ a > HighestSigned + b

SubS64 ==
  Return("sub_s64", SubOverflows(call.a, call.b),
         SignedWrapped(call.a - call.b, Modulus))

Narrow(x) == x <= NarrowHalf - 1 /\ x >= -NarrowHalf

MulOverflows(a, b) ==
  /\ ~(Narrow(a) /\ Narrow(b))
  /\ a # 0 /\ a # 1 /\ b # 0 /\ b # 1
  /\ \/ a > 0 /\ b > 0 /\ a > Quotient(HighestSigned, b)
     \/ a > 0 /\ b < 0 /\ b < Quotient(LowestSigned, a)
     \/ a < 0 /\ b > 0 /\ a < Quotient(LowestSigned, b)
     \/ a < 0 /\ b < 0 /\ a < Quotient(HighestSigned, b)

MulS64 ==
  Return("mul_s64", MulOverflows(call.a, call.b),
         SignedWrapped(call.a * call.b, Modulus))

(***************************************************************************)
(* u8, u16, u32, u64; the u64 multiplication has no wider type             *)
(***************************************************************************)
AddU ==
  LET res == Wrapped(call.a + call.b, Modulus)
  IN  Return("add_u", res < call.a, res)

SubU ==
  Return("sub_u", call.b > call.a, Wrapped(call.a - call.b, Modulus))

MulU ==
  LET res == Wrapped(call.a * call.b, Modulus * Modulus)
  IN  Return("mul_u", res > Modulus - 1, Wrapped(res, Modulus))

MulU64 ==
  LET res == Wrapped(call.a * call.b, Modulus)
  IN  Return("mul_u64", call.a # 0 /\ call.b # res \div call.a, res)

OverflowForget ==
  /\ step = "returned"
  /\ call' = NoCall
  /\ overflow' = FALSE
  /\ result' = 0
  /\ step' = "idle"

OverflowNext ==
  \/ Call \/ OverflowForget
  \/ AddS \/ SubS \/ MulS
  \/ AddS64 \/ SubS64 \/ MulS64
  \/ AddU \/ SubU \/ MulU \/ MulU64

OverflowSpec == OverflowInit /\ [][OverflowNext]_overflowVars
-----------------------------------------------------------------------------
TypeOf(fn) == IF fn \in SignedCalls THEN Signed ELSE Unsigned

Exact(c) ==
  IF c.fn \in {"add_s", "add_s64", "add_u"} THEN c.a + c.b
  ELSE IF c.fn \in {"sub_s", "sub_s64", "sub_u"} THEN c.a - c.b
  ELSE c.a * c.b

(* Every function reports an overflow exactly when the mathematical result *)
(* is not a value of the type; otherwise it has stored that result, and    *)
(* after an overflow *result is what it was before the call.               *)
OverflowIsExact ==
  step = "returned" =>
    /\ overflow <=> Exact(call) \notin TypeOf(call.fn)
    /\ result = IF overflow THEN call.before ELSE Exact(call)
=============================================================================

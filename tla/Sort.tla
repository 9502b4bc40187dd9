-------------------------------- MODULE Sort --------------------------------
(***************************************************************************)
(* sort.c: bubble_sort, selection_sort, insertion_sort and shell_sort, one *)
(* step per round of an inner loop or turn of an outer one.  insertion_    *)
(* sort is the inner part of shell_sort with a gap of 1.  The six other    *)
(* functions sort.h declares have no body.                                 *)
(***************************************************************************)
EXTENDS Integers

CONSTANTS
  Numbers,    (* what the arrays hold                                      *)
  MaxSize     (* bound: the longest array                                  *)

ASSUME SortAssumption ==
  /\ Numbers \subseteq Int
  /\ MaxSize \in Nat

VARIABLES
  sorter,     (* the function that runs or has returned                    *)
  size,       (* its argument                                              *)
  array,      (* the array, numbered from 0                                *)
  given,      (* ghost: the array as the caller passed it                  *)
  i, j,       (* the locals i and j                                        *)
  min,        (* the local min of selection_sort                           *)
  tmp,        (* the local tmp of insertion_sort and shell_sort            *)
  gap,        (* the local gap of shell_sort, 1 in insertion_sort          *)
  at          (* "idle", "outer" loop, "inner" loop or "returned"          *)

sortVars == <<sorter, size, array, given, i, j, min, tmp, gap, at>>

Sorters == {"bubble", "selection", "insertion", "shell"}

Indices == 0 .. (size - 1)

SortInit ==
  /\ sorter = "bubble"
  /\ size = 0
  /\ array = [k \in {} |-> 0]
  /\ given = [k \in {} |-> 0]
  /\ i = 0 /\ j = 0 /\ min = 0 /\ tmp = 0 /\ gap = 0
  /\ at = "idle"

Swapped(a, x, y) == [a EXCEPT ![x] = a[y], ![y] = a[x]]

SortReturns == at' = "returned" /\ UNCHANGED <<array, i, j, min, tmp, gap>>

(* Where the loops start: for an array of one number or none they do not.  *)
SortCall ==
  /\ at = "idle"
  /\ sorter' \in Sorters
  /\ size' \in 0 .. MaxSize
  /\ given' \in [0 .. (size' - 1) -> Numbers]
  /\ array' = given'
  /\ gap' = IF sorter' = "shell" THEN size' \div 2 ELSE 1
  /\ i' = IF sorter' \in {"insertion", "shell"} THEN gap' ELSE 0
  /\ j' = 0
  /\ at' = "outer"
  /\ UNCHANGED <<min, tmp>>

Runs(fn, loop) == sorter \in fn /\ at = loop

(***************************************************************************)
(* bubble_sort                                                             *)
(***************************************************************************)
BubbleOuter ==
  /\ Runs({"bubble"}, "outer")
  /\ IF i < size - 1
     THEN j' = 0 /\ at' = "inner" /\ UNCHANGED <<array, i, min, tmp, gap>>
     ELSE SortReturns

BubbleInnerShort ==            \* mutant: j < size - i - 2
  /\ Runs({"bubble"}, "inner")
  /\ IF j < size - i - 2
     THEN /\ array' = IF array[j] > array[j + 1] THEN Swapped(array, j, j + 1) ELSE array
          /\ j' = j + 1
          /\ UNCHANGED <<i, at>>
     ELSE i' = i + 1 /\ at' = "outer" /\ UNCHANGED <<array, j>>
  /\ UNCHANGED <<min, tmp, gap>>

BubbleInner ==
  /\ Runs({"bubble"}, "inner")
  /\ IF j < size - i - 1
     THEN /\ array' = IF array[j] > array[j + 1] THEN Swapped(array, j, j + 1) ELSE array
          /\ j' = j + 1
          /\ UNCHANGED <<i, at>>
     ELSE i' = i + 1 /\ at' = "outer" /\ UNCHANGED <<array, j>>
  /\ UNCHANGED <<min, tmp, gap>>

(***************************************************************************)
(* selection_sort                                                          *)
(***************************************************************************)
SelectionOuter ==
  /\ Runs({"selection"}, "outer")
  /\ IF i < size - 1
     THEN min' = i /\ j' = i + 1 /\ at' = "inner" /\ UNCHANGED <<array, i, tmp, gap>>
     ELSE SortReturns

SelectionInner ==
  /\ Runs({"selection"}, "inner")
  /\ IF j < size
     THEN /\ min' = IF array[j] < array[min] THEN j ELSE min
          /\ j' = j + 1
          /\ UNCHANGED <<array, i, at>>
     ELSE /\ array' = Swapped(array, min, i)
          /\ i' = i + 1
          /\ at' = "outer"
          /\ UNCHANGED <<j, min>>
  /\ UNCHANGED <<tmp, gap>>

(***************************************************************************)
(* insertion_sort, shell_sort                                              *)
(***************************************************************************)
NextGapUpwards ==              \* mutant: gap = (gap + 1) >> 1
  IF sorter = "insertion" THEN 0 ELSE (gap + 1) \div 2

NextGap == IF sorter = "insertion" THEN 0 ELSE gap \div 2

GapOuter ==
  /\ Runs({"insertion", "shell"}, "outer")
  /\ \/ gap > 0 /\ i < size
        /\ tmp' = array[i] /\ j' = i - gap /\ at' = "inner"
        /\ UNCHANGED <<array, i, min, gap>>
     \/ gap > 0 /\ i >= size
        /\ gap' = NextGap /\ i' = gap'
        /\ UNCHANGED <<array, j, min, tmp, at>>
     \/ gap = 0 /\ SortReturns

GapInner ==
  /\ Runs({"insertion", "shell"}, "inner")
  /\ IF j >= 0 /\ array[j] > tmp
     THEN /\ array' = [array EXCEPT ![j + gap] = array[j]]
          /\ j' = j - gap
          /\ UNCHANGED <<i, at>>
     ELSE /\ array' = [array EXCEPT ![j + gap] = tmp]
          /\ i' = i + 1
          /\ at' = "outer"
          /\ UNCHANGED j
  /\ UNCHANGED <<min, tmp, gap>>

SortStep ==
  /\ BubbleOuter \/ BubbleInner \/ SelectionOuter \/ SelectionInner \/ GapOuter \/ GapInner
  /\ UNCHANGED <<sorter, size, given>>

(* The caller goes on; its next call is independent of this one.           *)
SortForget ==
  /\ at = "returned"
  /\ sorter' = "bubble" /\ size' = 0
  /\ array' = [k \in {} |-> 0] /\ given' = [k \in {} |-> 0]
  /\ i' = 0 /\ j' = 0 /\ min' = 0 /\ tmp' = 0 /\ gap' = 0
  /\ at' = "idle"

SortNext == SortCall \/ SortStep \/ SortForget

SortSpec == SortInit /\ [][SortNext]_sortVars
-----------------------------------------------------------------------------
Ascending(a, lo, hi) == \A x, y \in lo..hi : x <= y => a[x] <= a[y]

(* a holds what b holds, in some order: p takes every place of a to a      *)
(* place of b of its own.                                                  *)
Rearranges(a, b, s) ==
  \E p \in [0..(s - 1) -> 0..(s - 1)] :
    /\ \A x, y \in 0..(s - 1) : p[x] = p[y] => x = y
    /\ \A x \in 0..(s - 1) : a[x] = b[p[x]]

(* Every sorting function returns with the numbers it was given, each as   *)
(* often as it was there, in ascending order.                              *)
SortIsRight ==
  at = "returned" => Ascending(array, 0, size - 1) /\ Rearranges(array, given, size)

(* Every call of a sorting function returns.                               *)
SortsReturn == []<>(at \in {"idle", "returned"})
=============================================================================

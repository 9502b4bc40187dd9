----------------------------- MODULE Utilities -----------------------------
(***************************************************************************)
(* The parts of the library that share no state: the macros of lst.h, the  *)
(* arithmetic of calc.c and sec.c and the sorting functions of sort.c.     *)
(* What one of them does leaves the variables of the others alone.         *)
(*                                                                         *)
(* Because they are independent, a behaviour in which several of them move *)
(* shows nothing a behaviour of one would not: part, chosen in the initial *)
(* state, says which one the client uses.                                  *)
(***************************************************************************)
EXTENDS Calc, Overflow, Sec, Lst, Sort

VARIABLE part    (* bound: the only part that moves                        *)

vars == <<calcVars, overflowVars, secVars, lstVars, sortVars, part>>

Init ==
  /\ CalcInit /\ OverflowInit /\ SecInit /\ LstInit /\ SortInit
  /\ part \in {"calc", "overflow", "sec", "lst", "sort"}

Next ==
  /\ \/ /\ part = "calc" /\ CalcNext
        /\ UNCHANGED <<overflowVars, secVars, lstVars, sortVars>>
     \/ /\ part = "overflow" /\ OverflowNext
        /\ UNCHANGED <<calcVars, secVars, lstVars, sortVars>>
     \/ /\ part = "sec" /\ SecNext
        /\ UNCHANGED <<calcVars, overflowVars, lstVars, sortVars>>
     \/ /\ part = "lst" /\ LstNext
        /\ UNCHANGED <<calcVars, overflowVars, secVars, sortVars>>
     \/ /\ part = "sort" /\ SortNext
        /\ UNCHANGED <<calcVars, overflowVars, secVars, lstVars>>
  /\ UNCHANGED part

Spec == Init /\ [][Next]_vars

(* A function that is running goes on running.                             *)
FairSpec ==
  /\ Spec
  /\ WF_vars(part = "calc" /\ Rounds /\ UNCHANGED <<overflowVars, secVars, lstVars, sortVars, part>>)
  /\ WF_vars(part = "sort" /\ SortStep /\ UNCHANGED <<calcVars, overflowVars, secVars, lstVars, part>>)
=============================================================================

-------------------------------- MODULE MCDyn --------------------------------
(* Dyn with blocks of eight bytes and bytes of two bits: see MCDyn.cfg and *)
(* MCDynAssertions.cfg.  The two fields of a width differ in their order   *)
(* from the first byte on or only in a later one, in every half.           *)
EXTENDS Dyn, FiniteSets, TLC

MCFields ==
  {[width |-> 1, value |-> v] : v \in {1, 3}}
    \cup {[width |-> 2, value |-> v] : v \in {2 * 4 + 1, 1 * 4 + 2}}
    \cup {[width |-> 4, value |-> v] : v \in {3 * 64 + 1, 1 * 64 + 2 * 16 + 3}}
    \cup {[width |-> 8, value |-> v] :
            v \in {2 * 4096 + 3, 3 * 256 + 4^7}}

MCStrings == {<<2>>, <<0, 1, 2>>, <<1, 2, 3, 0, 1, 2, 3, 0, 1>>}

MCSymmetry == Permutations(Arrays)
=============================================================================

-------------------------------- MODULE MCVec --------------------------------
(* Vec on a small instance: see MCVec.cfg and MCVecAssertions.cfg.  The    *)
(* vectors are alike and so are the values.                                *)
EXTENDS Vec, TLC

MCBlocks   == 1 .. (Cardinality(Vectors) + 1)
MCSymmetry == Permutations(Vectors) \cup Permutations(Values)
=============================================================================

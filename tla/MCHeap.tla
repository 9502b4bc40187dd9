------------------------------- MODULE MCHeap -------------------------------
(* Heap on a small instance: see the MCHeap*.cfg files.                    *)
EXTENDS Heap, TLC

Symmetry == Permutations(Blocks)
=============================================================================

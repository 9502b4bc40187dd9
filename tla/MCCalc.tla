------------------------------- MODULE MCCalc -------------------------------
(* Calc alone, its logarithm on a small instance: see MCCalcLog.cfg.       *)
EXTENDS Calc

MCInputs == 1 .. (SizeModulus - 1)
=============================================================================

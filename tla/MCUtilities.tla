---------------------------- MODULE MCUtilities ----------------------------
(* The independent parts on small instances: see MCUtilities.cfg.          *)
EXTENDS Utilities

MCInputs      == 1 .. (SizeModulus - 1)
MCPrimeInputs == 0 .. (SizeModulus - 1)
MCAlignInputs == 0 .. 255
MCAlignments  == {1, 2, 4, 8, 16, 32, 64, 128}
MCFoldLengths == 0 .. 130
MCTimes       == 0 .. 12
MCDelays      == 0 .. 11
=============================================================================

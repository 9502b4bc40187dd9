------------------------------ MODULE MCEvent -------------------------------
(* Event on a small instance: see MCEvent.cfg.                           *)
EXTENDS Event

CONSTANTS t1, t2, t3

MCThreads == {t1, t2, t3}
=============================================================================

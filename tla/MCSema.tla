------------------------------- MODULE MCSema -------------------------------
(* Sema on a small instance: see MCSema.cfg.                             *)
EXTENDS Sema

CONSTANTS t1, t2, t3

MCThreads == {t1, t2, t3}
=============================================================================

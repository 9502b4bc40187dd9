------------------------------- MODULE MCHash -------------------------------
(* Hash on a small instance: see MCHash.cfg.                               *)
EXTENDS Hash

MCNodes  == 1..4
MCKeys   == 1..3
MCKeyOf  == <<1, 1, 2, 3>>
MCHashOf == <<3, 5, 10>>
=============================================================================

----------------------------- MODULE RussConnMC -----------------------------
(* Instances of RussConn for TLC. *)
EXTENDS RussConn, TLC

Sym == Permutations(Conns)
=============================================================================

----------------------------- MODULE MCEntropy -----------------------------
(***************************************************************************)
(* Entropy with three threads that ask for up to two bytes, again and again, *)
(* and one descriptor more than there are threads.                         *)
(***************************************************************************)
EXTENDS Entropy
FourFds == 1..4
=============================================================================

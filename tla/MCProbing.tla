----------------------------- MODULE MCProbing -----------------------------
(***************************************************************************)
(* Probing of two peers with two samples: the second half of the exchanges *)
(* is phase 2.  Peers that lay packets out as the code does can answer.    *)
(***************************************************************************)
EXTENDS Probing
BothFormats == {"documented", "as_coded"}
=============================================================================

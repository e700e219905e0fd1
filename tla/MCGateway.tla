----------------------------- MODULE MCGateway -----------------------------
(***************************************************************************)
(* Gateway with two attempts that may be handed the same socket number.    *)
(***************************************************************************)
EXTENDS Gateway
=============================================================================

------------------------------- MODULE MCHole -------------------------------
(***************************************************************************)
(* Hole on small instances: peer A behind a NAT that lets any sender in,   *)
(* peer B behind one that only admits addresses B has sent to.  The send   *)
(* interval is two units of time; an attempt has no timeout or one of as   *)
(* much.                                                                   *)
(***************************************************************************)
EXTENDS Hole
OpenPeers == {"A"}
Timeouts02 == {0, 2}
=============================================================================

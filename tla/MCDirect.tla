------------------------------ MODULE MCDirect ------------------------------
(***************************************************************************)
(* Direct on small instances: two calls, so that answers to the first can  *)
(* come to the second on the same socket number.  The peers given are an   *)
(* IPv6 one, spelled as the system does or otherwise, one whose address no *)
(* parser takes, and one without a port.  The longest budget but one is    *)
(* among the timeouts.                                                     *)
(***************************************************************************)
EXTENDS Direct

Proper == [family |-> "inet6", ip |-> "inet6", text |-> "canonical", port |-> 1]
SomeTargets == {Proper, [Proper EXCEPT !.text = "other"], [Proper EXCEPT !.ip = "none"],
                [Proper EXCEPT !.port = 0]}
AllKinds == {"ipv6", "predict", "mirror"}
=============================================================================

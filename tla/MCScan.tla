------------------------------- MODULE MCScan -------------------------------
(***************************************************************************)
(* Scan on small instances.  A home network with global IPv6; a cafe       *)
(* behind a gateway of the same address but another prefix, whose IPv6     *)
(* address is link-local; a host with no gateway; one with only loopback.  *)
(* Half-second ticks: the truncation of ages to whole seconds shows.       *)
(***************************************************************************)
EXTENDS Scan

If(name, usable, family, addr) ==
  [name |-> name, usable |-> usable, family |-> family, addr |-> addr]
Lo == If("lo", FALSE, "INET", "127")

Home    == [listed |-> TRUE, gateway |-> "gw1",
            ifaces |-> <<Lo, If("eth", TRUE, "INET", "net1"), If("eth", TRUE, "INET6", "global")>>]
Cafe    == [listed |-> TRUE, gateway |-> "gw1",
            ifaces |-> <<If("wlan", TRUE, "INET6", "link"), If("wlan", TRUE, "INET", "net2"), Lo>>]
Stub    == [listed |-> TRUE, gateway |-> None, ifaces |-> <<If("eth", TRUE, "INET6", "global")>>]
Offline == [listed |-> TRUE, gateway |-> None, ifaces |-> <<Lo>>]

AllNames == {None, "gw1", "net1", "net2", "a", "b", "c"}
AllNetworks == {Home, Cafe, Stub, Offline}

Base == [fp |-> "a", scan |-> TRUE, cache |-> TRUE, early |-> TRUE, strike |-> TRUE,
         ttl |-> 1, storage |-> TRUE]

AllConfigs == {Base, [Base EXCEPT !.fp = "b", !.early = FALSE, !.ttl = 0],
               [Base EXCEPT !.fp = "c", !.scan = FALSE]}
=============================================================================

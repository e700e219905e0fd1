------------------------------- MODULE MCRace -------------------------------
(***************************************************************************)
(* Race on small instances.  The contexts: nothing known, everything       *)
(* allowed, a router-only network, a traversal-only one, and a home        *)
(* network with global IPv6.  The unit of time is a second, more or less.  *)
(***************************************************************************)
EXTENDS Race

Everything == ContextField
RouterOnly == {"upnp_available", "natpmp_available"}
Traversal  == {"peer_reachable", "port_predictable"}
HomeIpv6   == {"ipv6_present", "ipv6_global", "peer_has_ipv6",
               "natpmp_available", "peer_reachable"}

AllContexts == {{}, Everything, RouterOnly, Traversal, HomeIpv6}

\* Limits that end within the overhead but for upnp's.
Limits     == [w \in Unlimited |-> IF w = "UPNP" THEN 2 ELSE 1]
=============================================================================

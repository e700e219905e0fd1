------------------------------- MODULE Weapon -------------------------------
(***************************************************************************)
(* The weapon catalog of src/src/api/weapon.c: the traversal techniques    *)
(* ("weapons"), their flags, their priority, and the rule that decides     *)
(* whether a weapon is worth trying in a given network context.  Pure:     *)
(* no state.  Race and Selection are built on it.                          *)
(***************************************************************************)
EXTENDS Naturals

Weapons == {"IPV6", "LAN", "UPNP", "NATPMP", "PCP", "HOLE", "PREDICT",
            "BIRTHDAY", "MIRROR", "RELAY", "UPGRADE"}
NoWeapon == "NONE"

\* The flag column of g_weapon_table, as the set of weapons carrying a flag.
NeedsIpv6     == {"IPV6"}
NeedsGlobalV6 == {"IPV6"}
NeedsUpnp     == {"UPNP"}
NeedsNatpmp   == {"NATPMP"}
NeedsPcp      == {"PCP"}
NeedsPeer     == {"HOLE", "PREDICT", "BIRTHDAY", "MIRROR", "RELAY", "UPGRADE"}
Aggressive    == {"BIRTHDAY", "UPGRADE"}

\* g_priority: 1 is tried first.
Priority ==
  [w \in Weapons |->
    CASE w = "IPV6"    -> 1  [] w = "LAN"    -> 2 [] w = "UPNP"  -> 3
      [] w = "NATPMP"  -> 4  [] w = "PCP"    -> 5 [] w = "HOLE"  -> 6
      [] w = "PREDICT" -> 7  [] w = "MIRROR" -> 8 [] w = "RELAY" -> 9
      [] w = "UPGRADE" -> 10 [] OTHER -> 11]

\* xury_weapon_context_t: what the scan learned about the network.
ContextField == {"allow_aggressive", "ipv6_present", "ipv6_global",
                 "peer_has_ipv6", "upnp_available", "natpmp_available",
                 "pcp_available", "peer_reachable", "helper_available",
                 "peer_is_lan", "port_predictable", "symmetric", "cgnat"}

\* A context is the set of its fields that are true.
Context == SUBSET ContextField

\* The weapon-specific rules after the flag checks.
ExtraRule(w, ctx) ==
  /\ w = "LAN"      => "peer_is_lan" \in ctx
  /\ w = "PREDICT"  => "port_predictable" \in ctx
  /\ w = "BIRTHDAY" => ctx \cap {"symmetric", "cgnat"} # {}
  /\ w \in {"RELAY", "UPGRADE"} => "helper_available" \in ctx
  /\ w = "MIRROR"   => ctx \cap {"helper_available", "peer_reachable"} # {}

\* xury_weapon_applicable with a context.
Applicable(w, ctx) ==
  /\ w \in Aggressive    => "allow_aggressive" \in ctx
  /\ w \in NeedsIpv6     => "ipv6_present" \in ctx
  /\ w \in NeedsGlobalV6 => {"ipv6_global", "peer_has_ipv6"} \subseteq ctx
  /\ w \in NeedsUpnp     => "upnp_available" \in ctx
  /\ w \in NeedsNatpmp   => "natpmp_available" \in ctx
  /\ w \in NeedsPcp      => "pcp_available" \in ctx
  /\ w \in NeedsPeer     => ctx \cap {"peer_reachable", "helper_available"} # {}
  /\ ExtraRule(w, ctx)

ApplicableMask(ctx) == {w \in Weapons : Applicable(w, ctx)}
=============================================================================

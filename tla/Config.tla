------------------------------- MODULE Config -------------------------------
(***************************************************************************)
(* A host's configuration: src/src/api/config.c.  What a host hands in is  *)
(* validated, completed with defaults and normalized; the fingerprint of   *)
(* the result is part of the scan cache's key.  A configuration is a       *)
(* record                                                                  *)
(*   version    0, or the version of the struct the host was compiled with *)
(*   strategy   the strategy forced                                        *)
(*   weapons    the set of enabled weapons (its bits)                      *)
(*   numbers    the twelve bounded numbers, by name                        *)
(*   flags      the set of features switched on                            *)
(*   iface      the interface to use, or "unterminated"                    *)
(*   port       the local port                                             *)
(*   allocator, storage   the sets of callbacks installed                  *)
(***************************************************************************)
EXTENDS Integers, Weapon

VERSION == 1

\* The bounds and defaults of the numbers: least, largest, default.
Bounds ==
  [scan    |-> <<100, 60000, 1500>>,   sensing |-> <<50, 10000, 500>>,
   probing |-> <<50, 10000, 1000>>,    strike  |-> <<100, 60000, 5000>>,
   blitz   |-> <<100, 120000, 15000>>, connect |-> <<100, 300000, 30000>>,
   mapping |-> <<100, 30000, 3000>>,   mirror  |-> <<100, 30000, 3000>>,
   relay   |-> <<100, 60000, 5000>>,   parallel |-> <<1, 64, 8>>,
   ttl     |-> <<60, 86400, 3600>>,    samples |-> <<1, 100, 5>>]
NumberNames == DOMAIN Bounds

Strategies == {"AUTO", "IPV6", "LAN", "UPNP", "NATPMP", "PCP", "PUNCH", "PREDICT",
               "MIRROR", "RELAY", "BLITZ"}
DEFAULT_WEAPONS == Weapons \ {"BIRTHDAY", "UPGRADE"}

Flags == {"scan", "strike", "blitz", "early_term", "cache", "learning", "sweet",
          "sweet_aggressive", "mirror", "relay", "relay_upgrade"}

Allocator == {"malloc", "realloc", "free"}
Storage   == {"load", "save"}
-----------------------------------------------------------------------------
strategy_valid(s) == s \in Strategies
interface_terminated(iface) == iface # "unterminated"
\* The bit of "no weapon" and the bits above the last weapon are refused.
weapon_mask_valid(mask) == mask \subseteq Weapons

config_validate(cfg) ==
  /\ cfg.version \in {0, VERSION}
  /\ strategy_valid(cfg.strategy)
  /\ weapon_mask_valid(cfg.weapons)
  /\ \A n \in NumberNames : cfg.numbers[n] = 0 \/ cfg.numbers[n] \in Bounds[n][1]..Bounds[n][2]
  /\ interface_terminated(cfg.iface)
  /\ cfg.allocator \in {{}, Allocator}
  /\ cfg.storage \in {{}, Storage}

\* A version of 0 is taken for a struct of zeros, whose features are on.
config_apply_defaults(cfg) ==
  [cfg EXCEPT
     !.version = VERSION,
     !.weapons = IF cfg.weapons = {} THEN DEFAULT_WEAPONS ELSE cfg.weapons,
     !.flags   = IF cfg.version = 0 THEN Flags \ {"sweet_aggressive"} ELSE cfg.flags,
     !.numbers = [n \in NumberNames |->
                    IF cfg.numbers[n] = 0 THEN Bounds[n][3] ELSE cfg.numbers[n]]]

config_clamp(v, lo, hi) == IF v < lo THEN lo ELSE IF v > hi THEN hi ELSE v

ClampNumbers(cfg) ==
  [cfg EXCEPT !.numbers =
     [n \in NumberNames |-> config_clamp(cfg.numbers[n], Bounds[n][1], Bounds[n][2])]]

\* Aggressive weapons need the host's consent.
RequireConsent(cfg) ==
  [cfg EXCEPT !.weapons =
     IF "sweet_aggressive" \in cfg.flags THEN @ ELSE @ \ {"BIRTHDAY", "UPGRADE"}]

\* What cannot work is switched off: sweet without a punch or prediction,
\* upgrading without a relay, striking without a weapon.
SwitchOff(cfg) ==
  [cfg EXCEPT !.flags =
     @ \ ((IF cfg.weapons \cap {"HOLE", "PREDICT"} = {} THEN {"sweet"} ELSE {})
          \cup (IF "relay" \in cfg.flags THEN {} ELSE {"relay_upgrade"})
          \cup (IF cfg.weapons = {} THEN {"blitz", "strike"} ELSE {}))]

\* Fault: the consent is asked for last.
ConsentLast(cfg) == RequireConsent(SwitchOff(ClampNumbers(cfg)))

config_normalize(cfg) == SwitchOff(RequireConsent(ClampNumbers(cfg)))

\* What the library works with.
Prepared(cfg) == config_normalize(config_apply_defaults(cfg))

config_weapon_enabled(cfg, w) == w \in Weapons /\ w \in cfg.weapons
effective_connect_timeout(cfg) ==
  IF cfg.numbers.connect = 0 THEN Bounds.connect[3] ELSE cfg.numbers.connect

\* The fields the hash is fed, in the place of their hash: all but the
\* callbacks.
config_fingerprint(cfg) ==
  [version |-> cfg.version, weapons |-> cfg.weapons, strategy |-> cfg.strategy,
   flags |-> cfg.flags, numbers |-> cfg.numbers, iface |-> cfg.iface, port |-> cfg.port]
-----------------------------------------------------------------------------
\* What a host may hand in; NoWeapon stands for a bit that is no weapon's.
Configurations ==
  [version : Nat, strategy : STRING, weapons : SUBSET (Weapons \cup {NoWeapon}),
   numbers : [NumberNames -> Nat], flags : SUBSET Flags, iface : STRING, port : Nat,
   allocator : SUBSET Allocator, storage : SUBSET Storage]

(* What the library may rely on in a prepared configuration: it would pass *)
(* the validation again, no number is left to a default, and no feature is *)
(* on whose means are missing (config.c:422-542).                          *)
Sound(cfg) ==
  /\ config_validate(cfg)
  /\ \A n \in NumberNames : cfg.numbers[n] # 0
  /\ cfg.weapons \cap {"BIRTHDAY", "UPGRADE"} # {} => "sweet_aggressive" \in cfg.flags
  /\ "relay_upgrade" \in cfg.flags => "relay" \in cfg.flags
  /\ cfg.flags \cap {"strike", "blitz"} # {} => cfg.weapons # {}
  /\ "sweet" \in cfg.flags => cfg.weapons \cap {"HOLE", "PREDICT"} # {}
=============================================================================

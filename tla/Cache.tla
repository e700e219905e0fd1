-------------------------------- MODULE Cache --------------------------------
(***************************************************************************)
(* The scan cache (src/smart/cache.c): one slot of the host's storage,     *)
(* tagged with the network it belongs to and the monotonic time it was     *)
(* saved at.  The functions are pure in the slot and the clock; Scan owns  *)
(* both.  The blob's bytes are left out: a slot that load refuses before   *)
(* or while decoding it (too long, short, wrong magic or version) is       *)
(* "garbage".  The two weapon bitmaps are always stored as zero.           *)
(***************************************************************************)
EXTENDS Naturals

CONSTANTS Second,      \* ticks of the clock in a second
          Names        \* fingerprints, addresses, prefixes

None == "none"

ASSUME SecondAssumption == Second \in Nat \ {0}
ASSUME NamesAssumption == None \in Names

\* A network fingerprint: the config's, the gateway and the /24 prefix.
\* NoKey is the key 0 that disables the cache.
Keys  == [fp : Names, gateway : Names, prefix : Names]
NoKey == [fp |-> None, gateway |-> None, prefix |-> None]

\* A slot that holds no entry: nothing saved, invalidated, or damaged.
Blank(kind) == [kind |-> kind, key |-> NoKey, nat |-> "UNKNOWN", saved |-> 0]

\* What xury_smart_cache_store writes.
Entry(key, nat, now) ==
  [kind |-> "entry", key |-> key, nat |-> nat, saved |-> now]

\* The slot decodes and is this network's.  Fault: any entry will do.
AnyEntry(slot, key) == slot.kind = "entry" /\ key # NoKey
Belongs(slot, key) ==
  /\ key # NoKey
  /\ slot.kind = "entry"
  /\ slot.key = key

\* Whole seconds since the entry was saved, when the clock can tell.
Age(slot, now) == (now - slot.saved) \div Second

\* A clock behind the saved time attests nothing; ttl 0 never expires.
Fresh(slot, ttl, now) ==
  /\ now >= slot.saved
  /\ ttl # 0 => Age(slot, now) <= ttl

NotLoaded == [loaded |-> FALSE, valid |-> FALSE, status |-> "SKIPPED", nat |-> "UNKNOWN"]

\* xury_smart_cache_load; works tells whether the host's callback succeeded.
Load(slot, works, key, ttl, now) ==
  IF works /\ Belongs(slot, key)
  THEN [loaded |-> TRUE, valid |-> Fresh(slot, ttl, now), nat |-> slot.nat,
        status |-> IF Fresh(slot, ttl, now) THEN "OK" ELSE "SKIPPED"]
  ELSE NotLoaded
=============================================================================

-------------------------------- MODULE Scan --------------------------------
(***************************************************************************)
(* The scan orchestrator (src/scan/scan.c): xury_scan_run and              *)
(* xury_scan_run_quick over the life of one host, one storage slot and     *)
(* one monotonic clock.  Between any two steps the clock may advance, the  *)
(* host may move to another network, and the machine may restart: the      *)
(* clock then starts again while the storage survives.                     *)
(*                                                                         *)
(* Probing is its result (xury_scan_probing fills a status and two flags). *)
(* Math and classification compute numbers nothing here depends on.        *)
(***************************************************************************)
EXTENDS ScanRules

CONSTANTS Networks,     \* what the OS may report about the host's network
          Configs,      \* the configurations scans are run with
          MaxNow,       \* bound on the clock of one boot
          MaxBoot       \* bound on the number of boots

\* cfg == NULL: everything enabled, but no storage and no key.
NullConfig == [fp |-> None, scan |-> TRUE, cache |-> TRUE, early |-> TRUE,
               strike |-> TRUE, ttl |-> 0, storage |-> FALSE]

ConfigType == [fp : Names, scan : BOOLEAN, cache : BOOLEAN, early : BOOLEAN,
               strike : BOOLEAN, ttl : Nat, storage : BOOLEAN]

ASSUME ScanAssumption ==
  /\ Configs \subseteq ConfigType
  /\ \A os \in Networks : Sense(os) \in Sensings
  /\ MaxNow \in Nat /\ MaxBoot \in Nat

VARIABLES
  pc,       \* "idle", "sense", "load", "take1", "probe", "take2", "store"
  net,      \* the network the host is on
  now,      \* xury_time_now_ms() in ticks since the boot
  boot,     \* number of this boot
  slot,     \* the host's storage
  req,      \* the running or last scan: full or quick, its config, a peer?
  key,      \* cache_key
  out,      \* the caller's xury_scan_result_t
  origin    \* history: the scan that wrote the entry in the slot

vars == <<pc, net, now, boot, slot, req, key, out, origin>>

cfg == req.cfg
Requests == [quick : BOOLEAN, cfg : Configs \cup {NullConfig}, peer : BOOLEAN]
NoRequest == [quick |-> TRUE, cfg |-> NullConfig, peer |-> FALSE]

\* scan_result_reset.
Reset == [sensing |-> NoSensing, memory |-> NotLoaded, probing |-> NoProbing,
          analysis |-> NoAnalysis, stopped |-> "NONE", ok |-> FALSE]

NoOrigin == [boot |-> 0, at |-> 0, fp |-> None, sensing |-> NoSensing, probing |-> "SKIPPED"]

Init ==
  /\ pc = "idle" /\ net \in Networks
  /\ now = 0 /\ boot = 1
  /\ slot = Blank("absent") /\ origin = NoOrigin
  /\ req = NoRequest /\ key = NoKey /\ out = Reset

Start ==
  /\ pc = "idle"
  /\ req' \in Requests
  /\ pc' = "sense" /\ out' = Reset /\ key' = NoKey
  /\ UNCHANGED <<net, now, boot, slot, origin>>

\* The quick scan senses whatever enable_scan says.
Sensing ==
  /\ pc = "sense"
  /\ out' = IF cfg.scan \/ req.quick THEN [out EXCEPT !.sensing = Sense(net)] ELSE out
  /\ pc' = "load"
  /\ UNCHANGED <<net, now, boot, slot, req, key, origin>>

WantCache == cfg.cache /\ (cfg.scan \/ req.quick)

\* Memory load; the host's load callback may fail.
MemoryLoad ==
  /\ pc = "load"
  /\ key' = IF WantCache THEN Key(cfg, out.sensing) ELSE NoKey
  /\ \E works \in BOOLEAN :
       out' = [out EXCEPT !.memory = Load(slot, works /\ cfg.storage, key', cfg.ttl, now)]
  /\ pc' = "take1"
  /\ UNCHANGED <<net, now, boot, slot, req, origin>>

QuickEnds ==
  /\ pc = "take1" /\ req.quick
  /\ out' = [out EXCEPT !.ok = out.sensing.status \in {"OK", "PARTIAL"}]
  /\ pc' = "idle"
  /\ UNCHANGED <<net, now, boot, slot, req, key, origin>>

\* Early termination, take one: probing has not run yet.
FreshEntry == cfg.early /\ Decide(out.sensing, out.memory, NoProbing) = "CACHED_FRESH"

\* The cached classification is the answer; nothing is stored.
ReuseCache ==
  /\ pc = "take1" /\ ~req.quick
  /\ FreshEntry
  /\ out' = [out EXCEPT !.stopped = "CACHED_FRESH", !.ok = TRUE,
                        !.analysis.nat = out.memory.nat, !.analysis.status = "OK"]
  /\ pc' = "idle"
  /\ UNCHANGED <<net, now, boot, slot, req, key, origin>>

NoReuse ==
  /\ pc = "take1" /\ ~req.quick
  /\ ~FreshEntry
  /\ pc' = "probe"
  /\ UNCHANGED <<net, now, boot, slot, req, key, out, origin>>

\* FAILED: no socket, or no answer.  PARTIAL: the peer answered once but no
\* port sample came back.  OK: at least one sample.
ProbingResult ==
  {p \in Probings : \/ p.status = "FAILED" /\ ~p.reachable /\ ~p.ipv6
                    \/ p.status \in {"PARTIAL", "OK"} /\ p.reachable}

Probing ==
  /\ pc = "probe"
  /\ \E p \in IF cfg.strike /\ req.peer THEN ProbingResult ELSE {NoProbing} :
       out' = [out EXCEPT !.probing = p]
  /\ pc' = "take2"
  /\ UNCHANGED <<net, now, boot, slot, req, key, origin>>

\* Early termination, take two: only the IPv6 rule is acted upon.
GlobalIpv6 ==
  cfg.early /\ Decide(out.sensing, out.memory, out.probing) = "IPV6_GLOBAL"

Ipv6Stop ==
  /\ pc = "take2"
  /\ GlobalIpv6
  /\ out' = [out EXCEPT !.stopped = "IPV6_GLOBAL",
                        !.analysis = [status |-> "OK", nat |-> "UNKNOWN", ipv6 |-> TRUE,
                                      reachable |-> out.probing.reachable]]
  /\ pc' = "store"
  /\ UNCHANGED <<net, now, boot, slot, req, key, origin>>

Analysis ==
  /\ pc = "take2"
  /\ ~GlobalIpv6
  /\ out' = [out EXCEPT !.analysis = Analyze(out.sensing, out.probing)]
  /\ pc' = "store"
  /\ UNCHANGED <<net, now, boot, slot, req, key, origin>>

Storable == cfg.cache /\ key # NoKey /\ out.analysis.status # "FAILED"

\* Memory store, ignoring a failing save callback; then the final verdict.
Saves ==
  /\ slot' = Entry(key, out.analysis.nat, now)
  /\ origin' = [boot |-> boot, at |-> now, fp |-> cfg.fp, sensing |-> out.sensing,
                probing |-> out.probing.status]
SaveFails == UNCHANGED <<slot, origin>>

MemoryStore ==
  /\ pc = "store"
  /\ IF Storable /\ cfg.storage THEN Saves \/ SaveFails ELSE SaveFails
  /\ out' = [out EXCEPT !.ok = out.analysis.status \in {"OK", "PARTIAL"}]
  /\ pc' = "idle"
  /\ UNCHANGED <<net, now, boot, req, key>>

-----------------------------------------------------------------------------
(* The host and its machine.                                               *)

\* xury_smart_cache_invalidate: the slot is emptied whatever key it holds.
Invalidate ==
  /\ pc = "idle"
  /\ slot' = Blank("empty") /\ origin' = NoOrigin
  /\ UNCHANGED <<pc, net, now, boot, req, key, out>>

\* The storage returns bytes that do not decode.
Damage ==
  /\ slot.kind = "entry"
  /\ slot' = Blank("garbage") /\ origin' = NoOrigin
  /\ UNCHANGED <<pc, net, now, boot, req, key, out>>

Tick ==
  /\ now < MaxNow
  /\ now' = now + 1
  /\ UNCHANGED <<pc, net, boot, slot, req, key, out, origin>>

Roam ==
  /\ net' \in Networks \ {net}
  /\ UNCHANGED <<pc, now, boot, slot, req, key, out, origin>>

Restart ==
  /\ boot < MaxBoot
  /\ boot' = boot + 1 /\ now' = 0
  /\ pc' = "idle" /\ out' = Reset /\ key' = NoKey
  /\ UNCHANGED <<net, slot, req, origin>>

Next == \/ Start \/ Sensing \/ MemoryLoad \/ QuickEnds \/ ReuseCache \/ NoReuse
        \/ Probing \/ Ipv6Stop \/ Analysis \/ MemoryStore
        \/ Invalidate \/ Damage \/ Tick \/ Roam \/ Restart

Spec == Init /\ [][Next]_vars
-----------------------------------------------------------------------------
Results == [sensing : Sensings, memory : Memories, probing : Probings,
            analysis : Analyses, stopped : {"NONE", "CACHED_FRESH", "IPV6_GLOBAL"},
            ok : BOOLEAN]

TypeOK ==
  /\ pc \in {"idle", "sense", "load", "take1", "probe", "take2", "store"}
  /\ net \in Networks
  /\ now \in 0..MaxNow
  /\ boot \in Nat
  /\ slot \in [kind : {"absent", "empty", "garbage", "entry"}, key : Keys,
               nat : {"UNKNOWN"}, saved : 0..MaxNow]
  /\ req \in Requests
  /\ key \in Keys
  /\ out \in Results
  /\ origin \in [boot : Nat, at : 0..MaxNow, fp : Names, sensing : Sensings,
                 probing : SubStatus]

\* An entry is declared valid only for the gateway, the prefix and the config
\* it was measured with, and, within one boot, only until ttl whole seconds
\* have passed since the measurement was stored: a reused answer is never
\* stored again as if it were new.
SameNetwork(s, t) == s.gateway = t.gateway /\ s.local4 = t.local4

ReuseIsEarned ==
  [][out'.memory.valid /\ ~out.memory.valid =>
       /\ origin.fp = cfg.fp
       /\ SameNetwork(origin.sensing, out.sensing)
       /\ origin.boot = boot /\ cfg.ttl # 0 =>
            now - origin.at < (cfg.ttl + 1) * Second]_vars

\* Nothing is kept about a network that could not be identified: whatever is
\* in the slot was stored by a scan that sensed an interface and a gateway.
OnlyIdentifiedNetworks ==
  slot.kind = "entry" => origin.sensing.status = "OK"

\* early_term.c and analysis.c judge IPv6 alike: a scan that stops on the
\* IPv6 rule reports what the analysis would have said, and with the rule
\* enabled the analysis itself never finds IPv6 viable.
JudgesAgree ==
  pc = "store" =>
    IF out.stopped = "IPV6_GLOBAL"
    THEN out.analysis = Analyze(out.sensing, out.probing)
    ELSE cfg.early => ~out.analysis.ipv6

-----------------------------------------------------------------------------
(* The inductive invariant of the proofs: a key is the identity of the     *)
(* sensed network, and the slot's entry is what its origin stored.         *)

Sensed == out.sensing.gateway # None => out.sensing.status = "OK"

KeyIsSensed ==
  /\ pc \in {"sense", "load"} => key = NoKey
  /\ key # NoKey => key = KeyOf(cfg, out.sensing) /\ out.sensing.gateway # None

SlotHasOrigin ==
  slot.kind = "entry" =>
    /\ slot.key = KeyOf(origin, origin.sensing)
    /\ slot.saved = origin.at
    /\ origin.sensing.status = "OK"

IInv == TypeOK /\ Sensed /\ KeyIsSensed /\ SlotHasOrigin /\ JudgesAgree
=============================================================================

------------------------------ MODULE ScanRules ------------------------------
(***************************************************************************)
(* The pure parts of the scan pipeline: what sensing makes of the          *)
(* interface list (src/scan/sensing.c), the cache key (src/scan/scan.c),   *)
(* the early-termination rules (src/smart/early_term.c) and the analysis   *)
(* (src/analysis/analysis.c).  early_term.c and analysis.c each carry      *)
(* their own copy of the "has data" helpers, and so does this module.      *)
(***************************************************************************)
EXTENDS Cache, FiniteSetsExt, Sequences

\* The sub-phase results: xury_scan_sub_status_t and the structs of scan.h.
\* An analysis names no NAT type: nothing infers one yet.
SubStatus == {"SKIPPED", "OK", "PARTIAL", "FAILED"}
Sensings  == [status : SubStatus, local4 : Names, global6 : BOOLEAN, gateway : Names]
Memories  == [loaded : BOOLEAN, valid : BOOLEAN, status : SubStatus, nat : {"UNKNOWN"}]
Probings  == [status : SubStatus, reachable : BOOLEAN, ipv6 : BOOLEAN]
Analyses  == [status : SubStatus, nat : {"UNKNOWN"}, ipv6 : BOOLEAN, reachable : BOOLEAN]

\* Sub-phase results before their phase has run (scan_result_reset).
NoSensing  == [status |-> "SKIPPED", local4 |-> None, global6 |-> FALSE, gateway |-> None]
NoProbing  == [status |-> "SKIPPED", reachable |-> FALSE, ipv6 |-> FALSE]
NoAnalysis == [status |-> "SKIPPED", nat |-> "UNKNOWN", ipv6 |-> FALSE, reachable |-> FALSE]

-----------------------------------------------------------------------------
(* Sensing.  An interface entry is [name, usable, family, addr]; an IPv4   *)
(* addr stands for its /24, an IPv6 addr for its scope.                    *)

UsableAt(ifaces) == {i \in DOMAIN ifaces : ifaces[i].usable}

Primary(ifaces) == ifaces[Min(UsableAt(ifaces))].name

\* find_addr_on_primary: the first entry of the primary's name and family,
\* whether or not that entry is itself usable.
AddressAt(ifaces, family) ==
  {i \in DOMAIN ifaces : ifaces[i].name = Primary(ifaces) /\ ifaces[i].family = family}
PrimaryAddress(ifaces, family) ==
  IF AddressAt(ifaces, family) = {} THEN None
  ELSE ifaces[Min(AddressAt(ifaces, family))].addr

\* xury_scan_sensing of what the OS answers: os.listed is FALSE when the
\* enumeration fails, os.gateway is None when the gateway lookup fails.
Sense(os) ==
  IF ~os.listed \/ UsableAt(os.ifaces) = {}
  THEN [NoSensing EXCEPT !.status = "FAILED"]
  ELSE [status  |-> IF os.gateway = None THEN "PARTIAL" ELSE "OK",
        local4  |-> PrimaryAddress(os.ifaces, "INET"),
        global6 |-> PrimaryAddress(os.ifaces, "INET6") = "global",
        gateway |-> os.gateway]

\* scan_cache_key.  The hash is taken to be collision-free.  Fault: a
\* missing gateway is hashed like any other.
KeyOf(cfg, s) == [fp |-> cfg.fp, gateway |-> s.gateway, prefix |-> s.local4]
KeyAlways(cfg, s) == KeyOf(cfg, s)
Key(cfg, s) == IF cfg.fp = None \/ s.gateway = None THEN NoKey ELSE KeyOf(cfg, s)

-----------------------------------------------------------------------------
(* Early termination.                                                      *)

EarlySensingHasData(s) == s.status \in {"OK", "PARTIAL"}

\* Fault: a PARTIAL probing is believed, too.
EarlyProbingAnswered(p) == p.status \in {"OK", "PARTIAL"}
EarlyProbingHasData(p)  == p.status = "OK"

MemoryIsFresh(m) == m.status = "OK" /\ m.loaded /\ m.valid
MemoryIsStale(m) == m.status = "SKIPPED" /\ m.loaded /\ ~m.valid /\ m.nat # "UNKNOWN"

RuleIpv6Global(s, p) ==
  EarlySensingHasData(s) /\ s.global6 /\ EarlyProbingHasData(p) /\ p.ipv6
RuleCachedIpv6(s, m, p) ==
  EarlySensingHasData(s) /\ s.global6 /\ ~EarlyProbingHasData(p) /\ MemoryIsStale(m)

\* xury_early_term_decide: the order of the rules is part of its contract.
Decide(s, m, p) ==
  CASE RuleIpv6Global(s, p)      -> "IPV6_GLOBAL"
    [] ~RuleIpv6Global(s, p) /\ MemoryIsFresh(m) -> "CACHED_FRESH"
    [] ~RuleIpv6Global(s, p) /\ ~MemoryIsFresh(m) /\ RuleCachedIpv6(s, m, p)
                                 -> "CACHED_IPV6"
    [] OTHER                     -> "NONE"

-----------------------------------------------------------------------------
(* Analysis.                                                               *)

AnalysisSensingHasData(s) == s.status \in {"OK", "PARTIAL"}
AnalysisProbingHasData(p) == p.status = "OK"

\* xury_analysis_run: the NAT fields are never inferred.
Analyze(s, p) ==
  LET sensed == AnalysisSensingHasData(s)
      probed == AnalysisProbingHasData(p)
  IN [nat       |-> "UNKNOWN",
      ipv6      |-> sensed /\ probed /\ s.global6 /\ p.ipv6,
      reachable |-> probed /\ p.reachable,
      status    |-> CASE sensed /\ probed   -> "OK"
                      [] ~sensed /\ ~probed -> "FAILED"
                      [] OTHER              -> "PARTIAL"]
=============================================================================

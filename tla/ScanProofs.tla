----------------------------- MODULE ScanProofs -----------------------------
(***************************************************************************)
(* Proofs about Scan for all networks, configs, clocks and numbers of      *)
(* boots: what a reused entry is worth, what may be stored, and that the   *)
(* two judges of IPv6 agree.                                               *)
(***************************************************************************)
EXTENDS Scan, TLAPS

\* Truncated division: whole seconds bound the ticks.
LEMMA TruncatedAge ==
  ASSUME NEW a \in Nat, NEW s \in Nat \ {0}, NEW t \in Nat, a \div s <= t
  PROVE  a < (t + 1) * s
<1>1. a \div s \in Nat /\ a % s \in 0..(s - 1) /\ a = s * (a \div s) + (a % s)
  BY Z3
<1>2. \A q \in Nat : q <= t => s * q <= s * t
  BY Z3
<1>3. (t + 1) * s = s * t + s
  BY Z3
<1> QED BY <1>1, <1>2, <1>3, Z3

-----------------------------------------------------------------------------
(* The pure rules.                                                         *)

LEMMA DecideIpv6 ==
  ASSUME NEW s, NEW m, NEW p
  PROVE  Decide(s, m, p) = "IPV6_GLOBAL" <=> RuleIpv6Global(s, p)
<1> HIDE DEF RuleIpv6Global, MemoryIsFresh, RuleCachedIpv6
<1> QED BY Zenon DEF Decide

\* The analysis sees IPv6 exactly where the early-termination rule does.
LEMMA AnalyzeIpv6 ==
  ASSUME NEW s \in Sensings, NEW p \in Probings
  PROVE  /\ Analyze(s, p).ipv6 <=> RuleIpv6Global(s, p)
         /\ RuleIpv6Global(s, p) =>
              Analyze(s, p) = [status |-> "OK", nat |-> "UNKNOWN", ipv6 |-> TRUE,
                               reachable |-> p.reachable]
<1>1. Analyze(s, p).ipv6 <=> RuleIpv6Global(s, p)
  BY Zenon DEF Analyze, RuleIpv6Global, AnalysisSensingHasData, AnalysisProbingHasData,
     EarlySensingHasData, EarlyProbingHasData
<1>2. ASSUME RuleIpv6Global(s, p)
      PROVE  Analyze(s, p) = [status |-> "OK", nat |-> "UNKNOWN", ipv6 |-> TRUE,
                              reachable |-> p.reachable]
  <2>1. /\ AnalysisSensingHasData(s) = TRUE /\ AnalysisProbingHasData(p) = TRUE
        /\ s.global6 = TRUE /\ p.ipv6 = TRUE
    BY <1>2 DEF Sensings, Probings, RuleIpv6Global, AnalysisSensingHasData,
       AnalysisProbingHasData, EarlySensingHasData, EarlyProbingHasData
  <2>2. p.reachable \in BOOLEAN
    BY DEF Probings
  <2> QED BY <2>1, <2>2 DEF Analyze
<1> QED BY <1>1, <1>2

LEMMA AnalyzeType ==
  ASSUME NEW s \in Sensings, NEW p \in Probings
  PROVE  Analyze(s, p) \in Analyses
BY DEF Analyze, Analyses, Sensings, Probings, SubStatus, AnalysisSensingHasData,
   AnalysisProbingHasData

\* Sensing names a gateway only when all went well.
LEMMA SenseGateway ==
  ASSUME NEW os, Sense(os).gateway # None
  PROVE  Sense(os).status = "OK"
BY DEF Sense, NoSensing, None

LEMMA KeyFacts ==
  ASSUME NEW c \in ConfigType, NEW s \in Sensings
  PROVE  /\ Key(c, s) \in Keys
         /\ Key(c, s) # NoKey => Key(c, s) = KeyOf(c, s) /\ s.gateway # None
BY DEF Key, KeyOf, Keys, NoKey, None, ConfigType, Sensings

LEMMA LoadType ==
  ASSUME NEW w, NEW k, NEW ttl, NEW t, NEW b \in [kind : {"absent", "empty", "garbage", "entry"},
           key : Keys, nat : {"UNKNOWN"}, saved : 0..MaxNow]
  PROVE  Load(b, w, k, ttl, t) \in Memories
<1>1. NotLoaded \in Memories
  BY DEF NotLoaded, Memories, SubStatus
<1>2. Fresh(b, ttl, t) \in BOOLEAN /\ b.nat = "UNKNOWN"
  BY DEF Fresh
<1> HIDE DEF Fresh
<1> QED BY <1>1, <1>2 DEF Load, Memories, SubStatus

LEMMA InitialResults ==
  /\ Reset \in Results
  /\ NoSensing \in Sensings /\ NoProbing \in Probings
  /\ NoKey \in Keys
<1>1. NoSensing \in Sensings
  BY NamesAssumption DEF NoSensing, Sensings, SubStatus
<1>2. NoProbing \in Probings /\ NoAnalysis \in Analyses /\ NotLoaded \in Memories
  BY DEF NoProbing, Probings, NoAnalysis, Analyses, NotLoaded, Memories, SubStatus
<1>3. NoKey \in Keys
  BY NamesAssumption DEF NoKey, Keys
<1>4. Reset \in Results
  BY <1>1, <1>2 DEF Reset, Results
<1> QED BY <1>1, <1>2, <1>3, <1>4

-----------------------------------------------------------------------------
(* The inductive invariant.                                                *)

LEMMA ConfigFacts ==
  ASSUME TypeOK
  PROVE  cfg \in ConfigType
<1>1. NullConfig \in ConfigType
  BY NamesAssumption DEF NullConfig, ConfigType
<1> QED BY <1>1, ScanAssumption DEF TypeOK, Requests, cfg

LEMMA InitInv == Init => IInv
<1> SUFFICES ASSUME Init PROVE IInv
  OBVIOUS
<1>1. NullConfig \in Configs \cup {NullConfig}
  OBVIOUS
<1>2. NoRequest \in Requests
  BY <1>1 DEF NoRequest, Requests
<1>3. Blank("absent") \in [kind : {"absent", "empty", "garbage", "entry"}, key : Keys,
                           nat : {"UNKNOWN"}, saved : 0..MaxNow]
  BY InitialResults, ScanAssumption DEF Blank
<1>4. NoOrigin \in [boot : Nat, at : 0..MaxNow, fp : Names, sensing : Sensings,
                    probing : SubStatus]
  BY InitialResults, NamesAssumption, ScanAssumption DEF NoOrigin, SubStatus
<1>5. TypeOK
  BY <1>2, <1>3, <1>4, InitialResults, ScanAssumption DEF Init, TypeOK
<1>6. Sensed /\ KeyIsSensed /\ SlotHasOrigin /\ JudgesAgree
  BY DEF Init, Sensed, KeyIsSensed, SlotHasOrigin, JudgesAgree, Reset, NoSensing, Blank
<1> QED BY <1>5, <1>6 DEF IInv

\* What the scan's own phases do to the invariant.
LEMMA StepInv == IInv /\ [Next]_vars => IInv'
<1> SUFFICES ASSUME IInv, [Next]_vars PROVE IInv'
  OBVIOUS
<1> USE DEF IInv
<1>c. cfg \in ConfigType
  BY ConfigFacts
<1>r. /\ out = [out EXCEPT !.ok = out.ok]
      /\ out.sensing \in Sensings /\ out.memory \in Memories /\ out.probing \in Probings
      /\ out.analysis \in Analyses
  BY DEF TypeOK, Results
<1>1. CASE Start
  BY <1>1, InitialResults DEF Start, TypeOK, Sensed, KeyIsSensed, SlotHasOrigin,
     JudgesAgree, Reset, NoSensing
<1>2. CASE Sensing
  <2>1. Sense(net) \in Sensings
    BY ScanAssumption DEF TypeOK
  <2>2. out' \in Results /\ (out'.sensing = out.sensing \/ out'.sensing = Sense(net))
    BY <1>2, <2>1 DEF Sensing, TypeOK, Results
  <2>3. Sensed'
    BY <2>2, SenseGateway DEF Sensed
  <2> QED BY <1>2, <2>2, <2>3 DEF Sensing, TypeOK, KeyIsSensed, SlotHasOrigin, JudgesAgree, cfg
<1>3. CASE MemoryLoad
  <2>1. PICK works \in BOOLEAN :
          out' = [out EXCEPT !.memory = Load(slot, works /\ cfg.storage, key', cfg.ttl, now)]
    BY <1>3 DEF MemoryLoad
  <2>2. out' \in Results /\ out'.sensing = out.sensing
    <3>1. Load(slot, works /\ cfg.storage, key', cfg.ttl, now) \in Memories
      BY LoadType DEF TypeOK
    <3> QED BY <2>1, <3>1 DEF TypeOK, Results
  <2>3. key' \in Keys /\ (key' # NoKey =>
          key' = KeyOf(cfg, out.sensing) /\ out.sensing.gateway # None)
    BY <1>3, <1>c, <1>r, KeyFacts, InitialResults DEF MemoryLoad
  <2> QED BY <1>3, <2>2, <2>3 DEF MemoryLoad, TypeOK, Sensed, KeyIsSensed, SlotHasOrigin,
         JudgesAgree, cfg
<1>4. CASE QuickEnds
  <2> DEFINE b == out.sensing.status \in {"OK", "PARTIAL"}
  <2>1. b \in BOOLEAN
    OBVIOUS
  <2>2. out' = [out EXCEPT !.ok = b]
    BY <1>4 DEF QuickEnds
  <2> HIDE DEF b
  <2>3. out' \in Results /\ out'.sensing = out.sensing
    BY <2>1, <2>2 DEF TypeOK, Results
  <2> QED BY <1>4, <2>3 DEF QuickEnds, TypeOK, Sensed, KeyIsSensed, SlotHasOrigin,
         JudgesAgree, cfg
<1>5. CASE ReuseCache
  <2>1. out' \in Results /\ out'.sensing = out.sensing
    BY <1>5 DEF ReuseCache, TypeOK, Results, Memories, Analyses, SubStatus
  <2> QED BY <1>5, <2>1 DEF ReuseCache, TypeOK, Sensed, KeyIsSensed, SlotHasOrigin,
         JudgesAgree, cfg
<1>6. CASE NoReuse
  BY <1>6 DEF NoReuse, TypeOK, Sensed, KeyIsSensed, SlotHasOrigin, JudgesAgree, cfg
<1>7. CASE Probing
  <2>1. PICK p \in ProbingResult \cup {NoProbing} : out' = [out EXCEPT !.probing = p]
    BY <1>7 DEF Probing
  <2>2. p \in Probings
    <3>1. CASE p \in ProbingResult
      BY <3>1 DEF ProbingResult
    <3> QED BY <2>1, <3>1, InitialResults
  <2>3. out' \in Results /\ out'.sensing = out.sensing
    BY <2>1, <2>2 DEF TypeOK, Results
  <2> QED BY <1>7, <2>3 DEF Probing, TypeOK, Sensed, KeyIsSensed, SlotHasOrigin,
         JudgesAgree, cfg
<1>8. CASE Ipv6Stop
  <2> DEFINE A == [status |-> "OK", nat |-> "UNKNOWN", ipv6 |-> TRUE,
                   reachable |-> out.probing.reachable]
  <2>1. A \in Analyses
    BY <1>r DEF Analyses, SubStatus, Probings
  <2>2. /\ out' \in Results /\ out'.sensing = out.sensing /\ out'.probing = out.probing
        /\ out'.analysis = A /\ out'.stopped = "IPV6_GLOBAL"
    BY <1>8, <2>1 DEF Ipv6Stop, TypeOK, Results
  <2>3. RuleIpv6Global(out.sensing, out.probing)
    BY <1>8, DecideIpv6 DEF Ipv6Stop, GlobalIpv6
  <2>4. A = Analyze(out.sensing, out.probing)
    BY <1>r, <2>3, AnalyzeIpv6
  <2>5. JudgesAgree'
    BY <2>2, <2>4 DEF JudgesAgree
  <2> QED BY <1>8, <2>2, <2>5 DEF Ipv6Stop, TypeOK, Sensed, KeyIsSensed, SlotHasOrigin, cfg
<1>9. CASE Analysis
  <2> DEFINE A == Analyze(out.sensing, out.probing)
  <2>1. A \in Analyses
    BY <1>r, AnalyzeType
  <2>2. out' \in Results /\ out'.sensing = out.sensing /\ out'.probing = out.probing
        /\ out'.analysis = A /\ out'.stopped = out.stopped
    BY <1>9, <2>1 DEF Analysis, TypeOK, Results
  <2>3. JudgesAgree'
    BY <1>9, <1>r, <2>2, DecideIpv6, AnalyzeIpv6 DEF JudgesAgree, Analysis, GlobalIpv6, cfg
  <2> QED BY <1>9, <2>2, <2>3 DEF Analysis, TypeOK, Sensed, KeyIsSensed, SlotHasOrigin, cfg
<1>10. CASE MemoryStore
  <2> DEFINE b == out.analysis.status \in {"OK", "PARTIAL"}
  <2>b. b \in BOOLEAN
    OBVIOUS
  <2>o. out' = [out EXCEPT !.ok = b]
    BY <1>10 DEF MemoryStore
  <2> HIDE DEF b
  <2>1. out' \in Results /\ out'.sensing = out.sensing
    BY <2>b, <2>o DEF TypeOK, Results
  <2>2. CASE SaveFails
    BY <1>10, <2>1, <2>2 DEF MemoryStore, SaveFails, TypeOK, Sensed, KeyIsSensed,
       SlotHasOrigin, JudgesAgree, cfg
  <2>3. CASE Storable /\ Saves
    <3>1. slot'.key = key /\ slot'.saved = now /\ origin'.at = now
          /\ KeyOf(origin', origin'.sensing) = KeyOf(cfg, out.sensing)
          /\ origin'.sensing = out.sensing
      BY <2>3 DEF Saves, Entry, KeyOf
    <3>2. SlotHasOrigin'
      BY <2>3, <3>1 DEF Storable, KeyIsSensed, Sensed, SlotHasOrigin
    <3>3. slot' \in [kind : {"absent", "empty", "garbage", "entry"}, key : Keys,
                     nat : {"UNKNOWN"}, saved : 0..MaxNow]
      BY <2>3, <1>r DEF Saves, Entry, TypeOK, Analyses
    <3>4. origin' \in [boot : Nat, at : 0..MaxNow, fp : Names, sensing : Sensings,
                       probing : SubStatus]
      BY <2>3, <1>r, <1>c DEF Saves, TypeOK, Probings, ConfigType
    <3> QED BY <1>10, <2>1, <3>2, <3>3, <3>4 DEF MemoryStore, TypeOK, Sensed, KeyIsSensed,
           JudgesAgree, cfg
  <2> QED BY <1>10, <2>2, <2>3 DEF MemoryStore
<1>11. CASE Invalidate \/ Damage
  <2>1. /\ Blank("empty") \in [kind : {"absent", "empty", "garbage", "entry"}, key : Keys,
                               nat : {"UNKNOWN"}, saved : 0..MaxNow]
        /\ Blank("garbage") \in [kind : {"absent", "empty", "garbage", "entry"}, key : Keys,
                                 nat : {"UNKNOWN"}, saved : 0..MaxNow]
        /\ Blank("empty").kind = "empty" /\ Blank("garbage").kind = "garbage"
    BY InitialResults, ScanAssumption DEF Blank
  <2>2. NoOrigin \in [boot : Nat, at : 0..MaxNow, fp : Names, sensing : Sensings,
                      probing : SubStatus]
    BY InitialResults, NamesAssumption, ScanAssumption DEF NoOrigin, SubStatus
  <2> QED BY <1>11, <2>1, <2>2 DEF Invalidate, Damage, TypeOK, Sensed, KeyIsSensed,
         SlotHasOrigin, JudgesAgree, cfg
<1>12. CASE Tick
  BY <1>12, ScanAssumption DEF Tick, TypeOK, Sensed, KeyIsSensed, SlotHasOrigin, JudgesAgree, cfg
<1>13. CASE Roam
  BY <1>13 DEF Roam, TypeOK, Sensed, KeyIsSensed, SlotHasOrigin, JudgesAgree, cfg
<1>14. CASE Restart
  BY <1>14, InitialResults, ScanAssumption DEF Restart, TypeOK, Sensed, KeyIsSensed,
     SlotHasOrigin, JudgesAgree, Reset, NoSensing
<1>15. CASE UNCHANGED vars
  BY <1>15 DEF vars, TypeOK, Sensed, KeyIsSensed, SlotHasOrigin, JudgesAgree, cfg
<1> QED
  BY <1>1, <1>2, <1>3, <1>4, <1>5, <1>6, <1>7, <1>8, <1>9, <1>10, <1>11, <1>12, <1>13,
     <1>14, <1>15 DEF Next

\* IInv holds in every reachable state.
THEOREM InductiveInvariant == Spec => []IInv
BY InitInv, StepInv, PTL DEF Spec

\* The scan's state is well typed: a result field holds a value of its
\* enumeration, and an entry is never dated beyond the clock's bound.
THEOREM TypeCorrect == Spec => []TypeOK
<1>1. IInv => TypeOK
  BY DEF IInv
<1> QED BY <1>1, InductiveInvariant, PTL

\* Only a scan that sensed an interface and a gateway leaves an entry.
THEOREM IdentifiedOnly == Spec => []OnlyIdentifiedNetworks
<1>1. IInv => OnlyIdentifiedNetworks
  BY DEF IInv, SlotHasOrigin, OnlyIdentifiedNetworks
<1> QED BY <1>1, InductiveInvariant, PTL

\* early_term.c and analysis.c never disagree about IPv6.
THEOREM JudgesNeverDisagree == Spec => []JudgesAgree
<1>1. IInv => JudgesAgree
  BY DEF IInv
<1> QED BY <1>1, InductiveInvariant, PTL

-----------------------------------------------------------------------------
(* Reuse.  Only the memory load can turn valid on; it does so for an entry *)
(* of the key it has just computed, whose age it has just checked.         *)

Earned ==
  /\ origin.fp = cfg.fp
  /\ SameNetwork(origin.sensing, out.sensing)
  /\ origin.boot = boot /\ cfg.ttl # 0 => now - origin.at < (cfg.ttl + 1) * Second

LEMMA ValidOnlyByLoad ==
  ASSUME IInv, [Next]_vars, out'.memory.valid, ~out.memory.valid
  PROVE  MemoryLoad
<1> USE DEF IInv, TypeOK, Results
<1>1. ~Reset.memory.valid
  BY DEF Reset, NotLoaded
<1>2. ASSUME QuickEnds \/ ReuseCache \/ NoReuse \/ Probing PROVE FALSE
  BY <1>2 DEF QuickEnds, ReuseCache, NoReuse, Probing
<1>3. ASSUME Ipv6Stop \/ Analysis \/ MemoryStore PROVE FALSE
  BY <1>3 DEF Ipv6Stop, Analysis, MemoryStore
<1>4. ASSUME Invalidate \/ Damage \/ Tick \/ Roam \/ UNCHANGED vars PROVE FALSE
  BY <1>4 DEF Invalidate, Damage, Tick, Roam, vars
<1>5. ASSUME Start \/ Sensing \/ Restart PROVE FALSE
  BY <1>1, <1>5 DEF Start, Sensing, Restart
<1> QED BY <1>2, <1>3, <1>4, <1>5 DEF Next

LEMMA LoadIsEarned ==
  ASSUME IInv, MemoryLoad, out'.memory.valid, ~out.memory.valid
  PROVE  Earned
<1> USE DEF IInv
<1>c. cfg \in ConfigType
  BY ConfigFacts
<1>1. PICK works \in BOOLEAN :
        out' = [out EXCEPT !.memory = Load(slot, works /\ cfg.storage, key', cfg.ttl, now)]
  BY DEF MemoryLoad
<1>2. Load(slot, works /\ cfg.storage, key', cfg.ttl, now).valid
  BY <1>1 DEF TypeOK, Results
<1>3. Belongs(slot, key') /\ Fresh(slot, cfg.ttl, now)
  <2>1. ~NotLoaded.valid
    BY DEF NotLoaded
  <2> HIDE DEF Belongs, Fresh
  <2> QED BY <1>2, <2>1 DEF Load
<1>4. key' # NoKey /\ slot.kind = "entry" /\ slot.key = key'
  BY <1>3 DEF Belongs
<1>5. key' = KeyOf(cfg, out.sensing)
  <2>1. out.sensing \in Sensings
    BY DEF TypeOK, Results
  <2> QED BY <1>4, <1>c, <2>1, KeyFacts DEF MemoryLoad
<1>6. KeyOf(origin, origin.sensing) = KeyOf(cfg, out.sensing) /\ slot.saved = origin.at
  BY <1>4, <1>5 DEF SlotHasOrigin
<1>7. origin.fp = cfg.fp /\ SameNetwork(origin.sensing, out.sensing)
  <2>1. /\ KeyOf(origin, origin.sensing).fp = origin.fp
        /\ KeyOf(origin, origin.sensing).gateway = origin.sensing.gateway
        /\ KeyOf(origin, origin.sensing).prefix = origin.sensing.local4
        /\ KeyOf(cfg, out.sensing).fp = cfg.fp
        /\ KeyOf(cfg, out.sensing).gateway = out.sensing.gateway
        /\ KeyOf(cfg, out.sensing).prefix = out.sensing.local4
    BY DEF KeyOf
  <2> HIDE DEF IInv
  <2> QED BY <1>6, <2>1 DEF SameNetwork
<1>8. ASSUME cfg.ttl # 0 PROVE now - origin.at < (cfg.ttl + 1) * Second
  <2>1. now \in Nat /\ slot.saved \in Nat /\ cfg.ttl \in Nat
    BY <1>c, ScanAssumption DEF TypeOK, ConfigType
  <2>2. now - slot.saved \in Nat
    <3>1. now >= slot.saved
      BY <1>3 DEF Fresh
    <3> HIDE DEF IInv
    <3> QED BY <2>1, <3>1
  <2>3. (now - slot.saved) \div Second <= cfg.ttl
    BY <1>3, <1>8 DEF Fresh, Age
  <2>4. now - slot.saved < (cfg.ttl + 1) * Second
    <3> DEFINE a == now - slot.saved
    <3>1. a \in Nat /\ a \div Second <= cfg.ttl
      BY <2>2, <2>3
    <3> HIDE DEF a
    <3>2. a < (cfg.ttl + 1) * Second
      BY <2>1, <3>1, SecondAssumption, TruncatedAge
    <3> QED BY <3>2 DEF a
  <2> QED BY <1>6, <2>4
<1> QED BY <1>7, <1>8 DEF Earned

\* A reused entry was measured for this config, gateway and prefix, and, in
\* the boot that measured it, no longer than the ttl and a second ago.
THEOREM ReuseIsAlwaysEarned == Spec => ReuseIsEarned
<1>1. IInv /\ [Next]_vars => [out'.memory.valid /\ ~out.memory.valid => Earned]_vars
  BY ValidOnlyByLoad, LoadIsEarned
<1>2. [][out'.memory.valid /\ ~out.memory.valid => Earned]_vars => ReuseIsEarned
  <2>1. [out'.memory.valid /\ ~out.memory.valid => Earned]_vars =>
          [out'.memory.valid /\ ~out.memory.valid =>
             /\ origin.fp = cfg.fp
             /\ SameNetwork(origin.sensing, out.sensing)
             /\ origin.boot = boot /\ cfg.ttl # 0 =>
                  now - origin.at < (cfg.ttl + 1) * Second]_vars
    BY DEF Earned
  <2> QED BY <2>1, PTL DEF ReuseIsEarned
<1> QED BY <1>1, <1>2, InductiveInvariant, PTL DEF Spec
=============================================================================

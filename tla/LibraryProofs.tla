---------------------------- MODULE LibraryProofs ----------------------------
(***************************************************************************)
(* Theorems about what the rest of the library stands on: the source of    *)
(* random numbers (Entropy), the configurations (Config), and a program's  *)
(* sessions with the tools (Api).                                          *)
(***************************************************************************)
EXTENDS Entropy, Api, FiniteSetTheorems, SequenceTheorems, WellFoundedInduction, TLAPS

-----------------------------------------------------------------------------
(* Random numbers.                                                         *)

DescriptorInv == ReadsAreOpen /\ SharedIsOpen /\ OwnIsPrivate /\ Losers

Source == IF kernel THEN "getrandom" ELSE "device"

-----------------------------------------------------------------------------
(* Types.                                                                  *)

LEMMA TypeInit == Init => TypeOK
BY EntropyAssumption DEF Init, TypeOK, Untouched, Bytes, Pcs, Sources

\* A receive moves one thread's offset on and fills that part of its buffer.
LEMMA ReceiveFacts ==
  ASSUME TypeOK, NEW t \in Threads, NEW source, Receive(t, source)
  PROVE  \E k \in 1..(size[t] - off[t]) :
           /\ off' = [off EXCEPT ![t] = off[t] + k]
           /\ off[t] + k \in 1..size[t]
           /\ buf' = [buf EXCEPT ![t] =
                [i \in Bytes |-> IF i \in (off[t] + 1)..(off[t] + k) THEN source ELSE buf[t][i]]]
           /\ IF off[t] + k = size[t] THEN Return(t, "OK") ELSE UNCHANGED <<pc, rc>>
<1>1. size[t] \in Nat /\ off[t] \in Nat
  BY EntropyAssumption DEF TypeOK
<1>2. PICK k \in 1..(size[t] - off[t]) :
           /\ off' = [off EXCEPT ![t] = off[t] + k]
           /\ buf' = [buf EXCEPT ![t] =
                [i \in Bytes |-> IF i \in (off[t] + 1)..(off[t] + k) THEN source ELSE buf[t][i]]]
           /\ IF off[t] + k = size[t] THEN Return(t, "OK") ELSE UNCHANGED <<pc, rc>>
  BY DEF Receive, Missing, Filled, TypeOK
<1>3. off[t] + k \in 1..size[t]
  BY <1>1
<1> QED BY <1>2, <1>3

LEMMA ReceiveType ==
  ASSUME TypeOK, NEW t \in Threads, NEW source \in {"getrandom", "device"}, Receive(t, source)
  PROVE  TypeOK'
<1>1. PICK k \in 1..(size[t] - off[t]) :
           /\ off' = [off EXCEPT ![t] = off[t] + k]
           /\ off[t] + k \in 1..size[t]
           /\ buf' = [buf EXCEPT ![t] =
                [i \in Bytes |-> IF i \in (off[t] + 1)..(off[t] + k) THEN source ELSE buf[t][i]]]
           /\ IF off[t] + k = size[t] THEN Return(t, "OK") ELSE UNCHANGED <<pc, rc>>
  BY ReceiveFacts
<1>2. UNCHANGED <<kernel, shared, open, fd, size>>
  BY DEF Receive
<1>3. off' \in [Threads -> 0..MaxSize] /\ \A u \in Threads : off'[u] <= size[u]
  BY <1>1, EntropyAssumption DEF TypeOK
<1>4. buf' \in [Threads -> [Bytes -> Sources]]
  BY <1>1 DEF TypeOK, Sources
<1>5. pc' \in [Threads -> Pcs] /\ rc' \in [Threads -> {"NONE", "OK", "IO"}]
  BY <1>1 DEF TypeOK, Return, GoTo, Pcs
<1> QED BY <1>2, <1>3, <1>4, <1>5 DEF TypeOK

LEMMA FailType ==
  ASSUME TypeOK, NEW t \in Threads, Fail(t)
  PROVE  TypeOK'
BY DEF Fail, Return, GoTo, TypeOK, Pcs

LEMMA TypeStep ==
  ASSUME TypeOK, NEW t \in Threads, Step(t)
  PROVE  TypeOK'
<1>1. CASE Call(t)
  <2>1. PICK n \in Bytes : size' = [size EXCEPT ![t] = n]
    BY <1>1 DEF Call
  <2>2. n \in 0..MaxSize /\ 0 <= n
    BY EntropyAssumption DEF Bytes
  <2>3. Untouched \in [Bytes -> Sources]
    BY DEF Untouched, Sources
  <2> QED BY <1>1, <2>1, <2>2, <2>3, EntropyAssumption DEF Call, GoTo, TypeOK, Pcs
<1>2. CASE GetRandom(t)
  BY <1>2, ReceiveType, FailType DEF GetRandom
<1>3. CASE NoGetRandom(t)
  BY <1>3 DEF NoGetRandom, GoTo, TypeOK, Pcs
<1>4. CASE Look(t)
  BY <1>4 DEF Look, GoTo, TypeOK, Pcs
<1>5. CASE OpenDevice(t)
  <2>1. CASE Fail(t) BY <2>1, FailType
  <2>2. CASE ~Fail(t)
    <3>1. PICK f \in Fds : open' = open \cup {f} /\ fd' = [fd EXCEPT ![t] = f]
      BY <1>5, <2>2 DEF OpenDevice
    <3>2. /\ pc' = [pc EXCEPT ![t] = "again"]
          /\ UNCHANGED <<kernel, shared, size, off, buf, rc>>
      BY <1>5, <2>2 DEF OpenDevice, GoTo
    <3>3. pc' \in [Threads -> Pcs] BY <3>2 DEF TypeOK, Pcs
    <3>4. fd' \in [Threads -> Fds \cup {NoFd}] /\ open' \subseteq Fds BY <3>1 DEF TypeOK
    <3> QED BY <3>2, <3>3, <3>4 DEF TypeOK
  <2> QED BY <2>1, <2>2
<1>6. CASE LookAgain(t)
  BY <1>6 DEF LookAgain, GoTo, TypeOK, Pcs
<1>7. CASE Yield(t)
  BY <1>7 DEF Yield, GoTo, TypeOK, Pcs
<1>8. CASE Take(t)
  BY <1>8 DEF Take, GoTo, TypeOK, Pcs
<1>9. CASE Publish(t)
  BY <1>9 DEF Publish, GoTo, TypeOK, Pcs
<1>10. CASE ReadDevice(t)
  BY <1>10, ReceiveType, FailType DEF ReadDevice
<1> QED BY <1>1, <1>2, <1>3, <1>4, <1>5, <1>6, <1>7, <1>8, <1>9, <1>10 DEF Step

-----------------------------------------------------------------------------
(* Descriptors.                                                            *)

LEMMA DescriptorInit == Init => DescriptorInv
BY DEF Init, DescriptorInv, ReadsAreOpen, SharedIsOpen, OwnIsPrivate, HasOwn, Losers

\* A step that leaves the descriptors alone and brings its thread nowhere it
\* would need one.
LEMMA Elsewhere ==
  ASSUME TypeOK, DescriptorInv, NEW t \in Threads, UNCHANGED <<shared, open>>,
         \A u \in Threads \ {t} : pc'[u] = pc[u] /\ fd'[u] = fd[u],
         \/ pc'[t] \in {"idle", "ask", "look", "open"}
         \/ pc'[t] = pc[t] /\ fd'[t] = fd[t]
  PROVE  DescriptorInv'
<1> USE DEF DescriptorInv
<1>1. \A u \in Threads : pc'[u] \in {"again", "yield", "take", "publish", "read"} =>
        pc'[u] = pc[u] /\ fd'[u] = fd[u]
  OBVIOUS
<1>2. ReadsAreOpen'
  BY <1>1 DEF ReadsAreOpen
<1>3. SharedIsOpen' /\ Losers'
  BY <1>1 DEF SharedIsOpen, Losers
<1>4. OwnIsPrivate'
  BY <1>1 DEF OwnIsPrivate, HasOwn
<1> QED BY <1>2, <1>3, <1>4

LEMMA ReceiveDescriptors ==
  ASSUME TypeOK, DescriptorInv, NEW t \in Threads, NEW source, Receive(t, source)
  PROVE  DescriptorInv'
<1>1. UNCHANGED <<shared, open, fd>>
  BY DEF Receive
<1>2. UNCHANGED pc \/ pc' = [pc EXCEPT ![t] = "idle"]
  BY DEF Receive, Return, GoTo
<1> QED BY <1>1, <1>2, Elsewhere DEF TypeOK

LEMMA FailDescriptors ==
  ASSUME TypeOK, DescriptorInv, NEW t \in Threads, Fail(t)
  PROVE  DescriptorInv'
BY Elsewhere DEF Fail, Return, GoTo, TypeOK

LEMMA DescriptorStep ==
  ASSUME TypeOK, DescriptorInv, NEW t \in Threads, Step(t)
  PROVE  DescriptorInv'
<1>1. CASE Call(t)
  BY <1>1, Elsewhere DEF Call, GoTo, TypeOK
<1>2. CASE GetRandom(t)
  BY <1>2, ReceiveDescriptors, FailDescriptors DEF GetRandom
<1>3. CASE NoGetRandom(t)
  BY <1>3, Elsewhere DEF NoGetRandom, GoTo, TypeOK
<1>4. CASE Look(t)
  <2>1. CASE shared = NoFd
    BY <1>4, <2>1, Elsewhere DEF Look, IsOpen, GoTo, TypeOK
  <2>2. CASE shared # NoFd
    <3>1. /\ fd' = [fd EXCEPT ![t] = shared] /\ pc' = [pc EXCEPT ![t] = "read"]
          /\ shared' = shared /\ open' = open /\ shared \in open
      BY <1>4, <2>2 DEF Look, IsOpen, GoTo, DescriptorInv, SharedIsOpen
    <3>2. fd'[t] = shared /\ pc'[t] = "read" BY <3>1 DEF TypeOK
    <3>3. ASSUME NEW u \in Threads, u # t PROVE fd'[u] = fd[u] /\ pc'[u] = pc[u]
      BY <3>1, <3>3 DEF TypeOK
    <3>4. ReadsAreOpen' BY <3>1, <3>2, <3>3 DEF DescriptorInv, ReadsAreOpen
    <3>5. SharedIsOpen' /\ Losers' BY <2>2, <3>1 DEF SharedIsOpen, Losers
    <3>6. OwnIsPrivate'
      BY <3>1, <3>2, <3>3 DEF DescriptorInv, OwnIsPrivate, HasOwn
    <3> QED BY <3>4, <3>5, <3>6 DEF DescriptorInv
  <2> QED BY <2>1, <2>2
<1>5. CASE OpenDevice(t)
  <2>1. CASE Fail(t)
    BY <2>1, FailDescriptors
  <2>2. CASE ~Fail(t)
    <3>1. PICK f \in Fds \ open : open' = open \cup {f} /\ fd' = [fd EXCEPT ![t] = f]
      BY <1>5, <2>2 DEF OpenDevice
    <3>2. pc' = [pc EXCEPT ![t] = "again"] /\ shared' = shared /\ shared # f
      BY <1>5, <2>2, <3>1, EntropyAssumption DEF OpenDevice, GoTo, DescriptorInv, SharedIsOpen
    <3>3. \A u \in Threads \ {t} : HasOwn(u) \/ pc[u] = "read" => fd[u] # f
      BY <3>1 DEF DescriptorInv, OwnIsPrivate, ReadsAreOpen
    <3> QED BY <3>1, <3>2, <3>3 DEF TypeOK, DescriptorInv, ReadsAreOpen, SharedIsOpen,
                                    OwnIsPrivate, HasOwn, Losers
  <2> QED BY <2>1, <2>2
<1>6. CASE LookAgain(t)
  BY <1>6 DEF LookAgain, GoTo, TypeOK, DescriptorInv, ReadsAreOpen, SharedIsOpen,
              OwnIsPrivate, HasOwn, Losers
<1>7. CASE Yield(t)
  BY <1>7 DEF Yield, Own, GoTo, TypeOK, DescriptorInv, ReadsAreOpen, SharedIsOpen,
              OwnIsPrivate, HasOwn, Losers
<1>8. CASE Take(t)
  BY <1>8 DEF Take, GoTo, TypeOK, DescriptorInv, ReadsAreOpen, SharedIsOpen,
              OwnIsPrivate, HasOwn, Losers
<1>9. CASE Publish(t)
  BY <1>9, EntropyAssumption DEF Publish, GoTo, TypeOK, DescriptorInv, ReadsAreOpen,
              SharedIsOpen, OwnIsPrivate, HasOwn, Losers
<1>10. CASE ReadDevice(t)
  BY <1>10, ReceiveDescriptors, FailDescriptors DEF ReadDevice
<1> QED BY <1>1, <1>2, <1>3, <1>4, <1>5, <1>6, <1>7, <1>8, <1>9, <1>10 DEF Step

-----------------------------------------------------------------------------
(* Buffers.                                                                *)

LEMMA PrefixInit == Init => Prefix
BY DEF Init, Prefix

\* The threads other than t keep their part of Prefix.
PrefixOf(t) ==
  /\ pc[t] \notin {"idle", "ask"} => ~kernel
  /\ pc[t] \notin {"idle", "read"} /\ ~kernel => off[t] = 0
  /\ \A i \in 1..off[t] : buf[t][i] = Source
  /\ pc[t] = "idle" /\ rc[t] = "OK" => off[t] = size[t]

LEMMA PrefixParts == Prefix <=> \A t \in Threads : PrefixOf(t)
BY DEF Prefix, PrefixOf, Source

LEMMA ReceivePrefix ==
  ASSUME TypeOK, NEW t \in Threads, PrefixOf(t), Receive(t, Source),
         (pc[t] = "ask" /\ kernel) \/ pc[t] = "read"
  PROVE  PrefixOf(t)'
<1>1. PICK k \in 1..(size[t] - off[t]) :
           /\ off' = [off EXCEPT ![t] = off[t] + k]
           /\ off[t] + k \in 1..size[t]
           /\ buf' = [buf EXCEPT ![t] =
                [i \in Bytes |-> IF i \in (off[t] + 1)..(off[t] + k) THEN Source ELSE buf[t][i]]]
           /\ IF off[t] + k = size[t] THEN Return(t, "OK") ELSE UNCHANGED <<pc, rc>>
  BY ReceiveFacts
<1>2. UNCHANGED <<kernel, size>> /\ Source' = Source
  BY DEF Receive, Source
<1>3. off'[t] = off[t] + k /\ off[t] \in Nat /\ k \in Nat /\ size[t] \in 0..MaxSize
  BY <1>1, EntropyAssumption DEF TypeOK
<1>4. \A i \in 1..off'[t] : buf'[t][i] = Source'
  <2> SUFFICES ASSUME NEW i \in 1..off'[t] PROVE buf'[t][i] = Source
    BY <1>2
  <2>1. i \in Bytes
    BY <1>1, <1>3, EntropyAssumption DEF Bytes
  <2>2. buf'[t][i] = IF i \in (off[t] + 1)..(off[t] + k) THEN Source ELSE buf[t][i]
    BY <1>1, <2>1 DEF TypeOK
  <2>3. i \in (off[t] + 1)..(off[t] + k) \/ i \in 1..off[t]
    BY <1>3
  <2> QED BY <2>2, <2>3 DEF PrefixOf
<1>5. CASE off[t] + k = size[t]
  <2>1. pc'[t] = "idle" /\ off'[t] = size'[t]
    BY <1>1, <1>2, <1>3, <1>5 DEF Return, GoTo, TypeOK
  <2> QED BY <1>4, <2>1 DEF PrefixOf
<1>6. CASE off[t] + k # size[t]
  <2>1. pc'[t] = pc[t]
    BY <1>1, <1>6
  <2> QED BY <1>2, <1>4, <2>1 DEF PrefixOf
<1> QED BY <1>5, <1>6

LEMMA PrefixStep ==
  ASSUME TypeOK, Prefix, NEW t \in Threads, Step(t)
  PROVE  Prefix'
<1>1. \A u \in Threads : PrefixOf(u)
  BY PrefixParts
<1>2. kernel' = kernel
  BY DEF Step, Call, GetRandom, NoGetRandom, Look, OpenDevice, LookAgain, Yield, Take, Publish,
         ReadDevice, Receive, Fail
<1>3. ASSUME NEW u \in Threads \ {t} PROVE PrefixOf(u)'
  <2>1. pc'[u] = pc[u] /\ rc'[u] = rc[u] /\ off'[u] = off[u] /\ size'[u] = size[u]
        /\ buf'[u] = buf[u]
    BY DEF Step, Call, GetRandom, NoGetRandom, Look, OpenDevice, LookAgain, Yield, Take,
           Publish, ReadDevice, Receive, Fail, Return, GoTo, TypeOK
  <2> QED BY <1>1, <1>2, <2>1 DEF PrefixOf, Source
<1>4. PrefixOf(t)'
  <2>0. PrefixOf(t)
    BY <1>1
  <2>1. CASE Call(t)
    <3>1. off'[t] = 0 /\ pc'[t] = "ask"
      BY <2>1 DEF Call, GoTo, TypeOK
    <3> QED BY <3>1 DEF PrefixOf
  <2>2. CASE Fail(t) /\ pc[t] # "idle"
    <3>1. pc'[t] = "idle" /\ rc'[t] = "IO" /\ off'[t] = off[t] /\ buf'[t] = buf[t]
      BY <2>2 DEF Fail, Return, GoTo, TypeOK
    <3> QED BY <1>2, <2>0, <3>1 DEF PrefixOf, Source
  <2>3. CASE GetRandom(t)
    <3>1. Source = "getrandom"
      BY <2>3 DEF GetRandom, Source
    <3> QED BY <2>0, <2>2, <2>3, <3>1, ReceivePrefix DEF GetRandom
  <2>4. CASE ReadDevice(t)
    <3>1. Source = "device"
      BY <2>0, <2>4 DEF ReadDevice, Source, PrefixOf
    <3> QED BY <2>0, <2>2, <2>4, <3>1, ReceivePrefix DEF ReadDevice
  <2>5. CASE NoGetRandom(t) \/ Look(t) \/ (OpenDevice(t) /\ ~Fail(t)) \/ LookAgain(t) \/ Yield(t)
             \/ Take(t) \/ Publish(t)
    <3>1. ~kernel /\ off[t] = 0
      BY <2>0, <2>5 DEF NoGetRandom, Look, OpenDevice, LookAgain, Yield, Take, Publish, PrefixOf
    <3>2. off'[t] = off[t] /\ pc'[t] # "idle"
      BY <2>5 DEF NoGetRandom, Look, OpenDevice, LookAgain, Yield, Take, Publish, GoTo, TypeOK
    <3> QED BY <1>2, <3>1, <3>2 DEF PrefixOf
  <2>6. CASE OpenDevice(t) /\ Fail(t)
    BY <2>2, <2>6 DEF OpenDevice
  <2> QED BY <2>1, <2>3, <2>4, <2>5, <2>6 DEF Step
<1> QED BY <1>3, <1>4, PrefixParts DEF Prefix, PrefixOf, Source

-----------------------------------------------------------------------------
(* Counting descriptors.                                                   *)

LEMMA CountsAreNumbers ==
  ASSUME NEW S \in SUBSET Threads
  PROVE  IsFiniteSet(S) /\ Cardinality(S) \in Nat
BY EntropyAssumption, FS_Subset, FS_CardinalityType

LEMMA CountedInit == Init => Counted
<1> SUFFICES ASSUME Init PROVE Counted
  OBVIOUS
<1>1. Opening = {} /\ Owners = {} /\ open = {}
  BY DEF Init, Opening, Owners, HasOwn
<1>2. Cardinality(Threads) \in Nat
  BY CountsAreNumbers
<1> QED BY <1>1, <1>2, FS_EmptySet DEF Counted

\* A step that neither opens nor publishes, and brings nobody to opening.
LEMMA CountedStays ==
  ASSUME Counted, UNCHANGED <<open, shared>>, Opening' \subseteq Opening, Owners' = Owners
  PROVE  Counted'
<1>1. Opening \in SUBSET Threads /\ Opening' \in SUBSET Opening
  BY DEF Opening
<1>2. /\ Cardinality(Opening) \in Nat /\ Cardinality(Opening') \in Nat
      /\ Cardinality(Opening') <= Cardinality(Opening)
  BY <1>1, CountsAreNumbers, FS_Subset
<1>3. Cardinality(open) \in Nat /\ Cardinality(Threads) \in Nat
  BY CountsAreNumbers, FS_CardinalityType DEF Counted
<1> QED BY <1>2, <1>3 DEF Counted

LEMMA CountedLook ==
  ASSUME TypeOK, Counted, NEW t \in Threads, Look(t)
  PROVE  Counted'
<1>1. CASE shared # NoFd
  <2>1. Opening' = Opening /\ Owners' = Owners
    BY <1>1 DEF Look, IsOpen, GoTo, TypeOK, Opening, Owners, HasOwn
  <2> QED BY <2>1, CountedStays DEF Look
<1>2. CASE shared = NoFd
  <2>1. Opening' = Opening \cup {t} /\ Owners' = Owners /\ t \notin Owners
    BY <1>2 DEF Look, IsOpen, GoTo, TypeOK, Opening, Owners, HasOwn
  <2>2. Opening' \in SUBSET Threads /\ Owners \in SUBSET Threads
        /\ Opening' \cap Owners = {} /\ Opening' \cup Owners \in SUBSET Threads
    BY <2>1 DEF Opening, Owners, HasOwn
  <2>3. /\ Cardinality(Opening') \in Nat /\ Cardinality(Owners) \in Nat
        /\ IsFiniteSet(Opening') /\ IsFiniteSet(Owners) /\ Cardinality(Threads) \in Nat
    BY <2>2, CountsAreNumbers
  <2>4. Cardinality(Opening' \cup Owners) = Cardinality(Opening') + Cardinality(Owners)
    <3>1. Cardinality(Opening' \cup Owners)
            = Cardinality(Opening') + Cardinality(Owners) - Cardinality(Opening' \cap Owners)
      BY <2>3, FS_Union
    <3>2. Cardinality(Opening' \cap Owners) = 0
      BY <2>2, FS_EmptySet
    <3> QED BY <2>3, <3>1, <3>2
  <2>5. Cardinality(Opening' \cup Owners) <= Cardinality(Threads)
    BY <2>2, EntropyAssumption, FS_Subset
  <2>6. open' = open /\ Cardinality(open) = Cardinality(Owners) /\ IsFiniteSet(open)
    BY <1>2 DEF Look, Counted
  <2> QED BY <2>1, <2>3, <2>4, <2>5, <2>6 DEF Counted
<1> QED BY <1>1, <1>2

LEMMA CountedFail ==
  ASSUME TypeOK, Counted, NEW t \in Threads, Fail(t), ~HasOwn(t)
  PROVE  Counted'
<1>1. Opening' \subseteq Opening /\ Owners' = Owners
  BY DEF Fail, Return, GoTo, TypeOK, Opening, Owners, HasOwn
<1> QED BY <1>1, CountedStays DEF Fail

LEMMA CountedOpen ==
  ASSUME TypeOK, Counted, NEW t \in Threads, OpenDevice(t), ~Fail(t)
  PROVE  Counted'
<1>1. PICK f \in Fds \ open : open' = open \cup {f}
  BY DEF OpenDevice
<1>2. pc[t] = "open" /\ pc' = [pc EXCEPT ![t] = "again"] /\ shared' = shared
  BY DEF OpenDevice, GoTo
<1>3. Opening' = Opening \ {t} /\ t \in Opening /\ Owners' = Owners \cup {t} /\ t \notin Owners
  BY <1>2 DEF TypeOK, Opening, Owners, HasOwn
<1>4. Opening \in SUBSET Threads /\ Owners \in SUBSET Threads
  BY DEF Opening, Owners
<1>5. /\ IsFiniteSet(open') /\ Cardinality(open') = Cardinality(open) + 1
  BY <1>1, FS_AddElement DEF Counted
<1>6. Cardinality(Opening') = Cardinality(Opening) - 1
  BY <1>3, <1>4, CountsAreNumbers, FS_RemoveElement
<1>7. Cardinality(Owners') = Cardinality(Owners) + 1
  BY <1>3, <1>4, CountsAreNumbers, FS_AddElement
<1>8. /\ Cardinality(open) \in Nat /\ Cardinality(Opening) \in Nat
      /\ Cardinality(Owners) \in Nat /\ Cardinality(Threads) \in Nat
  BY <1>4, CountsAreNumbers, FS_CardinalityType DEF Counted
<1> QED BY <1>2, <1>5, <1>6, <1>7, <1>8 DEF Counted

LEMMA CountedYield ==
  ASSUME TypeOK, DescriptorInv, Counted, NEW t \in Threads, Yield(t)
  PROVE  Counted'
<1>1. open' = open \ {fd[t]} /\ fd[t] \in open /\ shared' = shared /\ shared # NoFd
  BY DEF Yield, Own, DescriptorInv, OwnIsPrivate, HasOwn, Losers
<1>2. Opening' = Opening /\ Opening \in SUBSET Threads
  BY DEF Yield, GoTo, TypeOK, Opening
<1>3. IsFiniteSet(open') /\ Cardinality(open') = Cardinality(open) - 1
  BY <1>1, FS_RemoveElement DEF Counted
<1>4. Cardinality(open) \in Nat /\ Cardinality(Opening) \in Nat /\ Cardinality(Threads) \in Nat
  BY <1>2, CountsAreNumbers, FS_CardinalityType DEF Counted
<1> QED BY <1>1, <1>2, <1>3, <1>4 DEF Counted

LEMMA CountedPublish ==
  ASSUME TypeOK, DescriptorInv, Counted, NEW t \in Threads, Publish(t)
  PROVE  Counted'
<1>1. open' = open /\ shared' = fd[t] /\ fd[t] \in open
  BY DEF Publish, DescriptorInv, OwnIsPrivate, HasOwn
<1>2. shared' # NoFd
  BY <1>1, EntropyAssumption DEF TypeOK
<1>3. Opening' = Opening
  BY DEF Publish, GoTo, TypeOK, Opening
<1> QED BY <1>1, <1>2, <1>3 DEF Counted

LEMMA CountedReceive ==
  ASSUME TypeOK, Counted, NEW t \in Threads, NEW source, Receive(t, source),
         pc[t] \in {"ask", "read"}
  PROVE  Counted'
<1>1. UNCHANGED pc \/ pc' = [pc EXCEPT ![t] = "idle"]
  BY DEF Receive, Return, GoTo
<1>2. Opening' = Opening /\ Owners' = Owners
  BY <1>1 DEF TypeOK, Opening, Owners, HasOwn
<1> QED BY <1>2, CountedStays DEF Receive

LEMMA CountedStep ==
  ASSUME TypeOK, DescriptorInv, Counted, NEW t \in Threads, Step(t)
  PROVE  Counted'
<1>1. CASE Call(t)
  <2>1. Opening' = Opening /\ Owners' = Owners
    BY <1>1 DEF Call, GoTo, TypeOK, Opening, Owners, HasOwn
  <2> QED BY <1>1, <2>1, CountedStays DEF Call
<1>2. CASE GetRandom(t)
  BY <1>2, CountedReceive, CountedFail DEF GetRandom, HasOwn
<1>3. CASE NoGetRandom(t)
  <2>1. Opening' = Opening /\ Owners' = Owners
    BY <1>3 DEF NoGetRandom, GoTo, TypeOK, Opening, Owners, HasOwn
  <2> QED BY <1>3, <2>1, CountedStays DEF NoGetRandom
<1>4. CASE Look(t)
  BY <1>4, CountedLook
<1>5. CASE OpenDevice(t)
  BY <1>5, CountedOpen, CountedFail DEF OpenDevice, HasOwn
<1>6. CASE LookAgain(t)
  <2>1. Opening' = Opening /\ Owners' = Owners
    BY <1>6 DEF LookAgain, GoTo, TypeOK, Opening, Owners, HasOwn
  <2> QED BY <1>6, <2>1, CountedStays DEF LookAgain
<1>7. CASE Yield(t)
  BY <1>7, CountedYield
<1>8. CASE Take(t)
  <2>1. Opening' = Opening /\ Owners' = Owners
    BY <1>8 DEF Take, GoTo, TypeOK, Opening, Owners, HasOwn
  <2> QED BY <1>8, <2>1, CountedStays DEF Take
<1>9. CASE Publish(t)
  BY <1>9, CountedPublish
<1>10. CASE ReadDevice(t)
  BY <1>10, CountedReceive, CountedFail DEF ReadDevice, HasOwn
<1> QED BY <1>1, <1>2, <1>3, <1>4, <1>5, <1>6, <1>7, <1>8, <1>9, <1>10 DEF Step

-----------------------------------------------------------------------------
(* The theorems.                                                           *)

\* Types, descriptors and buffers together are inductive.
THEOREM Inductive == Spec => []IInv
<1>1. Init => IInv
  BY TypeInit, DescriptorInit, PrefixInit DEF IInv, DescriptorInv
<1>2. IInv /\ [Next]_vars => IInv'
  <2> SUFFICES ASSUME IInv, [Next]_vars PROVE IInv'
    OBVIOUS
  <2>1. TypeOK /\ DescriptorInv /\ Prefix
    BY DEF IInv, DescriptorInv
  <2>2. CASE Next
    <3>1. PICK t \in Threads : Step(t)
      BY <2>2 DEF Next
    <3>2. TypeOK' /\ DescriptorInv' /\ Prefix'
      BY <2>1, <3>1, TypeStep, DescriptorStep, PrefixStep
    <3> QED BY <3>2 DEF IInv, DescriptorInv
  <2>3. CASE UNCHANGED vars
    BY <2>1, <2>3 DEF IInv, TypeOK, DescriptorInv, ReadsAreOpen, SharedIsOpen, OwnIsPrivate,
                      HasOwn, Losers, Prefix, vars
  <2> QED BY <2>2, <2>3
<1> QED BY <1>1, <1>2, PTL DEF Spec

\* Type correctness of the random source.
THEOREM TypeCorrect == Spec => []TypeOK
<1>1. IInv => TypeOK
  BY DEF IInv
<1> QED BY <1>1, Inductive, PTL

\* However many threads open, publish, close and read at once, none reads a
\* descriptor that is closed: the race rand.c calls benign is.
THEOREM NoReadAfterClose == Spec => []ReadsAreOpen
<1>1. IInv => ReadsAreOpen
  BY DEF IInv
<1> QED BY <1>1, Inductive, PTL

\* A call that says OK has filled the whole buffer, after any number of short
\* reads, from getrandom wherever there is one.
THEOREM NoPartialFill == Spec => []AnswersAreWhole
<1>1. IInv => AnswersAreWhole
  BY DEF IInv, Prefix, AnswersAreWhole
<1> QED BY <1>1, Inductive, PTL

\* Counting goes along with the invariant.
THEOREM CountedAlways == Spec => []Counted
<1>1. Init => Counted
  BY CountedInit
<1>2. IInv /\ Counted /\ [Next]_vars => Counted'
  <2> SUFFICES ASSUME IInv, Counted, [Next]_vars PROVE Counted'
    OBVIOUS
  <2>1. CASE Next
    <3>1. PICK t \in Threads : Step(t)
      BY <2>1 DEF Next
    <3>2. TypeOK /\ DescriptorInv
      BY DEF IInv, DescriptorInv
    <3> QED BY <3>1, <3>2, CountedStep
  <2>2. CASE UNCHANGED vars
    BY <2>2 DEF Counted, Opening, Owners, HasOwn, vars
  <2> QED BY <2>1, <2>2
<1> QED BY <1>1, <1>2, Inductive, PTL DEF Spec

\* However many threads race to open the device, and however often they lose
\* a descriptor, one for each thread is the most that stays open.
THEOREM LossIsBounded == Spec => []DescriptorsBounded
<1>1. Counted => DescriptorsBounded
  <2> SUFFICES ASSUME Counted PROVE DescriptorsBounded
    OBVIOUS
  <2>1. Opening \in SUBSET Threads
    BY DEF Opening
  <2>2. Cardinality(open) \in Nat /\ Cardinality(Opening) \in Nat /\ Cardinality(Threads) \in Nat
    BY <2>1, CountsAreNumbers, FS_CardinalityType DEF Counted
  <2> QED BY <2>2 DEF Counted, DescriptorsBounded
<1> QED BY <1>1, CountedAlways, PTL

-----------------------------------------------------------------------------
(* Configurations.                                                         *)

Consented == {"BIRTHDAY", "UPGRADE"}

\* The numbers, the weapons and the flags of a prepared configuration.
Completed(conf, n) == IF conf.numbers[n] = 0 THEN Bounds[n][3] ELSE conf.numbers[n]
Wanted(conf)    == IF conf.weapons = {} THEN DEFAULT_WEAPONS ELSE conf.weapons
Switched(conf)  == IF conf.version = 0 THEN Flags \ {"sweet_aggressive"} ELSE conf.flags
Armed(conf)     == IF "sweet_aggressive" \in Switched(conf) THEN Wanted(conf)
                  ELSE Wanted(conf) \ Consented
Idle(weapons, flags) ==
  (IF weapons \cap {"HOLE", "PREDICT"} = {} THEN {"sweet"} ELSE {})
  \cup (IF "relay" \in flags THEN {} ELSE {"relay_upgrade"})
  \cup (IF weapons = {} THEN {"blitz", "strike"} ELSE {})

-----------------------------------------------------------------------------
(* The tables.                                                             *)

LEMMA BoundsAreOrdered ==
  \A n \in NumberNames :
    /\ Bounds[n][1] \in Nat /\ Bounds[n][2] \in Nat /\ Bounds[n][3] \in Nat
    /\ 0 < Bounds[n][1] /\ Bounds[n][1] <= Bounds[n][3] /\ Bounds[n][3] <= Bounds[n][2]
BY DEF NumberNames, Bounds

LEMMA DefaultWeapons ==
  /\ DEFAULT_WEAPONS \subseteq Weapons
  /\ DEFAULT_WEAPONS \cap Consented = {}
  /\ {"HOLE", "PREDICT"} \subseteq DEFAULT_WEAPONS
BY DEF DEFAULT_WEAPONS, Weapons, Consented

-----------------------------------------------------------------------------
(* What preparing does to each field.                                      *)

Rec(conf, version, weapons, numbers, flags) ==
  [version |-> version, strategy |-> conf.strategy, weapons |-> weapons,
   numbers |-> numbers, flags |-> flags, iface |-> conf.iface, port |-> conf.port,
   allocator |-> conf.allocator, storage |-> conf.storage]

Clipped(conf) ==
  [n \in NumberNames |-> config_clamp(Completed(conf, n), Bounds[n][1], Bounds[n][2])]

LEMMA PreparedFields ==
  ASSUME NEW conf \in Configurations
  PROVE  Prepared(conf) =
           Rec(conf, VERSION, Armed(conf), Clipped(conf),
               Switched(conf) \ Idle(Armed(conf), Switched(conf)))
<1> DEFINE filled  == [n \in NumberNames |-> Completed(conf, n)]
           a == Rec(conf, VERSION, Wanted(conf), filled, Switched(conf))
           b == Rec(conf, VERSION, Wanted(conf), Clipped(conf), Switched(conf))
           c == Rec(conf, VERSION, Armed(conf), Clipped(conf), Switched(conf))
<1>1. config_apply_defaults(conf) = a
  <2>1. conf = Rec(conf, conf.version, conf.weapons, conf.numbers, conf.flags)
    BY DEF Configurations, Rec
  <2>2. config_apply_defaults(conf)
          = [conf EXCEPT !.version = VERSION, !.weapons = Wanted(conf),
                        !.flags = Switched(conf), !.numbers = filled]
    BY DEF config_apply_defaults, Completed, Wanted, Switched
  <2> HIDE DEF filled
  <2> QED
    BY <2>1, <2>2 DEF Rec
<1>2. ClampNumbers(a) = b
  <2>1. a.numbers = filled
    BY DEF Rec
  <2>2. [n \in NumberNames |-> config_clamp(a.numbers[n], Bounds[n][1], Bounds[n][2])]
          = Clipped(conf)
    BY <2>1 DEF Clipped
  <2> HIDE DEF filled
  <2> QED
    BY <2>2 DEF ClampNumbers, Rec
<1>3. RequireConsent(b) = c
  BY DEF RequireConsent, Rec, Armed, Consented
<1>4. SwitchOff(c) = Rec(conf, VERSION, Armed(conf), Clipped(conf),
                         Switched(conf) \ Idle(Armed(conf), Switched(conf)))
  BY DEF SwitchOff, Rec, Idle
<1> QED
  BY <1>1, <1>2, <1>3, <1>4 DEF Prepared, config_normalize
-----------------------------------------------------------------------------
(* Soundness.                                                              *)

LEMMA ClippedIsBounded ==
  ASSUME NEW conf \in Configurations, NEW n \in NumberNames
  PROVE  /\ Clipped(conf)[n] \in Bounds[n][1]..Bounds[n][2]
         /\ Clipped(conf)[n] # 0
<1>1. conf.numbers[n] \in Nat
  BY DEF Configurations
<1>2. Completed(conf, n) \in Nat
  BY <1>1, BoundsAreOrdered DEF Completed
<1>3. Clipped(conf)[n] = config_clamp(Completed(conf, n), Bounds[n][1], Bounds[n][2])
  BY DEF Clipped
<1> DEFINE lo == Bounds[n][1]
           hi == Bounds[n][2]
<1>4. lo \in Nat /\ hi \in Nat /\ 0 < lo /\ lo <= hi
  BY BoundsAreOrdered
<1> HIDE DEF lo, hi
<1>5. config_clamp(Completed(conf, n), lo, hi) \in lo..hi
  BY <1>2, <1>4 DEF config_clamp
<1>6. config_clamp(Completed(conf, n), lo, hi) # 0
  BY <1>4, <1>5
<1> QED
  BY <1>3, <1>5, <1>6 DEF lo, hi

\* The weapons: none that is unknown, and none aggressive without consent.
LEMMA ArmedIsAllowed ==
  ASSUME NEW conf \in Configurations, conf.weapons \subseteq Weapons
  PROVE  /\ Armed(conf) \subseteq Weapons
         /\ Armed(conf) \cap Consented # {} => "sweet_aggressive" \in Switched(conf)
BY DefaultWeapons DEF Armed, Wanted, Consented

(* Whatever a host hands in, if it validates, what is prepared from it is  *)
(* sound: it would validate again, nothing is left to a default, and no    *)
(* feature is on whose means are missing (config.c:275-542).               *)
THEOREM PreparedIsSound ==
  ASSUME NEW conf \in Configurations, config_validate(conf)
  PROVE  Sound(Prepared(conf))
<1> DEFINE p == Prepared(conf)
           idle == Idle(Armed(conf), Switched(conf))
<1>1. /\ p.version = VERSION /\ p.strategy = conf.strategy /\ p.weapons = Armed(conf)
      /\ p.numbers = Clipped(conf) /\ p.flags = Switched(conf) \ idle
      /\ p.iface = conf.iface /\ p.allocator = conf.allocator /\ p.storage = conf.storage
  BY PreparedFields DEF Rec
<1>2. conf.weapons \subseteq Weapons
  BY DEF config_validate, weapon_mask_valid
<1>3. Armed(conf) \subseteq Weapons
  BY <1>2, ArmedIsAllowed
<1> HIDE DEF p, idle
<1>4. config_validate(p)
  <2>1. \A n \in NumberNames : p.numbers[n] = 0 \/ p.numbers[n] \in Bounds[n][1]..Bounds[n][2]
    BY <1>1, ClippedIsBounded
  <2>2. weapon_mask_valid(p.weapons)
    BY <1>1, <1>3 DEF weapon_mask_valid
  <2> QED
    BY <1>1, <2>1, <2>2 DEF config_validate
<1>5. \A n \in NumberNames : p.numbers[n] # 0
  BY <1>1, ClippedIsBounded
<1>6. p.weapons \cap Consented # {} => "sweet_aggressive" \in p.flags
  <2>1. "sweet_aggressive" \notin idle
    BY DEF idle, Idle
  <2> QED
    BY <1>1, <1>2, <2>1, ArmedIsAllowed
<1>7. /\ "relay_upgrade" \in p.flags => "relay" \in p.flags
      /\ p.flags \cap {"strike", "blitz"} # {} => p.weapons # {}
      /\ "sweet" \in p.flags => p.weapons \cap {"HOLE", "PREDICT"} # {}
  <2>1. "relay" \notin idle
    BY DEF idle, Idle
  <2> QED
    BY <1>1, <2>1 DEF idle, Idle
<1> QED
  BY <1>4, <1>5, <1>6, <1>7 DEF Sound, Consented, p

-----------------------------------------------------------------------------
(* Stability.                                                              *)

LEMMA ClippedTwice ==
  ASSUME NEW conf \in Configurations, NEW p \in Configurations, p.numbers = Clipped(conf)
  PROVE  Clipped(p) = Clipped(conf)
<1>1. SUFFICES ASSUME NEW n \in NumberNames
               PROVE  Clipped(p)[n] = Clipped(conf)[n]
  BY DEF Clipped
<1>2. Completed(p, n) = Clipped(conf)[n]
  BY ClippedIsBounded DEF Completed
<1>3. Clipped(p)[n] = config_clamp(Clipped(conf)[n], Bounds[n][1], Bounds[n][2])
  BY <1>2 DEF Clipped
<1> DEFINE v  == Clipped(conf)[n]
           lo == Bounds[n][1]
           hi == Bounds[n][2]
<1>4. v \in lo..hi /\ lo \in Nat /\ hi \in Nat
  BY ClippedIsBounded, BoundsAreOrdered
<1> HIDE DEF v, lo, hi
<1>5. config_clamp(v, lo, hi) = v
  BY <1>4 DEF config_clamp
<1> QED
  BY <1>3, <1>5 DEF v, lo, hi

(* Preparing a prepared configuration again changes nothing, the           *)
(* fingerprint in the cache's key included, unless no weapon was left: an  *)
(* empty set of weapons stands for all of them (config.c:286-300).         *)
THEOREM PreparedIsStable ==
  ASSUME NEW conf \in Configurations, config_validate(conf), Prepared(conf).weapons # {}
  PROVE  /\ Prepared(Prepared(conf)) = Prepared(conf)
         /\ config_fingerprint(Prepared(Prepared(conf))) = config_fingerprint(Prepared(conf))
<1> DEFINE p == Prepared(conf)
           idle == Idle(Armed(conf), Switched(conf))
<1>1. p = Rec(conf, VERSION, Armed(conf), Clipped(conf), Switched(conf) \ idle)
  BY PreparedFields
<1>2. /\ p.version = VERSION /\ p.strategy = conf.strategy /\ p.weapons = Armed(conf)
      /\ p.numbers = Clipped(conf) /\ p.flags = Switched(conf) \ idle
      /\ p.iface = conf.iface /\ p.port = conf.port
      /\ p.allocator = conf.allocator /\ p.storage = conf.storage
  BY <1>1 DEF Rec
<1>3. Armed(conf) # {}
  BY <1>2
<1>4. p \in Configurations
  <2>1. Clipped(conf) \in [NumberNames -> Nat]
    <3>1. \A n \in NumberNames : Clipped(conf)[n] \in Nat
      BY ClippedIsBounded, BoundsAreOrdered
    <3> QED
      BY <3>1 DEF Clipped
  <2>2. Armed(conf) \in SUBSET (Weapons \cup {NoWeapon})
    BY DefaultWeapons DEF Configurations, Armed, Wanted
  <2>3. Switched(conf) \ idle \in SUBSET Flags
    BY DEF Configurations, Switched
  <2>4. VERSION \in Nat
    BY DEF VERSION
  <2> HIDE DEF p, idle
  <2> QED
    BY <1>1, <2>1, <2>2, <2>3, <2>4 DEF Rec, Configurations
<1> HIDE DEF p
<1>5. Switched(p) = Switched(conf) \ idle
  BY <1>2 DEF Switched, VERSION
<1>6. Armed(p) = Armed(conf)
  <2>1. Wanted(p) = Armed(conf)
    BY <1>2, <1>3 DEF Wanted
  <2>2. "sweet_aggressive" \in Switched(p) <=> "sweet_aggressive" \in Switched(conf)
    BY <1>5 DEF Idle
  <2> QED
    BY <2>1, <2>2 DEF Armed
<1>7. Switched(p) \ Idle(Armed(p), Switched(p)) = Switched(conf) \ idle
  <2>1. "relay" \in Switched(p) <=> "relay" \in Switched(conf)
    BY <1>5 DEF Idle
  <2>2. Idle(Armed(p), Switched(p)) = idle
    BY <1>6, <2>1 DEF Idle
  <2> QED
    BY <1>5, <2>2
<1>8. Clipped(p) = Clipped(conf)
  BY <1>2, <1>4, ClippedTwice
<1>9. Prepared(p) = Rec(p, VERSION, Armed(conf), Clipped(conf), Switched(conf) \ idle)
  BY <1>4, <1>6, <1>7, <1>8, PreparedFields
<1>10. Rec(p, VERSION, Armed(conf), Clipped(conf), Switched(conf) \ idle) = p
  BY <1>1, <1>2 DEF Rec
<1> QED
  BY <1>9, <1>10 DEF p

-----------------------------------------------------------------------------
(* Sessions with the tools: one invariant a tool.  A session's tool does   *)
(* not change.                                                             *)

\* A prepared configuration.
ConfigInv ==
  tool = "config" /\ phase = "answered" =>
    /\ given \in Configurations /\ config_validate(given)
    /\ held = Prepared(given) /\ told = config_fingerprint(held)

\* The error context holds the end of what was pushed, each label cut.
ContextInv ==
  tool = "context" =>
    /\ given \in Seq(Seq(Nat)) /\ held \in Seq(Seq(Nat))
    /\ Len(held) <= MAX_DEPTH /\ Len(held) <= Len(given)
    /\ \A i \in 1..Len(held) : held[i] = Cut(given[Len(given) - Len(held) + i])

LEMMA OneTool ==
  /\ Write \/ Read => tool = "text" /\ tool' = tool
  /\ Compare => tool = "order" /\ tool' = tool
  /\ Push \/ Pop \/ Clear => tool = "context" /\ tool' = tool
  /\ Put \/ Rewind \/ Get => tool = "buffer" /\ tool' = tool
  /\ Prepare => tool = "config" /\ tool' = tool
  /\ Observe => tool = "ports" /\ tool' = tool
<1>1. Write \/ Read => tool = "text" /\ tool' = tool BY DEF Write, Read
<1>2. Compare => tool = "order" /\ tool' = tool BY DEF Compare
<1>3. Push \/ Pop \/ Clear => tool = "context" /\ tool' = tool BY DEF Push, Pop, Clear
<1>4. Put => tool = "buffer" /\ tool' = tool BY DEF Put
<1>5. Rewind => tool = "buffer" /\ tool' = tool BY DEF Rewind
<1>6. Get => tool = "buffer" /\ tool' = tool BY DEF Get
<1>7. Prepare => tool = "config" /\ tool' = tool BY DEF Prepare
<1>8. Observe => tool = "ports" /\ tool' = tool BY DEF Observe
<1> QED BY <1>1, <1>2, <1>3, <1>4, <1>5, <1>6, <1>7, <1>8

LEMMA AllButTheLast ==
  ASSUME NEW S, NEW s \in Seq(S), s # <<>>
  PROVE  /\ SubSeq(s, 1, Len(s) - 1) \in Seq(S)
         /\ Len(SubSeq(s, 1, Len(s) - 1)) = Len(s) - 1
         /\ \A i \in 1..(Len(s) - 1) : SubSeq(s, 1, Len(s) - 1)[i] = s[i]
<1>1. Len(s) \in Nat \ {0} OBVIOUS
<1> DEFINE n == Len(s) - 1
<1>2. n \in Nat /\ \A i \in 1..n : s[i] \in S BY <1>1
<1> HIDE DEF n
<1>3. /\ SubSeq(s, 1, n) \in Seq(S)
      /\ Len(SubSeq(s, 1, n)) = IF 1 <= n THEN n - 1 + 1 ELSE 0
      /\ \A i \in 1..(n - 1 + 1) : SubSeq(s, 1, n)[i] = s[1 + i - 1]
  BY <1>2, SubSeqProperties
<1>4. Len(SubSeq(s, 1, n)) = n BY <1>2, <1>3
<1>5. \A i \in 1..n : SubSeq(s, 1, n)[i] = s[i] BY <1>2, <1>3
<1> QED BY <1>3, <1>4, <1>5 DEF n

LEMMA CutIsText == ASSUME NEW label \in Seq(Nat) PROVE Cut(label) \in Seq(Nat)
BY ErrorsAssumption DEF Cut, Least

LEMMA InitContext == SessionInit => ContextInv
<1> SUFFICES ASSUME SessionInit, tool = "context" PROVE ContextInv
  BY DEF ContextInv
<1>1. given = <<>> /\ held = <<>> BY DEF SessionInit, Start
<1> QED BY <1>1, ErrorsAssumption DEF ContextInv

LEMMA PushContext == ContextInv /\ Push => ContextInv'
<1> SUFFICES ASSUME ContextInv, Push PROVE ContextInv' OBVIOUS
<1>1. PICK label \in Labels : given' = Append(given, label) /\ held' = err_push_context(held, label)
  BY DEF Push
<1>2. tool = "context" /\ label \in Seq(Nat) BY ApiAssumption DEF Push
<1> DEFINE kept == IF Len(held) >= MAX_DEPTH THEN Tail(held) ELSE held
<1>3. /\ given \in Seq(Seq(Nat)) /\ held \in Seq(Seq(Nat)) /\ Len(held) <= MAX_DEPTH
      /\ Len(held) <= Len(given) /\ MAX_DEPTH \in Nat \ {0}
      /\ \A i \in 1..Len(held) : held[i] = Cut(given[Len(given) - Len(held) + i])
  BY <1>2, ErrorsAssumption DEF ContextInv
<1>4. /\ kept \in Seq(Seq(Nat)) /\ Len(kept) < MAX_DEPTH /\ Len(kept) <= Len(given)
      /\ \A i \in 1..Len(kept) : kept[i] = Cut(given[Len(given) - Len(kept) + i])
  <2>1. CASE Len(held) >= MAX_DEPTH
    <3>1. Len(held) = MAX_DEPTH /\ held # <<>> BY <1>3, <2>1
    <3>2. /\ kept \in Seq(Seq(Nat)) /\ Len(kept) = Len(held) - 1
          /\ \A i \in 1..Len(kept) : i + 1 \in 1..Len(held) /\ kept[i] = held[i + 1]
      BY <1>3, <2>1, <3>1
    <3> HIDE DEF kept
    <3> QED BY <1>3, <3>1, <3>2
  <2>2. CASE ~(Len(held) >= MAX_DEPTH) BY <1>3, <2>2
  <2> QED BY <2>1, <2>2
<1>5. held' = Append(kept, Cut(label)) BY <1>1 DEF err_push_context, Cut
<1>6. Cut(label) \in Seq(Nat) BY <1>2, CutIsText
<1> HIDE DEF kept
<1>7. /\ given' \in Seq(Seq(Nat)) /\ held' \in Seq(Seq(Nat))
      /\ Len(held') = Len(kept) + 1 /\ Len(given') = Len(given) + 1
  BY <1>1, <1>2, <1>3, <1>4, <1>5, <1>6
<1>8. ASSUME NEW i \in 1..Len(held')
      PROVE  held'[i] = Cut(given'[Len(given') - Len(held') + i])
  <2>1. CASE i = Len(kept) + 1
    <3>1. held'[i] = Cut(label) BY <1>4, <1>5, <1>6, <2>1
    <3>2. given'[Len(given) + 1] = label BY <1>1, <1>2, <1>3
    <3> QED BY <1>3, <1>4, <1>7, <2>1, <3>1, <3>2
  <2>2. CASE i \in 1..Len(kept)
    <3>1. held'[i] = kept[i] BY <1>4, <1>5, <1>6, <2>2
    <3>2. given'[Len(given) - Len(kept) + i] = given[Len(given) - Len(kept) + i]
      BY <1>1, <1>2, <1>3, <1>4, <2>2
    <3>3. Len(given') - Len(held') + i = Len(given) - Len(kept) + i BY <1>3, <1>4, <1>7, <2>2
    <3> QED BY <1>4, <2>2, <3>1, <3>2, <3>3
  <2> QED BY <1>4, <1>7, <2>1, <2>2
<1> QED BY <1>3, <1>4, <1>7, <1>8 DEF ContextInv

LEMMA PopContext == ContextInv /\ Pop => ContextInv'
<1> SUFFICES ASSUME ContextInv, Pop PROVE ContextInv' OBVIOUS
<1>1. /\ given # <<>> /\ given' = SubSeq(given, 1, Len(given) - 1)
      /\ held' = (IF held = <<>> THEN held ELSE SubSeq(held, 1, Len(held) - 1))
  BY DEF Pop, err_pop_context
<1>2. /\ given \in Seq(Seq(Nat)) /\ held \in Seq(Seq(Nat)) /\ Len(held) <= MAX_DEPTH
      /\ Len(held) <= Len(given) /\ MAX_DEPTH \in Nat
      /\ \A i \in 1..Len(held) : held[i] = Cut(given[Len(given) - Len(held) + i])
  BY ErrorsAssumption DEF ContextInv, Pop
<1>3. /\ given' \in Seq(Seq(Nat)) /\ Len(given') = Len(given) - 1
      /\ \A i \in 1..Len(given') : given'[i] = given[i]
  BY <1>1, <1>2, AllButTheLast
<1>4. CASE held = <<>> BY <1>1, <1>2, <1>3, <1>4 DEF ContextInv
<1>5. CASE held # <<>>
  <2>1. /\ held' \in Seq(Seq(Nat)) /\ Len(held') = Len(held) - 1
        /\ \A i \in 1..Len(held') : held'[i] = held[i]
    BY <1>1, <1>2, <1>5, AllButTheLast
  <2>2. ASSUME NEW i \in 1..Len(held')
        PROVE  held'[i] = Cut(given'[Len(given') - Len(held') + i])
    <3>1. /\ i \in 1..Len(held) /\ Len(given') - Len(held') + i = Len(given) - Len(held) + i
          /\ Len(given) - Len(held) + i \in 1..Len(given')
      <4>1. Len(given) \in Nat /\ Len(held) \in Nat /\ Len(held) <= Len(given) BY <1>2
      <4>2. Len(given') = Len(given) - 1 /\ Len(held') = Len(held) - 1 BY <1>3, <2>1
      <4>3. i \in 1..(Len(held) - 1) BY <4>2
      <4> QED BY <4>1, <4>2, <4>3
    <3> QED BY <1>2, <1>3, <2>1, <3>1
  <2> QED BY <1>2, <1>3, <2>1, <2>2 DEF ContextInv
<1> QED BY <1>4, <1>5

LEMMA NextContext == ContextInv /\ [SessionNext]_sessionVars => ContextInv'
<1> SUFFICES ASSUME ContextInv, [SessionNext]_sessionVars PROVE ContextInv' OBVIOUS
<1>1. CASE Push BY <1>1, PushContext
<1>2. CASE Pop BY <1>2, PopContext
<1>3. CASE Clear
  <2>1. given' = <<>> /\ held' = <<>> BY <1>3 DEF Clear, err_clear_context
  <2> QED BY <2>1, ErrorsAssumption DEF ContextInv
<1>4. CASE Write \/ Read \/ Compare \/ Put \/ Rewind \/ Get \/ Prepare \/ Observe
  BY <1>4, OneTool DEF ContextInv
<1>5. CASE UNCHANGED sessionVars BY <1>5 DEF sessionVars, ContextInv
<1> QED BY <1>1, <1>2, <1>3, <1>4, <1>5 DEF SessionNext

LEMMA EndIsSuffix ==
  ASSUME NEW S, NEW s \in Seq(S), NEW t \in Seq(S), Len(s) <= Len(t),
         \A i \in 1..Len(s) : s[i] = t[Len(t) - Len(s) + i]
  PROVE  IsSuffix(s, t)
<1>1. /\ Reverse(s) \in Seq(S) /\ Len(Reverse(s)) = Len(s)
      /\ \A i \in 1..Len(s) : Reverse(s)[i] = s[Len(s) - i + 1]
  BY DEF Reverse
<1>2. /\ Reverse(t) \in Seq(S) /\ Len(Reverse(t)) = Len(t)
      /\ \A i \in 1..Len(t) : Reverse(t)[i] = t[Len(t) - i + 1]
  BY DEF Reverse
<1>3. ASSUME NEW i \in 1..Len(s) PROVE Reverse(s)[i] = Reverse(t)[i]
  <2>1. /\ i \in 1..Len(t) /\ Len(s) - i + 1 \in 1..Len(s)
        /\ Len(t) - Len(s) + (Len(s) - i + 1) = Len(t) - i + 1
    OBVIOUS
  <2> QED BY <1>1, <1>2, <2>1
<1> QED BY <1>1, <1>2, <1>3 DEF IsPrefix, IsSuffix

(* Whatever is pushed and popped, however often the stack overflows, the   *)
(* context names the innermost frames the program is in (err.c:             *)
(* xury_err_push_context, xury_err_pop_context).                            *)
THEOREM ContextIsInnermost == Session => []StackHoldsInnermost
<1>1. ContextInv => StackHoldsInnermost
  <2> SUFFICES ASSUME ContextInv, tool = "context"
               PROVE  Len(held) <= MAX_DEPTH /\ IsSuffix(held, [i \in 1..Len(given) |-> Cut(given[i])])
    BY DEF StackHoldsInnermost
  <2> DEFINE frames == [i \in 1..Len(given) |-> Cut(given[i])]
  <2>1. /\ given \in Seq(Seq(Nat)) /\ held \in Seq(Seq(Nat)) /\ Len(held) <= MAX_DEPTH
        /\ Len(held) <= Len(given)
        /\ \A i \in 1..Len(held) : held[i] = Cut(given[Len(given) - Len(held) + i])
    BY DEF ContextInv
  <2>2. \A i \in 1..Len(given) : Cut(given[i]) \in Seq(Nat) BY <2>1, CutIsText
  <2>3. frames \in Seq(Seq(Nat)) /\ Len(frames) = Len(given) BY <2>1, <2>2
  <2>4. \A i \in 1..Len(held) : held[i] = frames[Len(frames) - Len(held) + i] BY <2>1, <2>3
  <2> HIDE DEF frames
  <2>5. IsSuffix(held, frames) BY <2>1, <2>3, <2>4, EndIsSuffix
  <2> QED BY <2>1, <2>5 DEF frames
<1> QED BY <1>1, InitContext, NextContext, PTL DEF Session

-----------------------------------------------------------------------------
LEMMA NextConfig == ConfigInv /\ [SessionNext]_sessionVars => ConfigInv'
<1> SUFFICES ASSUME ConfigInv, [SessionNext]_sessionVars PROVE ConfigInv' OBVIOUS
<1>1. CASE Prepare
  <2>1. PICK c \in Configs : /\ config_validate(c) /\ given' = c /\ held' = Prepared(c)
                            /\ told' = config_fingerprint(held')
    BY <1>1 DEF Prepare
  <2>2. c \in Configurations BY ApiAssumption
  <2> QED BY <2>1, <2>2 DEF ConfigInv
<1>2. CASE Write \/ Read \/ Compare \/ Push \/ Pop \/ Clear \/ Put \/ Rewind \/ Get \/ Observe
  BY <1>2, OneTool DEF ConfigInv
<1>3. CASE UNCHANGED sessionVars BY <1>3 DEF sessionVars, ConfigInv
<1> QED BY <1>1, <1>2, <1>3 DEF SessionNext

(* Whatever configuration a host hands in, what the library then works     *)
(* with validates, its features fit each other, and preparing it again     *)
(* leaves its fingerprint, unless it is left without a weapon (config.c:   *)
(* xury_config_validate, _apply_defaults, _normalize).                      *)
THEOREM EveryPreparedIsValid == Session => []PreparedIsValid
<1>1. SessionInit => ConfigInv BY DEF SessionInit, ConfigInv
<1>2. ConfigInv => PreparedIsValid
  <2> SUFFICES ASSUME ConfigInv, tool = "config", phase = "answered"
               PROVE  /\ Sound(held)
                      /\ held.weapons # {} => config_fingerprint(Prepared(held)) = told
    BY DEF PreparedIsValid
  <2>1. /\ given \in Configurations /\ config_validate(given)
        /\ held = Prepared(given) /\ told = config_fingerprint(held)
    BY DEF ConfigInv
  <2>2. Sound(held) BY <2>1, PreparedIsSound
  <2>3. held.weapons # {} => config_fingerprint(Prepared(held)) = told BY <2>1, PreparedIsStable
  <2> QED BY <2>2, <2>3
<1> QED BY <1>1, <1>2, NextConfig, PTL DEF Session

-----------------------------------------------------------------------------
(* Induction.  The theorems of the library take an operator, which the     *)
(* provers cannot supply; these take a set.                                *)

\* The least-number principle and induction, for sets.
LEMMA NatHasLeast ==
  ASSUME NEW T, T \subseteq Nat, T # {}
  PROVE  \E m \in T : \A k \in T : m <= k
<1> DEFINE R == {p \in Nat \X Nat : p[1] < p[2]}
<1>1. IsWellFoundedOn(R, Nat) BY NatLessThanWellFounded DEF OpToRel
<1>2. ASSUME NEW x \in Nat, NEW y \in Nat, ~(<<y, x>> \in R) PROVE x <= y
  BY <1>2
<1> HIDE DEF R
<1>3. PICK x \in T : \A y \in T : ~(<<y, x>> \in R) BY <1>1, WFMin
<1> QED BY <1>2, <1>3

LEMMA SetInduction ==
  ASSUME NEW S, 0 \in S, \A n \in Nat : n \in S => n + 1 \in S
  PROVE  Nat \subseteq S
<1> SUFFICES ASSUME ~(Nat \subseteq S) PROVE FALSE OBVIOUS
<1>1. PICK m \in Nat \ S : \A k \in Nat \ S : m <= k
  BY NatHasLeast
<1>2. m - 1 \in Nat /\ m - 1 \in S
  BY <1>1
<1> QED BY <1>1, <1>2

\* Induction up to a bound.
LEMMA BoundedInduction ==
  ASSUME NEW n \in Nat, NEW S, 0 \in S, \A i \in 1..n : i - 1 \in S => i \in S
  PROVE  0..n \subseteq S
<1> DEFINE T == {m \in Nat : m <= n => m \in S}
<1>1. 0 \in T /\ \A m \in Nat : m \in T => m + 1 \in T
  <2>1. ASSUME NEW m \in Nat, m <= n => m \in S, m + 1 <= n PROVE m + 1 \in S
    <3>1. m + 1 \in 1..n /\ (m + 1) - 1 = m /\ m \in S BY <2>1
    <3> QED BY <3>1
  <2> QED BY <2>1
<1>2. Nat \subseteq T
  <2> HIDE DEF T
  <2> QED BY <1>1, SetInduction
<1> QED BY <1>2

\* A recursion along a sequence has a solution.
Steps(n, D) == [1..n -> [D -> D]]
Solution(n, D, base, step, g) ==
  g \in [0..n -> D] /\ g[0] = base /\ \A i \in 1..n : g[i] = step[i][g[i - 1]]

LEMMA Recursion ==
  ASSUME NEW D, NEW base \in D, NEW n \in Nat, NEW step \in Steps(n, D)
  PROVE  \E g : Solution(n, D, base, step, g)
<1>0. step \in [1..n -> [D -> D]] BY DEF Steps
<1> DEFINE Solves(m, g) == g[0] = base /\ \A i \in 1..m : g[i] = step[i][g[i - 1]]
           S == {m \in 0..n : \E g \in [0..m -> D] : Solves(m, g)}
<1>1. 0 \in S
  <2>1. [i \in 0..0 |-> base] \in [0..0 -> D] /\ Solves(0, [i \in 0..0 |-> base]) OBVIOUS
  <2> HIDE DEF Solves
  <2> QED BY <2>1
<1>2. ASSUME NEW m \in 1..n, m - 1 \in S PROVE m \in S
  <2>1. PICK g \in [0..(m - 1) -> D] : Solves(m - 1, g) BY <1>2
  <2>2. g[m - 1] \in D /\ step[m] \in [D -> D] BY <1>0
  <2> DEFINE h == [i \in 0..m |-> IF i = m THEN step[m][g[m - 1]] ELSE g[i]]
  <2>3. h \in [0..m -> D] BY <2>2
  <2>4. Solves(m, h)
    <3>1. h[0] = base BY <2>1
    <3>2. ASSUME NEW i \in 1..m PROVE h[i] = step[i][h[i - 1]]
      <4>1. h[i - 1] = g[i - 1] OBVIOUS
      <4>2. CASE i = m
        <5>1. h[m] = step[m][g[m - 1]] OBVIOUS
        <5> HIDE DEF h
        <5> QED BY <4>1, <4>2, <5>1
      <4>3. CASE i # m
        <5>1. i \in 1..(m - 1) /\ h[i] = g[i] BY <4>3
        <5> HIDE DEF h
        <5> QED BY <2>1, <4>1, <5>1
      <4> QED BY <4>2, <4>3
    <3> QED BY <3>1, <3>2
  <2> HIDE DEF Solves, h
  <2> QED BY <2>3, <2>4
<1>3. 0..n \subseteq S
  <2> HIDE DEF S
  <2> QED BY <1>1, <1>2, BoundedInduction
<1>4. n \in S BY <1>3
<1> QED BY <1>4 DEF Solution

LEMMA SequenceInduction ==
  ASSUME NEW S, NEW P, <<>> \in P, \A s \in Seq(S), c \in S : s \in P => Append(s, c) \in P
  PROVE  Seq(S) \subseteq P
<1> DEFINE N == {n \in Nat : \A s \in Seq(S) : Len(s) = n => s \in P}
<1>1. 0 \in N
  <2>1. \A s \in Seq(S) : Len(s) = 0 => s = <<>> OBVIOUS
  <2> QED BY <2>1
<1>2. ASSUME NEW n \in Nat, n \in N PROVE n + 1 \in N
  <2> SUFFICES ASSUME NEW s \in Seq(S), Len(s) = n + 1 PROVE s \in P OBVIOUS
  <2> DEFINE r == SubSeq(s, 1, n)
  <2>1. r \in Seq(S) /\ Len(r) = n /\ s[n + 1] \in S BY SubSeqProperties
  <2>2. s = Append(r, s[n + 1])
    <3>1. \A i \in 1..n : r[i] = s[i] BY SubSeqProperties
    <3>2. Append(r, s[n + 1]) \in Seq(S) /\ Len(Append(r, s[n + 1])) = n + 1 BY <2>1
    <3>3. \A i \in 1..(n + 1) : Append(r, s[n + 1])[i] = s[i]
      <4> HIDE DEF r
      <4> QED BY <2>1, <3>1
    <3> HIDE DEF r
    <3> QED BY <3>2, <3>3, SeqEqual
  <2>3. r \in P BY <1>2, <2>1
  <2> HIDE DEF r
  <2> QED BY <2>1, <2>2, <2>3
<1>3. Nat \subseteq N
  <2> HIDE DEF N
  <2> QED BY <1>1, <1>2, SetInduction
<1> QED BY <1>3
-----------------------------------------------------------------------------
(* Text: the fields between separators.                                    *)

FieldLists == Seq(Seq(Nat)) \ {<<>>}

LEMMA NextFieldType ==
  ASSUME NEW f \in FieldLists, NEW c \in Nat, NEW sep
  PROVE  NextField(f, c, sep) \in FieldLists
<1>1. f \in Seq(Seq(Nat)) /\ Len(f) \in 1..Len(f) /\ f[Len(f)] \in Seq(Nat)
  BY DEF FieldLists
<1>2. Append(f, <<>>) \in FieldLists
  <2>1. Append(f, <<>>) \in Seq(Seq(Nat)) /\ Len(Append(f, <<>>)) = Len(f) + 1 BY <1>1
  <2>2. Append(f, <<>>) # <<>> BY <1>1, <2>1
  <2> QED BY <2>1, <2>2 DEF FieldLists
<1>3. Append(f[Len(f)], c) \in Seq(Nat)
  BY <1>1
<1>4. [f EXCEPT ![Len(f)] = Append(f[Len(f)], c)] \in FieldLists
  <2> DEFINE n == Len(f)  x == Append(f[Len(f)], c)
  <2>1. n \in Nat \ {0} /\ f \in [1..n -> Seq(Nat)] /\ x \in Seq(Nat) BY <1>1, <1>3
  <2>2. [f EXCEPT ![n] = x] \in [1..n -> Seq(Nat)]
    <3> HIDE DEF n, x
    <3> QED BY <2>1
  <2>3. [f EXCEPT ![n] = x] \in Seq(Seq(Nat)) /\ Len([f EXCEPT ![n] = x]) = n
    <3> HIDE DEF n, x
    <3> QED BY <2>1, <2>2
  <2>4. [f EXCEPT ![n] = x] # <<>>
    <3> HIDE DEF n, x
    <3> QED BY <2>1, <2>3
  <2> QED BY <2>3, <2>4 DEF FieldLists
<1> QED BY <1>2, <1>4 DEF NextField

LEMMA FieldsAre ==
  ASSUME NEW s \in Seq(Nat), NEW sep, NEW g \in [0..Len(s) -> FieldLists],
         g[0] = <<<<>>>>, \A i \in 1..Len(s) : g[i] = NextField(g[i - 1], s[i], sep)
  PROVE  Fields(s, sep) = g[Len(s)]
<1> DEFINE n == Len(s)
           base == <<<<>>>>
           At(h, i) == IF i = 0 THEN base ELSE NextField(h[i - 1], s[i], sep)
           Splits(h) == h = [i \in 0..n |-> At(h, i)]
           upto == CHOOSE h : Splits(h)
<1>0. /\ n \in Nat /\ g \in [0..n -> FieldLists] /\ g[0] = base
      /\ \A i \in 1..n : g[i] = NextField(g[i - 1], s[i], sep)
  OBVIOUS
<1>1. Splits(g)
  <2>1. \A i \in 0..n : g[i] = At(g, i)
    <3> HIDE DEF n, base
    <3> QED BY <1>0
  <2> HIDE DEF At, n, base
  <2> QED BY <1>0, <2>1
<1>2. Splits(upto)
  <2> HIDE DEF Splits
  <2> QED BY <1>1
<1>3. Fields(s, sep) = upto[n] BY DEF Fields
<1> HIDE DEF upto
<1> DEFINE S == {i \in 0..n : upto[i] = g[i]}
<1>4. \A i \in 0..n : upto[i] = At(upto, i)
  <2> HIDE DEF At, n, base
  <2> QED BY <1>2
<1>5. ASSUME NEW i \in 1..n, i - 1 \in S PROVE i \in S
  <2>0. i \in 0..n BY <1>0
  <2>1. upto[i] = At(upto, i)
    <3> HIDE DEF At, n, base
    <3> QED BY <1>4, <2>0
  <2>2. upto[i] = NextField(upto[i - 1], s[i], sep) /\ g[i] = NextField(g[i - 1], s[i], sep)
    <3>1. i # 0 BY <1>0
    <3> HIDE DEF base
    <3> QED BY <1>0, <2>1, <3>1
  <2> QED BY <1>5, <2>2
<1>6. 0 \in S
  <2>1. 0 \in 0..n BY <1>0
  <2>2. upto[0] = At(upto, 0)
    <3> HIDE DEF At, n, base
    <3> QED BY <1>4, <2>1
  <2>3. upto[0] = base BY <2>2
  <2> HIDE DEF base
  <2> QED BY <1>0, <2>1, <2>3
<1>7. 0..n \subseteq S
  <2> HIDE DEF S
  <2> QED BY <1>0, <1>5, <1>6, BoundedInduction
<1> QED BY <1>0, <1>3, <1>7

LEMMA FieldsExist ==
  ASSUME NEW s \in Seq(Nat), NEW sep
  PROVE  \E g \in [0..Len(s) -> FieldLists] :
           /\ g[0] = <<<<>>>> /\ \A i \in 1..Len(s) : g[i] = NextField(g[i - 1], s[i], sep)
           /\ Fields(s, sep) = g[Len(s)]
<1> DEFINE step == [i \in 1..Len(s) |-> [x \in FieldLists |-> NextField(x, s[i], sep)]]
<1>1. Len(s) \in Nat /\ \A i \in 1..Len(s) : s[i] \in Nat OBVIOUS
<1>2. step \in [1..Len(s) -> [FieldLists -> FieldLists]] BY <1>1, NextFieldType
<1>3. <<<<>>>> \in FieldLists BY DEF FieldLists
<1>4. PICK g \in [0..Len(s) -> FieldLists] :
        g[0] = <<<<>>>> /\ \A i \in 1..Len(s) : g[i] = step[i][g[i - 1]]
  <2> DEFINE base == <<<<>>>>
  <2>1. step \in Steps(Len(s), FieldLists) BY <1>2 DEF Steps
  <2>2. base \in FieldLists BY <1>3
  <2> HIDE DEF step, base
  <2>3. PICK g : Solution(Len(s), FieldLists, base, step, g) BY <1>1, <2>1, <2>2, Recursion
  <2> QED BY <2>3 DEF Solution, base
<1>5. ASSUME NEW i \in 1..Len(s) PROVE g[i] = NextField(g[i - 1], s[i], sep)
  <2>1. i - 1 \in 0..Len(s) BY <1>1
  <2>2. g[i - 1] \in FieldLists BY <2>1
  <2> QED BY <1>4, <2>2
<1> QED BY <1>4, <1>5, FieldsAre

LEMMA FieldsOfNothing == ASSUME NEW sep PROVE Fields(<<>>, sep) = <<<<>>>>
<1> DEFINE g == [i \in 0..0 |-> <<<<>>>>]
<1>1. g \in [0..Len(<<>>) -> FieldLists] /\ g[0] = <<<<>>>> BY DEF FieldLists
<1> HIDE DEF g
<1> QED BY <1>1, FieldsAre

LEMMA FieldsGrow ==
  ASSUME NEW s \in Seq(Nat), NEW c \in Nat, NEW sep
  PROVE  /\ Fields(s, sep) \in FieldLists
         /\ Fields(Append(s, c), sep) = NextField(Fields(s, sep), c, sep)
<1> DEFINE n == Len(s)  r == Append(s, c)
<1>0. n \in Nat /\ r \in Seq(Nat) /\ Len(r) = n + 1 /\ r[n + 1] = c /\ \A i \in 1..n : r[i] = s[i]
  OBVIOUS
<1>1. PICK g \in [0..n -> FieldLists] :
        /\ g[0] = <<<<>>>> /\ \A i \in 1..n : g[i] = NextField(g[i - 1], s[i], sep)
        /\ Fields(s, sep) = g[n]
  BY FieldsExist
<1>2. g[n] \in FieldLists BY <1>0
<1> DEFINE h == [i \in 0..(n + 1) |-> IF i = n + 1 THEN NextField(g[n], c, sep) ELSE g[i]]
<1>3. h \in [0..(n + 1) -> FieldLists] BY <1>0, <1>2, NextFieldType
<1>4. h[0] = <<<<>>>> /\ \A i \in 1..(n + 1) : h[i] = NextField(h[i - 1], r[i], sep)
  <2>1. h[0] = <<<<>>>> BY <1>0, <1>1
  <2>2. ASSUME NEW i \in 1..(n + 1) PROVE h[i] = NextField(h[i - 1], r[i], sep)
    <3>1. CASE i = n + 1
      <4>1. h[n + 1] = NextField(g[n], c, sep) /\ h[(n + 1) - 1] = g[n] BY <1>0
      <4> HIDE DEF h, r
      <4> QED BY <1>0, <3>1, <4>1
    <3>2. CASE i # n + 1
      <4>1. i \in 1..n /\ h[i] = g[i] /\ h[i - 1] = g[i - 1] BY <1>0, <3>2
      <4> HIDE DEF h, r
      <4> QED BY <1>0, <1>1, <4>1
    <3> QED BY <3>1, <3>2
  <2> QED BY <2>1, <2>2
<1>5. Fields(r, sep) = h[n + 1]
  <2> HIDE DEF h, r, n
  <2> QED BY <1>0, <1>3, <1>4, FieldsAre, Zenon
<1>6. h[n + 1] = NextField(g[n], c, sep) BY <1>0
<1> QED BY <1>1, <1>2, <1>5, <1>6
-----------------------------------------------------------------------------
(* Text: the digits of a number.                                           *)

Bases == {10, 16}

LEMMA Quotients ==
  ASSUME NEW b \in Bases, NEW x \in Nat
  PROVE  /\ x \div b \in Nat /\ x % b \in 0..(b - 1) /\ x = b * (x \div b) + (x % b)
         /\ x > 0 => x \div b < x
<1>1. CASE b = 10
  <2>1. x \div 10 \in Nat OBVIOUS
  <2>2. x % 10 \in 0..(10 - 1) OBVIOUS
  <2>3. x = 10 * (x \div 10) + (x % 10) OBVIOUS
  <2>4. x > 0 => x \div 10 < x OBVIOUS
  <2> QED BY <1>1, <2>1, <2>2, <2>3, <2>4
<1>2. CASE b = 16
  <2>1. x \div 16 \in Nat OBVIOUS
  <2>2. x % 16 \in 0..(16 - 1) OBVIOUS
  <2>3. x = 16 * (x \div 16) + (x % 16) OBVIOUS
  <2>4. x > 0 => x \div 16 < x OBVIOUS
  <2> QED BY <1>2, <2>1, <2>2, <2>3, <2>4
<1> QED BY <1>1, <1>2 DEF Bases

Quotient(n, b, w, q) ==
  /\ q \in [0..w -> Nat] /\ q[0] = n /\ \A k \in 1..w : q[k] = q[k - 1] \div b

LEMMA QuotientsExist ==
  ASSUME NEW n \in Nat, NEW b \in Bases, NEW w \in Nat
  PROVE  \E q : Quotient(n, b, w, q)
<1> DEFINE step == [k \in 1..w |-> [x \in Nat |-> x \div b]]
           D == Nat
<1>1. step \in Steps(w, D) /\ n \in D
  <2>1. \A x \in Nat : x \div b \in Nat BY Quotients
  <2> QED BY <2>1 DEF Steps
<1>2. PICK q : Solution(w, D, n, step, q)
  <2> HIDE DEF step, D
  <2> QED BY <1>1, Recursion
<1>3. q \in [0..w -> Nat] /\ q[0] = n /\ \A k \in 1..w : q[k] = step[k][q[k - 1]]
  BY <1>2 DEF Solution
<1>4. ASSUME NEW k \in 1..w PROVE q[k] = q[k - 1] \div b
  <2>1. q[k - 1] \in Nat BY <1>3
  <2> QED BY <1>3, <2>1
<1> QED BY <1>3, <1>4 DEF Quotient

LEMMA QuotientsEnd ==
  ASSUME NEW n \in Nat, NEW b \in Bases, NEW q, Quotient(n, b, n + 1, q)
  PROVE  \E w \in 1..(n + 1) : q[w] = 0 /\ (w > 1 => q[w - 1] # 0)
<1> DEFINE S == {k \in 0..(n + 1) : q[k] = 0 \/ q[k] <= n - k}
           T == {k \in 1..(n + 1) : q[k] = 0}
<1>1. q \in [0..(n + 1) -> Nat] /\ q[0] = n /\ \A k \in 1..(n + 1) : q[k] = q[k - 1] \div b
  BY DEF Quotient
<1>2. 0 \in S BY <1>1
<1>3. ASSUME NEW k \in 1..(n + 1), k - 1 \in S PROVE k \in S
  <2> DEFINE x == q[k - 1]  y == q[k]
  <2>1. x \in Nat /\ y \in Nat /\ y = x \div b /\ k - 1 \in Nat
    BY <1>1
  <2>2. x = 0 \/ x <= n - (k - 1) BY <1>3
  <2>3. (x = 0 => y = 0) /\ (x > 0 => y < x)
    <3>1. y = 0 \/ y < x \/ x = 0 BY <2>1, Quotients
    <3>2. x = 0 => y = 0
      <4>1. 0 \div b = 0 BY DEF Bases
      <4> QED BY <2>1, <4>1
    <3>3. x > 0 => y < x BY <2>1, Quotients
    <3> QED BY <3>2, <3>3
  <2> HIDE DEF x, y
  <2>4. y = 0 \/ y <= n - k BY <2>1, <2>2, <2>3
  <2> QED BY <2>4 DEF y
<1>4. n + 1 \in S
  <2> HIDE DEF S
  <2>1. 0..(n + 1) \subseteq S
    <3> DEFINE m == n + 1
    <3>1. m \in Nat OBVIOUS
    <3> HIDE DEF m
    <3>2. 0..m \subseteq S BY <1>2, <1>3, <3>1, BoundedInduction DEF m
    <3> QED BY <3>2 DEF m
  <2> QED BY <2>1
<1>5. n + 1 \in T BY <1>1, <1>4
<1>6. PICK w \in T : \A k \in T : w <= k
  <2> HIDE DEF S
  <2>1. T \subseteq Nat OBVIOUS
  <2> HIDE DEF T
  <2> QED BY <1>5, <2>1, NatHasLeast
<1>7. w > 1 => q[w - 1] # 0
  <2>1. w > 1 => w - 1 \in 1..(n + 1) /\ ~(w <= w - 1) OBVIOUS
  <2> QED BY <1>6, <2>1
<1> QED BY <1>6, <1>7

DigitsOf(n, b, w, q) ==
  /\ w \in Nat \ {0} /\ Quotient(n, b, w, q) /\ q[w] = 0 /\ (w > 1 => q[w - 1] # 0)
  /\ Digits(n, b) = [i \in 1..w |-> Digit(q[w - i] % b)]

LEMMA DigitsAre ==
  ASSUME NEW n \in Nat, NEW b \in Bases
  PROVE  \E w, q : DigitsOf(n, b, w, q)
<1> DEFINE m == n + 1
<1>0. m \in Nat OBVIOUS
<1>1. PICK g : Quotient(n, b, m, g)
  <2> HIDE DEF m
  <2> QED BY <1>0, QuotientsExist
<1>2. g \in [0..m -> Nat] /\ g[0] = n /\ \A k \in 1..m : g[k] = g[k - 1] \div b
  <2> HIDE DEF m
  <2> QED BY <1>1 DEF Quotient
<1> DEFINE At(h, k) == IF k = 0 THEN n ELSE h[k - 1] \div b
           Divides(h) == h = [k \in 0..(n + 1) |-> At(h, k)]
           quotient == CHOOSE h : Divides(h)
           Ends(w) == quotient[w] = 0 /\ (w > 1 => quotient[w - 1] # 0)
           width == CHOOSE w \in 1..(n + 1) : Ends(w)
<1>3. Divides(g)
  <2>1. \A k \in 0..m : g[k] = At(g, k)
    <3> HIDE DEF m
    <3> QED BY <1>0, <1>2
  <2> HIDE DEF At
  <2> QED BY <1>2, <2>1
<1>4. Divides(quotient)
  <2> HIDE DEF Divides
  <2> QED BY <1>3
<1>5. Digits(n, b) = [i \in 1..width |-> Digit(quotient[width - i] % b)] BY DEF Digits
<1> HIDE DEF quotient
<1>6. \A k \in 0..m : quotient[k] = At(quotient, k)
  <2> HIDE DEF At
  <2> QED BY <1>4
<1> DEFINE S == {k \in 0..m : quotient[k] = g[k]}
<1>7. 0 \in S BY <1>0, <1>2, <1>6
<1>8. ASSUME NEW k \in 1..m, k - 1 \in S PROVE k \in S
  <2> HIDE DEF m
  <2>1. k \in 0..m /\ k # 0 BY <1>0
  <2>2. quotient[k] = quotient[k - 1] \div b BY <1>6, <2>1
  <2> QED BY <1>2, <1>8, <2>1, <2>2
<1>9. 0..m \subseteq S
  <2> HIDE DEF S, m
  <2> QED BY <1>0, <1>7, <1>8, BoundedInduction
<1>10. \A k \in 0..m : quotient[k] = g[k] BY <1>9
<1>11. width \in 1..m /\ g[width] = 0 /\ (width > 1 => g[width - 1] # 0)
  <2>1. PICK w \in 1..(n + 1) : g[w] = 0 /\ (w > 1 => g[w - 1] # 0)
    <3>1. Quotient(n, b, n + 1, g) BY <1>1
    <3> HIDE DEF m
    <3> QED BY <3>1, QuotientsEnd
  <2>2. \A x \in 1..(n + 1) : x \in 0..m /\ x - 1 \in 0..m OBVIOUS
  <2>3. Ends(w)
    <3> HIDE DEF m
    <3> QED BY <1>10, <2>1, <2>2
  <2>4. width \in 1..(n + 1) /\ Ends(width)
    <3> HIDE DEF Ends
    <3> QED BY <2>3
  <2> HIDE DEF width
  <2>5. width \in 0..m /\ width - 1 \in 0..m BY <2>2, <2>4
  <2> QED BY <1>10, <2>4, <2>5
<1> HIDE DEF width
<1> DEFINE q == [k \in 0..width |-> g[k]]
<1>12. width \in Nat \ {0} /\ width <= m BY <1>0, <1>11
<1>13. Quotient(n, b, width, q)
  <2> HIDE DEF m
  <2>1. q \in [0..width -> Nat] /\ q[0] = n BY <1>0, <1>2, <1>12
  <2>2. ASSUME NEW k \in 1..width PROVE q[k] = q[k - 1] \div b
    <3>1. k \in 1..m /\ k \in 0..width /\ k - 1 \in 0..width BY <1>0, <1>12
    <3>2. q[k] = g[k] /\ q[k - 1] = g[k - 1] BY <3>1
    <3> HIDE DEF q
    <3> QED BY <1>2, <3>1, <3>2
  <2> QED BY <2>1, <2>2 DEF Quotient
<1>14. q[width] = 0 /\ (width > 1 => q[width - 1] # 0)
  <2> HIDE DEF m
  <2>1. width \in 0..width /\ width - 1 \in 0..width BY <1>12
  <2> QED BY <1>11, <2>1
<1>15. Digits(n, b) = [i \in 1..width |-> Digit(q[width - i] % b)]
  <2>1. \A i \in 1..width : quotient[width - i] = q[width - i]
    <3> HIDE DEF m
    <3>1. \A i \in 1..width : width - i \in 0..width /\ width - i \in 0..m BY <1>0, <1>12
    <3> QED BY <1>10, <3>1
  <2> HIDE DEF q, m
  <2> QED BY <1>5, <2>1
<1> HIDE DEF q, m
<1> QED BY <1>12, <1>13, <1>14, <1>15 DEF DigitsOf

LEMMA DigitFacts ==
  ASSUME NEW d \in 0..15
  PROVE  /\ Digit(d) \in 48..57 \cup 97..102 /\ Digit(d) \in Nat
         /\ d < 10 => IsDigit(Digit(d)) /\ Digit(d) - 48 = d
         /\ hex_value(Digit(d)) = d
<1>1. CASE d < 10
  <2>1. Digit(d) = 48 + d BY <1>1 DEF Digit
  <2>2. IsDigit(Digit(d)) BY <1>1, <2>1 DEF IsDigit
  <2>4. ~(Lower(Digit(d)) \in 97..102) BY <1>1, <2>1 DEF Lower, IsUpper
  <2>3. hex_value(Digit(d)) = Digit(d) - 48 BY <2>2, <2>4 DEF hex_value
  <2> QED BY <1>1, <2>1, <2>2, <2>3
<1>2. CASE d >= 10
  <2>1. Digit(d) = 87 + d BY <1>2 DEF Digit
  <2>2. ~IsDigit(Digit(d)) BY <1>2, <2>1 DEF IsDigit
  <2>3. Lower(Digit(d)) = Digit(d) BY <1>2, <2>1 DEF Lower, IsUpper
  <2>4. Lower(Digit(d)) \in 97..102 /\ Lower(Digit(d)) - 87 = d BY <1>2, <2>1, <2>3
  <2>5. hex_value(Digit(d)) = d BY <2>2, <2>4 DEF hex_value
  <2> QED BY <1>2, <2>1, <2>5
<1> QED BY <1>1, <1>2

LEMMA DigitsText ==
  ASSUME NEW n \in Nat, NEW b \in Bases
  PROVE  /\ Digits(n, b) \in Seq(Nat) /\ Digits(n, b) # <<>> /\ Len(Digits(n, b)) >= 1
         /\ \A i \in 1..Len(Digits(n, b)) :
              /\ Digits(n, b)[i] \in 48..57 \cup 97..102
              /\ b = 10 => IsDigit(Digits(n, b)[i])
<1>1. PICK w, q : DigitsOf(n, b, w, q) BY DigitsAre
<1>2. /\ w \in Nat \ {0} /\ q \in [0..w -> Nat]
      /\ Digits(n, b) = [i \in 1..w |-> Digit(q[w - i] % b)]
  BY <1>1 DEF DigitsOf, Quotient
<1>3. ASSUME NEW i \in 1..w
      PROVE  /\ Digit(q[w - i] % b) \in 48..57 \cup 97..102 /\ Digit(q[w - i] % b) \in Nat
             /\ b = 10 => IsDigit(Digit(q[w - i] % b))
  <2> DEFINE d == q[w - i] % b
  <2>1. q[w - i] \in Nat BY <1>2
  <2>2. d \in 0..(b - 1) BY <2>1, Quotients
  <2>3. d \in 0..15 /\ (b = 10 => d < 10) BY <2>2 DEF Bases
  <2> HIDE DEF d
  <2>4. /\ Digit(d) \in 48..57 \cup 97..102 /\ Digit(d) \in Nat
        /\ b = 10 => IsDigit(Digit(d))
    BY <2>3, DigitFacts
  <2> QED BY <2>4 DEF d
<1>4. Digits(n, b) \in [1..w -> Nat] BY <1>2, <1>3
<1>5. Digits(n, b) \in Seq(Nat) /\ Len(Digits(n, b)) = w BY <1>2, <1>4
<1> QED BY <1>2, <1>3, <1>5

LEMMA DigitsUnfold ==
  ASSUME NEW n \in Nat, NEW b \in Bases, NEW w, NEW q, DigitsOf(n, b, w, q)
  PROVE  /\ w \in Nat \ {0} /\ q \in [0..w -> Nat]
         /\ q[0] = n /\ q[w] = 0 /\ (w > 1 => q[w - 1] # 0)
         /\ \A k \in 1..w : q[k] = q[k - 1] \div b
         /\ Digits(n, b) = [i \in 1..w |-> Digit(q[w - i] % b)] /\ Len(Digits(n, b)) = w
<1>1. /\ w \in Nat \ {0} /\ q \in [0..w -> Nat] /\ q[0] = n /\ q[w] = 0 /\ (w > 1 => q[w - 1] # 0)
      /\ \A k \in 1..w : q[k] = q[k - 1] \div b
      /\ Digits(n, b) = [i \in 1..w |-> Digit(q[w - i] % b)]
  BY DEF DigitsOf, Quotient
<1>2. Len(Digits(n, b)) = w BY <1>1
<1> QED BY <1>1, <1>2

\* A quotient that is zero ends the digits.
LEMMA DigitsEnd ==
  ASSUME NEW b \in Bases, NEW w \in Nat \ {0}, NEW q \in [0..w -> Nat], w > 1 => q[w - 1] # 0,
         \A k \in 1..w : q[k] = q[k - 1] \div b, NEW m \in 1..w, q[m] = 0
  PROVE  m = w
<1>1. ASSUME NEW k \in 1..w, q[k - 1] = 0 PROVE q[k] = 0
  <2>1. 0 \div b = 0 BY DEF Bases
  <2> QED BY <1>1, <2>1
<1>2. SUFFICES ASSUME m < w PROVE FALSE OBVIOUS
<1> DEFINE S == {k \in 0..w : k >= m => q[k] = 0}
<1>3. 0 \in S OBVIOUS
<1>4. ASSUME NEW k \in 1..w, k - 1 \in S PROVE k \in S
  <2>1. CASE k < m BY <2>1
  <2>2. CASE k = m BY <2>2
  <2>3. CASE k > m
    <3>1. k - 1 >= m /\ k - 1 \in 0..w BY <2>3
    <3>2. q[k - 1] = 0 BY <1>4, <3>1
    <3> QED BY <1>1, <3>2
  <2> QED BY <2>1, <2>2, <2>3
<1>5. 0..w \subseteq S
  <2> HIDE DEF S
  <2> QED BY <1>3, <1>4, BoundedInduction
<1>6. w - 1 \in 0..w /\ w - 1 >= m /\ w > 1 BY <1>2
<1> QED BY <1>5, <1>6

\* A smaller number has no more digits.
LEMMA DigitsMonotone ==
  ASSUME NEW b \in Bases, NEW n \in Nat, NEW m \in Nat, n <= m
  PROVE  Len(Digits(n, b)) <= Len(Digits(m, b))
<1>1. PICK w, q : DigitsOf(n, b, w, q) BY DigitsAre
<1>2. /\ w \in Nat \ {0} /\ q \in [0..w -> Nat] /\ q[0] = n /\ (w > 1 => q[w - 1] # 0)
      /\ \A k \in 1..w : q[k] = q[k - 1] \div b
      /\ Len(Digits(n, b)) = w
  BY <1>1, DigitsUnfold
<1>3. PICK x, p : DigitsOf(m, b, x, p) BY DigitsAre
<1>4. /\ x \in Nat \ {0} /\ p \in [0..x -> Nat] /\ p[0] = m /\ p[x] = 0
      /\ \A k \in 1..x : p[k] = p[k - 1] \div b
      /\ Len(Digits(m, b)) = x
  BY <1>3, DigitsUnfold
<1>5. SUFFICES ASSUME x < w PROVE FALSE BY <1>2, <1>4
<1>6. ASSUME NEW c \in Nat, NEW d \in Nat, c <= d PROVE c \div b <= d \div b
  <2>1. CASE b = 10 BY <1>6, <2>1
  <2>2. CASE b = 16 BY <1>6, <2>2
  <2> QED BY <2>1, <2>2 DEF Bases
<1> DEFINE S == {k \in 0..x : q[k] <= p[k]}
<1>7. 0 \in S BY <1>2, <1>4
<1>8. ASSUME NEW k \in 1..x, k - 1 \in S PROVE k \in S
  <2>1. k \in 1..w /\ k - 1 \in 0..w /\ k - 1 \in 0..x /\ k \in 0..x BY <1>2, <1>4, <1>5
  <2>2. q[k - 1] \in Nat /\ p[k - 1] \in Nat /\ q[k - 1] <= p[k - 1] BY <1>2, <1>4, <1>8, <2>1
  <2>3. q[k - 1] \div b <= p[k - 1] \div b BY <1>6, <2>2
  <2> QED BY <1>2, <1>4, <2>1, <2>3
<1>9. 0..x \subseteq S
  <2> HIDE DEF S
  <2> QED BY <1>4, <1>7, <1>8, BoundedInduction
<1>10. x \in 0..x /\ x \in 0..w /\ x \in 1..w BY <1>2, <1>4, <1>5
<1>11. q[x] \in Nat /\ q[x] <= 0 BY <1>2, <1>4, <1>9, <1>10
<1>12. q[x] = 0 BY <1>11
<1>13. x = w BY <1>2, <1>10, <1>12, DigitsEnd
<1> QED BY <1>2, <1>5, <1>13

\* The digits of a byte and of a group.
LEMMA ByteDigits == ASSUME NEW n \in 0..255 PROVE Len(Digits(n, 10)) <= 3
<1> DEFINE b == 10
<1>0. b \in Bases /\ n \in Nat BY DEF Bases
<1> HIDE DEF b
<1>1. PICK w, q : DigitsOf(n, b, w, q) BY <1>0, DigitsAre
<1>2. /\ w \in Nat \ {0} /\ q \in [0..w -> Nat] /\ q[0] = n /\ (w > 1 => q[w - 1] # 0)
      /\ \A k \in 1..w : q[k] = q[k - 1] \div b
      /\ Len(Digits(n, b)) = w
  BY <1>0, <1>1, DigitsUnfold
<1>3. w >= 3 => w = 3
  <2> SUFFICES ASSUME w >= 3 PROVE w = 3 OBVIOUS
  <2>1. 1 \in 1..w /\ 2 \in 1..w /\ 3 \in 1..w BY <1>2
  <2>2. q[1] = q[1 - 1] \div b /\ q[2] = q[2 - 1] \div b /\ q[3] = q[3 - 1] \div b BY <1>2, <2>1
  <2>3. q[1] = n \div 10 /\ q[2] = q[1] \div 10 /\ q[3] = q[2] \div 10 BY <1>2, <2>2 DEF b
  <2>4. q[1] \in Nat /\ q[2] \in Nat /\ q[3] \in Nat BY <1>2, <2>1
  <2>5. q[1] < 26 BY <2>3, <2>4
  <2>6. q[2] < 3 BY <2>3, <2>4, <2>5
  <2>7. q[3] = 0 BY <2>3, <2>4, <2>6
  <2> DEFINE m == 3
  <2>9. m \in 1..w /\ q[m] = 0 BY <2>1, <2>7
  <2> HIDE DEF m
  <2>10. m = w BY <1>0, <1>2, <2>9, DigitsEnd, Zenon
  <2> QED BY <2>10 DEF m
<1>4. Len(Digits(n, b)) <= 3 BY <1>2, <1>3
<1> QED BY <1>4 DEF b

LEMMA GroupDigits ==
  ASSUME NEW hi \in 0..255, NEW lo \in 0..255
  PROVE  Len(Digits(hi * 256 + lo, 16)) <= 4
<1> DEFINE b == 16  n == hi * 256 + lo
<1>0. b \in Bases /\ n \in Nat BY DEF Bases
<1>00. n < 256 * 256 OBVIOUS
<1> HIDE DEF b, n
<1>1. PICK w, q : DigitsOf(n, b, w, q) BY <1>0, DigitsAre
<1>2. /\ w \in Nat \ {0} /\ q \in [0..w -> Nat] /\ q[0] = n /\ (w > 1 => q[w - 1] # 0)
      /\ \A k \in 1..w : q[k] = q[k - 1] \div b
      /\ Len(Digits(n, b)) = w
  BY <1>0, <1>1, DigitsUnfold
<1>3. w >= 4 => w = 4
  <2> SUFFICES ASSUME w >= 4 PROVE w = 4 OBVIOUS
  <2>1. 1 \in 1..w /\ 2 \in 1..w /\ 3 \in 1..w /\ 4 \in 1..w BY <1>2
  <2>2. /\ q[1] = q[1 - 1] \div b /\ q[2] = q[2 - 1] \div b
        /\ q[3] = q[3 - 1] \div b /\ q[4] = q[4 - 1] \div b
    BY <1>2, <2>1
  <2>3. q[1] = n \div 16 /\ q[2] = q[1] \div 16 /\ q[3] = q[2] \div 16 /\ q[4] = q[3] \div 16
    BY <1>2, <2>2 DEF b
  <2>4. q[1] \in Nat /\ q[2] \in Nat /\ q[3] \in Nat /\ q[4] \in Nat BY <1>2, <2>1
  <2>5. q[1] < 16 * 256 BY <1>0, <1>00, <2>3, <2>4
  <2>6. q[2] < 256 BY <2>3, <2>4, <2>5
  <2>7. q[3] < 16 BY <2>3, <2>4, <2>6
  <2>8. q[4] = 0 BY <2>3, <2>4, <2>7
  <2> DEFINE m == 4
  <2>9. m \in 1..w /\ q[m] = 0 BY <2>1, <2>8
  <2> HIDE DEF m
  <2>10. m = w BY <1>0, <1>2, <2>9, DigitsEnd, Zenon
  <2> QED BY <2>10 DEF m
<1>4. Len(Digits(n, b)) <= 4 BY <1>2, <1>3
<1> QED BY <1>4 DEF b, n

\* A number of the width has ten digits at most.
LEMMA WordDigits == ASSUME NEW n \in 0..UINT_MAX PROVE Len(Digits(n, 10)) <= 10
<1> DEFINE b == 10
<1>1. UINT_MAX \in Nat BY TextAssumption
<1>2. b \in Bases /\ n \in Nat /\ n <= UINT_MAX BY <1>1 DEF Bases
<1>3. Len(Digits(UINT_MAX, 10)) <= 10 BY DigitsAssumption
<1>4. Len(Digits(UINT_MAX, b)) \in Nat /\ Len(Digits(n, b)) \in Nat
  <2> HIDE DEF b
  <2>1. Digits(UINT_MAX, b) \in Seq(Nat) /\ Digits(n, b) \in Seq(Nat) BY <1>1, <1>2, DigitsText
  <2> QED BY <2>1
<1>5. Len(Digits(n, b)) <= Len(Digits(UINT_MAX, b))
  <2> HIDE DEF b
  <2> QED BY <1>1, <1>2, DigitsMonotone
<1> QED BY <1>3, <1>4, <1>5

-----------------------------------------------------------------------------
(* Text: the number of some digits.                                        *)

LEMMA NextDigitType ==
  ASSUME NEW v \in Int, NEW c \in Nat, NEW max \in Nat
  PROVE  /\ NextDigit(v, c, max) \in Int
         /\ v \in 0..max /\ NextDigit(v, c, max) # Refused => NextDigit(v, c, max) \in 0..max
         /\ NextDigit(v, c, max) # Refused => v # Refused /\ IsDigit(c)
<1>1. CASE v = Refused \/ ~IsDigit(c) \/ v > (max - (c - 48)) \div 10
  <2>1. NextDigit(v, c, max) = Refused BY <1>1 DEF NextDigit
  <2> QED BY <2>1 DEF Refused
<1>2. CASE ~(v = Refused \/ ~IsDigit(c) \/ v > (max - (c - 48)) \div 10)
  <2>1. NextDigit(v, c, max) = v * 10 + (c - 48) BY <1>2 DEF NextDigit
  <2>2. c \in 48..57 BY <1>2 DEF IsDigit
  <2>3. v * 10 + (c - 48) \in Int BY <2>2
  <2>4. v \in 0..max => v * 10 + (c - 48) \in 0..max
    <3> DEFINE d == c - 48  h == (max - d) \div 10
    <3>1. d \in 0..9 /\ h \in Int /\ h * 10 <= max - d /\ v <= h BY <1>2, <2>2
    <3> HIDE DEF d, h
    <3>2. v \in 0..max => v * 10 + d \in 0..max BY <3>1
    <3> QED BY <3>2 DEF d
  <2> QED BY <1>2, <2>1, <2>3, <2>4
<1> QED BY <1>1, <1>2

LEMMA UnsignedIs ==
  ASSUME NEW s \in Seq(Nat), s # <<>>, NEW max \in Nat, NEW g \in [0..Len(s) -> Int],
         g[0] = 0, \A i \in 1..Len(s) : g[i] = NextDigit(g[i - 1], s[i], max)
  PROVE  Unsigned(s, max) = g[Len(s)]
<1> DEFINE n == Len(s)
           At(h, i) == IF i = 0 THEN 0 ELSE NextDigit(h[i - 1], s[i], max)
           Counts(h) == h = [i \in 0..n |-> At(h, i)]
           value == CHOOSE h : Counts(h)
<1>0. /\ n \in Nat /\ g \in [0..n -> Int] /\ g[0] = 0
      /\ \A i \in 1..n : g[i] = NextDigit(g[i - 1], s[i], max)
  OBVIOUS
<1>1. Counts(g)
  <2>1. \A i \in 0..n : g[i] = At(g, i)
    <3> HIDE DEF n
    <3> QED BY <1>0
  <2> HIDE DEF At, n
  <2> QED BY <1>0, <2>1
<1>2. Counts(value)
  <2> HIDE DEF Counts
  <2> QED BY <1>1
<1>3. Unsigned(s, max) = value[n] BY DEF Unsigned
<1> HIDE DEF value
<1>4. \A i \in 0..n : value[i] = At(value, i)
  <2> HIDE DEF At, n
  <2> QED BY <1>2
<1> DEFINE S == {i \in 0..n : value[i] = g[i]}
<1>5. 0 \in S BY <1>0, <1>4
<1>6. ASSUME NEW i \in 1..n, i - 1 \in S PROVE i \in S
  <2>1. i \in 0..n /\ i # 0 BY <1>0
  <2>2. value[i] = NextDigit(value[i - 1], s[i], max)
    <3> HIDE DEF n
    <3> QED BY <1>4, <2>1
  <2> HIDE DEF n
  <2> QED BY <1>0, <1>6, <2>1, <2>2
<1>7. 0..n \subseteq S
  <2> HIDE DEF S
  <2> QED BY <1>0, <1>5, <1>6, BoundedInduction
<1> QED BY <1>0, <1>3, <1>7

LEMMA UnsignedExists ==
  ASSUME NEW s \in Seq(Nat), s # <<>>, NEW max \in Nat
  PROVE  \E g \in [0..Len(s) -> Int] :
           /\ g[0] = 0 /\ \A i \in 1..Len(s) : g[i] = NextDigit(g[i - 1], s[i], max)
           /\ Unsigned(s, max) = g[Len(s)]
<1> DEFINE step == [i \in 1..Len(s) |-> [x \in Int |-> NextDigit(x, s[i], max)]]
<1>1. Len(s) \in Nat /\ \A i \in 1..Len(s) : s[i] \in Nat OBVIOUS
<1>2. step \in [1..Len(s) -> [Int -> Int]] BY <1>1, NextDigitType
<1>3. PICK g \in [0..Len(s) -> Int] :
        g[0] = 0 /\ \A i \in 1..Len(s) : g[i] = step[i][g[i - 1]]
  <2> DEFINE D == Int  base == 0
  <2>1. base \in D /\ step \in Steps(Len(s), D) BY <1>2 DEF Steps
  <2> HIDE DEF step, base, D
  <2>2. PICK g : Solution(Len(s), D, base, step, g) BY <1>1, <2>1, Recursion
  <2> QED BY <2>2 DEF Solution, base, D
<1>4. ASSUME NEW i \in 1..Len(s) PROVE g[i] = NextDigit(g[i - 1], s[i], max)
  <2>1. i - 1 \in 0..Len(s) BY <1>1
  <2>2. g[i - 1] \in Int BY <2>1
  <2> QED BY <1>3, <2>2
<1> QED BY <1>3, <1>4, UnsignedIs

\* What is not refused is in range, and all of it was digits.
LEMMA UnsignedType ==
  ASSUME NEW s \in Seq(Nat), NEW max \in Nat, Unsigned(s, max) # Refused
  PROVE  /\ Unsigned(s, max) \in 0..max /\ s # <<>>
         /\ \A i \in 1..Len(s) : IsDigit(s[i])
<1>1. s # <<>> BY DEF Unsigned
<1> DEFINE n == Len(s)
<1>2. PICK g \in [0..n -> Int] :
        /\ g[0] = 0 /\ \A i \in 1..n : g[i] = NextDigit(g[i - 1], s[i], max)
        /\ Unsigned(s, max) = g[n]
  BY <1>1, UnsignedExists
<1>0. n \in Nat /\ \A i \in 1..n : s[i] \in Nat OBVIOUS
<1> HIDE DEF n
<1> DEFINE S == {i \in 0..n : g[i] # Refused => g[i] \in 0..max /\ \A j \in 1..i : IsDigit(s[j])}
<1>3. 0 \in S BY <1>0, <1>2
<1>4. ASSUME NEW i \in 1..n, i - 1 \in S PROVE i \in S
  <2> SUFFICES ASSUME g[i] # Refused PROVE g[i] \in 0..max /\ \A j \in 1..i : IsDigit(s[j])
    BY <1>0
  <2>1. i - 1 \in 0..n /\ s[i] \in Nat BY <1>0
  <2>2. g[i] = NextDigit(g[i - 1], s[i], max) /\ g[i - 1] \in Int BY <1>2, <2>1
  <2>3. g[i - 1] # Refused /\ IsDigit(s[i]) BY <2>1, <2>2, NextDigitType
  <2>4. g[i - 1] \in 0..max /\ \A j \in 1..(i - 1) : IsDigit(s[j]) BY <1>4, <2>3
  <2>5. g[i] \in 0..max BY <2>1, <2>2, <2>4, NextDigitType
  <2>6. \A j \in 1..i : j \in 1..(i - 1) \/ j = i BY <1>0
  <2> QED BY <2>3, <2>4, <2>5, <2>6
<1>5. 0..n \subseteq S
  <2> HIDE DEF S
  <2> QED BY <1>0, <1>3, <1>4, BoundedInduction
<1>6. n \in S BY <1>0, <1>5
<1> QED BY <1>1, <1>2, <1>6 DEF n

\* A number's digits are read as the number.
LEMMA UnsignedOfDigits ==
  ASSUME NEW max \in Nat, NEW n \in 0..max
  PROVE  Unsigned(Digits(n, 10), max) = n
<1> DEFINE b == 10  s == Digits(n, b)
<1>0. n \in Nat /\ b \in Bases BY DEF Bases
<1> HIDE DEF b
<1>1. PICK w, q : DigitsOf(n, b, w, q) BY <1>0, DigitsAre
<1>2. /\ w \in Nat \ {0} /\ q \in [0..w -> Nat] /\ q[0] = n /\ q[w] = 0
      /\ \A k \in 1..w : q[k] = q[k - 1] \div b
      /\ s = [i \in 1..w |-> Digit(q[w - i] % b)] /\ Len(s) = w
  BY <1>0, <1>1, DigitsUnfold
<1>3. s \in Seq(Nat) /\ s # <<>> BY <1>0, DigitsText
<1> HIDE DEF s
<1>4. ASSUME NEW k \in 1..w
      PROVE  q[k - 1] = 10 * q[k] + (q[k - 1] % b) /\ q[k - 1] % b \in 0..9
  <2> DEFINE x == q[k - 1]
  <2>1. x \in Nat /\ q[k] = x \div b BY <1>2
  <2> HIDE DEF x
  <2>2. x = b * (x \div b) + (x % b) /\ x % b \in 0..(b - 1) BY <1>0, <2>1, Quotients
  <2> QED BY <2>1, <2>2 DEF x, b
<1>5. \A k \in 0..w : q[k] \in 0..max
  <2> DEFINE S == {k \in 0..w : q[k] \in 0..max}
  <2>1. 0 \in S BY <1>2
  <2>2. ASSUME NEW k \in 1..w, k - 1 \in S PROVE k \in S
    <3>1. k \in 0..w /\ q[k] \in Nat /\ q[k - 1] \in 0..max BY <1>2, <2>2
    <3>2. q[k] <= q[k - 1]
      <4> DEFINE x == q[k - 1]  y == q[k]  r == x % b
      <4>1. x = 10 * y + r /\ r \in 0..9 /\ y \in Nat BY <1>4, <3>1
      <4> HIDE DEF x, y, r
      <4>2. y <= x BY <4>1
      <4> QED BY <4>2 DEF x, y
    <3> QED BY <3>1, <3>2
  <2>3. 0..w \subseteq S
    <3> HIDE DEF S
    <3> QED BY <1>2, <2>1, <2>2, BoundedInduction
  <2> QED BY <2>3
<1> DEFINE g == [i \in 0..w |-> q[w - i]]
<1>6. g \in [0..w -> Int] /\ g[0] = 0 /\ g[w] = n
  <2>1. \A i \in 0..w : w - i \in 0..w BY <1>2
  <2>2. \A i \in 0..w : q[w - i] \in Int BY <1>2, <2>1
  <2>3. w - 0 = w /\ w - w = 0 /\ 0 \in 0..w /\ w \in 0..w BY <1>2
  <2> QED BY <1>2, <2>2, <2>3
<1>7. ASSUME NEW i \in 1..w PROVE g[i] = NextDigit(g[i - 1], s[i], max)
  <2> DEFINE k == w - i + 1
             x == q[k - 1]
             y == q[k]
             r == x % b
  <2>1. k \in 1..w /\ k - 1 = w - i /\ k = w - (i - 1) /\ i \in 0..w /\ i - 1 \in 0..w
        /\ k - 1 \in 0..w
    BY <1>2
  <2>2. g[i] = x /\ g[i - 1] = y /\ s[i] = Digit(r) BY <1>2, <2>1
  <2>3. x = 10 * y + r /\ r \in 0..9 /\ x \in 0..max /\ y \in 0..max BY <1>4, <1>5, <2>1
  <2> HIDE DEF x, y, r, g
  <2>4. IsDigit(Digit(r)) /\ Digit(r) - 48 = r BY <2>3, DigitFacts
  <2>5. y # Refused /\ ~(y > (max - r) \div 10) BY <2>3 DEF Refused
  <2>6. NextDigit(y, Digit(r), max) = y * 10 + r BY <2>4, <2>5 DEF NextDigit
  <2>7. y * 10 + r = x BY <2>3
  <2>8. NextDigit(g[i - 1], s[i], max) = x BY <2>2, <2>6, <2>7, Zenon
  <2> QED BY <2>2, <2>8
<1>8. Unsigned(s, max) = g[w]
  <2> HIDE DEF g
  <2>1. Len(s) = w BY <1>2
  <2>2. g \in [0..Len(s) -> Int] /\ \A i \in 1..Len(s) : g[i] = NextDigit(g[i - 1], s[i], max)
    BY <1>6, <1>7, <2>1
  <2> QED BY <1>3, <1>6, <2>1, <2>2, UnsignedIs
<1> QED BY <1>6, <1>8 DEF s, b

-----------------------------------------------------------------------------
(* Text: what an address is written with.                                  *)

LEMMA FieldsType == ASSUME NEW s \in Seq(Nat), NEW sep PROVE Fields(s, sep) \in FieldLists
BY FieldsGrow, 0 \in Nat

\* A character is the separator or lies in a field.
Covers(f, c) == \E j \in 1..Len(f) : \E k \in 1..Len(f[j]) : f[j][k] = c

LEMMA NextFieldCovers ==
  ASSUME NEW f \in FieldLists, NEW c \in Nat, NEW sep
  PROVE  /\ \A d : Covers(f, d) => Covers(NextField(f, c, sep), d)
         /\ c = sep \/ Covers(NextField(f, c, sep), c)
<1> DEFINE n == Len(f)  g == NextField(f, c, sep)  x == Append(f[n], c)
<1>1. n \in Nat \ {0} /\ f \in Seq(Seq(Nat)) /\ n \in 1..n /\ f[n] \in Seq(Nat)
  BY DEF FieldLists
<1>2. CASE c = sep
  <2>1. Len(g) = n + 1 /\ \A j \in 1..n : g[j] = f[j] BY <1>1, <1>2 DEF NextField
  <2>2. \A j \in 1..n : j \in 1..Len(g) BY <1>1, <2>1
  <2> HIDE DEF g, n
  <2>3. \A d : Covers(f, d) => Covers(g, d) BY <2>1, <2>2 DEF Covers, n
  <2> QED BY <1>2, <2>3 DEF g
<1>3. CASE c # sep
  <2>1. x \in Seq(Nat) /\ Len(x) = Len(f[n]) + 1 /\ x[Len(x)] = c /\ Len(x) \in 1..Len(x)
        /\ \A k \in 1..Len(f[n]) : x[k] = f[n][k] /\ k \in 1..Len(x)
    BY <1>1
  <2> HIDE DEF x
  <2>2. g = [f EXCEPT ![n] = x] BY <1>3 DEF NextField, x
  <2>3. Len(g) = n /\ g[n] = x /\ \A j \in 1..n : j # n => g[j] = f[j]
    <3>1. f \in [1..n -> Seq(Nat)] BY <1>1
    <3> HIDE DEF n, g
    <3>2. [f EXCEPT ![n] = x][n] = x /\ DOMAIN [f EXCEPT ![n] = x] = 1..n
          /\ \A j \in 1..n : j # n => [f EXCEPT ![n] = x][j] = f[j]
      BY <1>1, <3>1
    <3>3. [f EXCEPT ![n] = x] \in [1..n -> Seq(Nat)] BY <1>1, <2>1, <3>1
    <3>4. Len([f EXCEPT ![n] = x]) = n BY <1>1, <3>2, <3>3
    <3> QED BY <2>2, <3>2, <3>4
  <2> HIDE DEF g, n
  <2>4. Covers(g, c) BY <1>1, <2>1, <2>3 DEF Covers
  <2>5. ASSUME NEW d, Covers(f, d) PROVE Covers(g, d)
    <3>1. PICK j \in 1..n : \E k \in 1..Len(f[j]) : f[j][k] = d BY <2>5 DEF Covers, n
    <3>2. PICK k \in 1..Len(f[j]) : f[j][k] = d BY <3>1
    <3>3. CASE j = n BY <1>1, <2>1, <2>3, <3>2, <3>3 DEF Covers
    <3>4. CASE j # n
      <4>1. g[j] = f[j] /\ j \in 1..Len(g) BY <2>3, <3>4
      <4> QED BY <3>2, <4>1 DEF Covers
    <3> QED BY <3>3, <3>4
  <2> QED BY <2>4, <2>5 DEF g
<1> QED BY <1>2, <1>3

LEMMA FieldsCover ==
  ASSUME NEW s \in Seq(Nat), NEW sep
  PROVE  \A i \in 1..Len(s) : s[i] = sep \/ Covers(Fields(s, sep), s[i])
<1> DEFINE P == {r \in Seq(Nat) : \A i \in 1..Len(r) : r[i] = sep \/ Covers(Fields(r, sep), r[i])}
<1>1. <<>> \in P OBVIOUS
<1>2. ASSUME NEW r \in Seq(Nat), NEW c \in Nat, r \in P PROVE Append(r, c) \in P
  <2> DEFINE t == Append(r, c)
  <2>1. t \in Seq(Nat) /\ Len(t) = Len(r) + 1 /\ t[Len(r) + 1] = c /\ Len(r) \in Nat
        /\ \A i \in 1..Len(r) : t[i] = r[i]
    OBVIOUS
  <2>2. Fields(r, sep) \in FieldLists /\ Fields(t, sep) = NextField(Fields(r, sep), c, sep)
    BY FieldsGrow
  <2> HIDE DEF t
  <2>3. \A i \in 1..Len(t) : i \in 1..Len(r) \/ i = Len(r) + 1 BY <2>1
  <2>4. ASSUME NEW i \in 1..Len(t) PROVE t[i] = sep \/ Covers(Fields(t, sep), t[i])
    <3>1. CASE i \in 1..Len(r)
      <4>1. r[i] = sep \/ Covers(Fields(r, sep), r[i]) BY <1>2, <3>1
      <4> QED BY <2>1, <2>2, <3>1, <4>1, NextFieldCovers
    <3>2. CASE i = Len(r) + 1 BY <2>1, <2>2, <3>2, NextFieldCovers
    <3> QED BY <2>3, <3>1, <3>2
  <2> QED BY <2>1, <2>4 DEF t
<1>3. Seq(Nat) \subseteq P
  <2> HIDE DEF P
  <2> QED BY <1>1, <1>2, SequenceInduction
<1> QED BY <1>3
\* A text of which every field is of some characters is of them, too.
LEMMA HexValue ==
  ASSUME NEW c \in Nat
  PROVE  /\ hex_value(c) \in -1..15
         /\ hex_value(c) >= 0 => c \in 48..57 \cup 65..70 \cup 97..102
<1>1. CASE IsDigit(c) BY <1>1 DEF hex_value, IsDigit
<1>2. CASE ~IsDigit(c) /\ Lower(c) \in 97..102
  <2>1. hex_value(c) = Lower(c) - 87 BY <1>2 DEF hex_value
  <2>2. c \in 65..70 \cup 97..102 BY <1>2 DEF Lower, IsUpper
  <2> QED BY <1>2, <2>1, <2>2
<1>3. CASE ~IsDigit(c) /\ ~(Lower(c) \in 97..102)
  <2>1. hex_value(c) = -1 BY <1>3 DEF hex_value
  <2> QED BY <2>1
<1> QED BY <1>1, <1>2, <1>3

\* Numbers of so many hexadecimal digits are less than this.
HexBound(i) ==
  IF i = 0 THEN 1 ELSE IF i = 1 THEN 16 ELSE IF i = 2 THEN 256 ELSE IF i = 3 THEN 16 * 256 ELSE 256 * 256

LEMMA HexBounds ==
  /\ HexBound(0) = 1
  /\ \A i \in 0..4 : HexBound(i) \in Nat /\ HexBound(i) <= HexBound(4)
  /\ \A i \in 1..4, v, h \in Nat :
       v < HexBound(i - 1) /\ h < 16 => v * 16 + h \in Nat /\ v * 16 + h < HexBound(i)
BY SMTT(20) DEF HexBound

\* A group that is read is a number of hexadecimal digits.
LEMMA GroupType ==
  ASSUME NEW t \in Seq(Nat), ipv6_group(t) # Refused
  PROVE  /\ ipv6_group(t) \in Nat /\ ipv6_group(t) < HexBound(4) /\ t # <<>>
         /\ \A i \in 1..Len(t) : t[i] \in 48..57 \cup 65..70 \cup 97..102
<1>1. Len(t) \in 1..4 /\ \A i \in 1..Len(t) : ~(hex_value(t[i]) < 0)
  BY DEF ipv6_group
<1>2. \A i \in 1..Len(t) : t[i] \in Nat /\ hex_value(t[i]) \in Nat /\ hex_value(t[i]) < 16
  <2> TAKE i \in 1..Len(t)
  <2>1. t[i] \in Nat OBVIOUS
  <2>2. hex_value(t[i]) \in -1..15 /\ ~(hex_value(t[i]) < 0) BY <1>1, <2>1, HexValue
  <2>3. \A h \in -1..15 : ~(h < 0) => h \in Nat /\ h < 16 OBVIOUS
  <2> QED BY <2>1, <2>2, <2>3, Zenon
<1> DEFINE n == Len(t)
           At(h, i) == IF i = 0 THEN 0 ELSE h[i - 1] * 16 + hex_value(t[i])
           Counts(h) == h = [i \in 0..n |-> At(h, i)]
           value == CHOOSE h : Counts(h)
<1>3. PICK g \in [0..n -> Nat] : g[0] = 0 /\ \A i \in 1..n : g[i] = g[i - 1] * 16 + hex_value(t[i])
  <2> DEFINE D == Nat  base == 0
             step == [i \in 1..n |-> [x \in Nat |-> x * 16 + hex_value(t[i])]]
  <2>1. base \in D /\ step \in Steps(n, D) /\ n \in Nat BY <1>2 DEF Steps
  <2> HIDE DEF base, D
  <2>2. PICK g : Solution(n, D, base, step, g)
    <3> HIDE DEF step, n
    <3> QED BY <2>1, Recursion
  <2>3. g \in [0..n -> Nat] /\ g[0] = 0 /\ \A i \in 1..n : g[i] = step[i][g[i - 1]]
    <3> HIDE DEF step, n
    <3> QED BY <2>2 DEF Solution, base, D
  <2>4. ASSUME NEW i \in 1..n PROVE g[i] = g[i - 1] * 16 + hex_value(t[i])
    <3>0. n \in Nat OBVIOUS
    <3> HIDE DEF n
    <3>1. g[i - 1] \in Nat BY <2>3, <3>0
    <3> QED BY <2>3, <3>1
  <2> QED BY <2>3, <2>4
<1>4. n \in Nat OBVIOUS
<1> HIDE DEF n
<1>5. Counts(g)
  <2>1. \A i \in 0..n : g[i] = At(g, i) BY <1>3, <1>4
  <2> HIDE DEF At
  <2> QED BY <1>3, <2>1
<1>6. Counts(value)
  <2> HIDE DEF Counts
  <2> QED BY <1>5
<1>7. ipv6_group(t) = value[n] BY <1>1 DEF ipv6_group, n
<1> HIDE DEF value
<1>8. \A i \in 0..n : value[i] = At(value, i)
  <2> HIDE DEF At
  <2> QED BY <1>6
<1> DEFINE S == {i \in 0..n : value[i] \in Nat /\ value[i] < HexBound(i)}
<1>9. 0 \in S BY <1>4, <1>8, HexBounds
<1>10. ASSUME NEW i \in 1..n, i - 1 \in S PROVE i \in S
  <2>0. n \in 1..4 BY <1>1 DEF n
  <2>1. i \in 0..n /\ i # 0 /\ i \in 1..4
    <3> HIDE DEF S
    <3> QED BY <2>0
  <2>2. value[i] = value[i - 1] * 16 + hex_value(t[i]) BY <1>8, <2>1
  <2>3. /\ value[i - 1] \in Nat /\ value[i - 1] < HexBound(i - 1)
        /\ hex_value(t[i]) \in Nat /\ hex_value(t[i]) < 16
    BY <1>2, <1>10 DEF n
  <2> DEFINE v == value[i - 1]  h == hex_value(t[i])
  <2> HIDE DEF v, h
  <2>4. v \in Nat /\ v < HexBound(i - 1) /\ h \in Nat /\ h < 16 BY <2>3 DEF v, h
  <2>5. v * 16 + h \in Nat /\ v * 16 + h < HexBound(i)
    <3> HIDE DEF S
    <3>1. \A j \in 1..4, x, y \in Nat :
            x < HexBound(j - 1) /\ y < 16 => x * 16 + y \in Nat /\ x * 16 + y < HexBound(j)
      BY HexBounds
    <3> QED BY <2>1, <2>4, <3>1, Zenon
  <2> QED BY <2>1, <2>2, <2>5 DEF v, h
<1>11. 0..n \subseteq S
  <2> HIDE DEF S
  <2> QED BY <1>4, <1>9, <1>10, BoundedInduction
<1>12. value[n] \in Nat /\ value[n] < HexBound(4)
  <2>1. n \in 1..4 BY <1>1 DEF n
  <2>2. value[n] \in Nat /\ value[n] < HexBound(n) BY <1>4, <1>11
  <2> HIDE DEF S
  <2>3. HexBound(n) \in Nat /\ HexBound(4) \in Nat /\ HexBound(n) <= HexBound(4)
    BY <2>1, HexBounds
  <2> QED BY <2>2, <2>3
<1>13. ASSUME NEW i \in 1..Len(t) PROVE t[i] \in 48..57 \cup 65..70 \cup 97..102
  <2>1. t[i] \in Nat /\ hex_value(t[i]) >= 0 BY <1>2
  <2> QED BY <2>1, HexValue
<1>14. t # <<>>
  <2> SUFFICES ASSUME t = <<>> PROVE FALSE OBVIOUS
  <2>1. Len(t) = 0 OBVIOUS
  <2> HIDE DEF S
  <2> QED BY <1>1, <2>1
<1> QED BY <1>7, <1>12, <1>13, <1>14

\* An octet that is read is a byte, and all digits.
LEMMA OctetType ==
  ASSUME NEW t \in Seq(Nat), ipv4_octet(t) # Refused
  PROVE  ipv4_octet(t) \in 0..255 /\ \A i \in 1..Len(t) : t[i] \in 48..57
<1>1. ipv4_octet(t) = Unsigned(t, 255) BY DEF ipv4_octet
<1>2. Unsigned(t, 255) # Refused BY <1>1
<1>3. Unsigned(t, 255) \in 0..255 /\ \A i \in 1..Len(t) : IsDigit(t[i])
  <2> DEFINE m == 255
  <2>1. m \in Nat OBVIOUS
  <2> HIDE DEF m
  <2>2. Unsigned(t, m) # Refused => Unsigned(t, m) \in 0..m /\ \A i \in 1..Len(t) : IsDigit(t[i])
    BY <2>1, UnsignedType
  <2> QED BY <1>2, <2>2 DEF m
<1> QED BY <1>1, <1>3 DEF IsDigit

\* What is read as an IPv4 address is four bytes, written with digits and dots.
LEMMA V4Text ==
  ASSUME NEW s \in Seq(Nat), ipv4_parse(s) # <<>>
  PROVE  /\ ipv4_parse(s) \in Seq(Nat) /\ Len(ipv4_parse(s)) = 4
         /\ ipv4_parse(s) \in [1..4 -> 0..255]
         /\ \A i \in 1..Len(s) : s[i] = DOT \/ s[i] \in 48..57
<1> DEFINE f == Fields(s, DOT)
           octet == [i \in 1..Len(f) |-> ipv4_octet(f[i])]
<1>1. f \in Seq(Seq(Nat)) BY FieldsType DEF FieldLists
<1>2. Len(f) = 4 /\ (\A i \in 1..Len(f) : octet[i] # Refused) /\ ipv4_parse(s) = octet
  <2>1. ~(Len(f) # 4 \/ \E i \in 1..Len(f) : octet[i] = Refused) BY DEF ipv4_parse
  <2>2. ipv4_parse(s) = octet BY <2>1 DEF ipv4_parse
  <2> HIDE DEF octet, f
  <2> QED BY <2>1, <2>2
<1>3. ASSUME NEW j \in 1..Len(f)
      PROVE  /\ ipv4_octet(f[j]) \in Nat /\ ipv4_octet(f[j]) \in 0..255
             /\ \A k \in 1..Len(f[j]) : f[j][k] \in 48..57
  <2>1. f[j] \in Seq(Nat) BY <1>1
  <2>2. ipv4_octet(f[j]) # Refused
    <3>1. octet[j] = ipv4_octet(f[j]) OBVIOUS
    <3> HIDE DEF octet, f
    <3> QED BY <1>2, <3>1
  <2> DEFINE x == f[j]
  <2> HIDE DEF f
  <2>3. x \in Seq(Nat) /\ ipv4_octet(x) # Refused BY <2>1, <2>2
  <2> HIDE DEF x
  <2>4. ipv4_octet(x) \in 0..255 /\ \A k \in 1..Len(x) : x[k] \in 48..57 BY <2>3, OctetType
  <2>5. \A y \in 0..255 : y \in Nat OBVIOUS
  <2>6. ipv4_octet(x) \in Nat BY <2>4, <2>5, Zenon
  <2> QED BY <2>4, <2>6 DEF x
<1>4. octet \in Seq(Nat) /\ Len(octet) = 4
  <2> HIDE DEF f
  <2> QED BY <1>2, <1>3
<1>5. octet \in [1..4 -> 0..255]
  <2> HIDE DEF f
  <2> QED BY <1>2, <1>3
<1>6. ASSUME NEW i \in 1..Len(s) PROVE s[i] = DOT \/ s[i] \in 48..57
  <2>1. s[i] = DOT \/ Covers(f, s[i]) BY FieldsCover
  <2> HIDE DEF f
  <2> QED BY <1>3, <2>1 DEF Covers
<1> HIDE DEF octet
<1> QED BY <1>2, <1>4, <1>5, <1>6

LEMMA ByteOf ==
  ASSUME NEW x \in Nat, x < HexBound(4)
  PROVE  /\ x \div 256 \in Nat /\ x \div 256 \in 0..255
         /\ x % 256 \in Nat /\ x % 256 \in 0..255
BY SMTT(20) DEF HexBound

\* What is read as an IPv6 address is sixteen bytes, written with
\* hexadecimal digits and colons.
LEMMA V6Text ==
  ASSUME NEW s \in Seq(Nat), ipv6_parse(s) # <<>>
  PROVE  /\ ipv6_parse(s) \in Seq(Nat) /\ Len(ipv6_parse(s)) = 16
         /\ ipv6_parse(s) \in [1..16 -> 0..255]
         /\ \A i \in 1..Len(s) : s[i] = COLON \/ s[i] \in 48..57 \cup 65..70 \cup 97..102
<1> DEFINE f     == Fields(s, COLON)
           n     == Len(f)
           empty == {i \in 1..n : f[i] = <<>>}
           group == [i \in 1..n |-> ipv6_group(f[i])]
           whole == empty = {} /\ n = 8
           run   == /\ \/ n = 3 /\ empty = 1..3
                       \/ n > 2 /\ empty \in {{1, 2}, {n - 1, n}}
                       \/ \E i \in 2..(n - 1) : empty = {i}
                    /\ n - Cardinality(empty) < 8
           value(k) == IF whole \/ k < Min(empty) THEN group[k]
                       ELSE IF k > 8 - (n - Max(empty)) THEN group[n - (8 - k)] ELSE 0
           byte(i) == IF i % 2 = 1 THEN value((i + 1) \div 2) \div 256 ELSE value(i \div 2) % 256
           bad == (~whole /\ ~run) \/ \E i \in (1..n) \ empty : group[i] = Refused
<1>1. f \in Seq(Seq(Nat)) /\ n \in Nat /\ \A i \in 1..n : f[i] \in Seq(Nat)
  BY FieldsType DEF FieldLists
<1>2. ipv6_parse(s) = IF bad THEN <<>> ELSE [i \in 1..16 |-> byte(i)] BY DEF ipv6_parse
<1>3. ~bad
  <2> HIDE DEF bad, byte
  <2> QED BY <1>2
<1>4. ipv6_parse(s) = [i \in 1..16 |-> byte(i)]
  <2> HIDE DEF bad, byte
  <2> QED BY <1>2, <1>3
<1>5. (whole \/ run) /\ \A i \in (1..n) \ empty : group[i] # Refused
  <2> HIDE DEF whole, run, n, empty, group
  <2> QED BY <1>3
<1>6. ASSUME NEW i \in (1..n) \ empty
      PROVE  /\ group[i] \in Nat /\ group[i] < HexBound(4)
             /\ \A k \in 1..Len(f[i]) : f[i][k] \in 48..57 \cup 65..70 \cup 97..102
  <2>1. f[i] \in Seq(Nat) BY <1>1
  <2>2. group[i] = ipv6_group(f[i]) OBVIOUS
  <2>3. group[i] # Refused
    <3> HIDE DEF f, group, n, empty
    <3> QED BY <1>5
  <2> DEFINE t == f[i]
  <2> HIDE DEF f, group, n, empty
  <2>4. t \in Seq(Nat) /\ ipv6_group(t) # Refused BY <2>1, <2>2, <2>3
  <2> HIDE DEF t
  <2>5. /\ ipv6_group(t) \in Nat /\ ipv6_group(t) < HexBound(4)
        /\ \A k \in 1..Len(t) : t[k] \in 48..57 \cup 65..70 \cup 97..102
    BY <2>4, GroupType
  <2> QED BY <2>2, <2>5 DEF t
<1>7. ASSUME NEW i \in 1..Len(s)
      PROVE  s[i] = COLON \/ s[i] \in 48..57 \cup 65..70 \cup 97..102
  <2>1. s[i] = COLON \/ Covers(f, s[i]) BY FieldsCover
  <2>2. ASSUME NEW j \in 1..Len(f), NEW k \in 1..Len(f[j])
        PROVE  f[j][k] \in 48..57 \cup 65..70 \cup 97..102
    <3>1. f[j] # <<>>
      <4> SUFFICES ASSUME f[j] = <<>> PROVE FALSE OBVIOUS
      <4>1. Len(f[j]) = 0
        <5> HIDE DEF f
        <5> QED OBVIOUS
      <4> HIDE DEF f
      <4> QED BY <4>1
    <3>2. j \in (1..n) \ empty BY <3>1
    <3> HIDE DEF f, n, empty, group
    <3> QED BY <1>6, <3>2
  <2> HIDE DEF f
  <2> QED BY <2>1, <2>2, Zenon DEF Covers
\* Every value is a group that was read, or zero.
<1>8. whole \/ empty # {}
  <2>1. run => empty # {}
    <3>1. 1 \in 1..3 OBVIOUS
    <3> HIDE DEF empty, n
    <3> QED BY <3>1
  <2> HIDE DEF run, whole
  <2> QED BY <1>5, <2>1
<1>9. ~whole => /\ Min(empty) \in empty /\ \A x \in empty : Min(empty) <= x
                /\ Max(empty) \in empty /\ \A x \in empty : x <= Max(empty)
  <2> SUFFICES ASSUME ~whole
               PROVE  /\ Min(empty) \in empty /\ \A x \in empty : Min(empty) <= x
                      /\ Max(empty) \in empty /\ \A x \in empty : x <= Max(empty)
    OBVIOUS
  <2>1. empty # {} BY <1>8
  <2>2. empty \subseteq 1..n OBVIOUS
  <2> HIDE DEF empty, n, f
  <2>3. n \in Nat BY <1>1
  <2>4. PICK a \in empty : \A x \in empty : a <= x
    <3>1. empty \subseteq Nat BY <2>2, <2>3
    <3> QED BY <2>1, <3>1, NatHasLeast
  <2>5. PICK b \in empty : \A x \in empty : x <= b
    <3> DEFINE T == {n - x : x \in empty}
    <3>1. T \subseteq Nat /\ T # {} BY <2>1, <2>2, <2>3
    <3>2. PICK m \in T : \A x \in T : m <= x
      <4> HIDE DEF T
      <4> QED BY <3>1, NatHasLeast
    <3>3. PICK b \in empty : m = n - b BY <3>2
    <3>4. ASSUME NEW x \in empty PROVE x <= b
      <4>1. n - x \in T /\ x \in 1..n /\ b \in 1..n BY <2>2
      <4>2. m <= n - x BY <3>2, <4>1
      <4> HIDE DEF T
      <4> QED BY <2>3, <3>3, <4>1, <4>2
    <3> QED BY <3>4
  <2> QED BY <2>4, <2>5 DEF Min, Max
<1>10. ASSUME NEW k \in 1..8 PROVE value(k) \in Nat /\ value(k) < HexBound(4)
  <2> DEFINE a == Min(empty)  b == Max(empty)
  <2>1. CASE whole
    <3>1. empty = {} /\ n = 8 BY <2>1
    <3>2. value(k) = group[k]
      <4> HIDE DEF whole, group
      <4> QED BY <2>1
    <3>3. k \in (1..n) \ empty
      <4> HIDE DEF empty, n
      <4> QED BY <3>1
    <3> HIDE DEF value
    <3> QED BY <1>6, <3>2, <3>3
  <2>2. CASE ~whole /\ k < a
    <3>1. a \in 1..n /\ \A x \in empty : a <= x
      <4>1. a \in empty /\ \A x \in empty : a <= x
        <5> HIDE DEF empty, whole
        <5> QED BY <1>9, <2>2
      <4> HIDE DEF a
      <4> QED BY <4>1
    <3>2. k \in (1..n) \ empty
      <4>1. k \in 1..n
        <5> HIDE DEF a, n
        <5> QED BY <1>1, <2>2, <3>1
      <4>2. k \notin empty
        <5> HIDE DEF a, n, empty
        <5> QED BY <1>1, <2>2, <3>1
      <4> QED BY <4>1, <4>2
    <3>3. value(k) = group[k]
      <4> HIDE DEF whole, group, empty
      <4> QED BY <2>2
    <3> HIDE DEF value
    <3> QED BY <1>6, <3>2, <3>3
  <2>3. CASE ~whole /\ ~(k < a) /\ k > 8 - (n - b)
    <3> DEFINE j == n - (8 - k)
    <3>1. b \in 1..n /\ \A x \in empty : x <= b
      <4>1. b \in empty /\ \A x \in empty : x <= b
        <5> HIDE DEF empty, whole
        <5> QED BY <1>9, <2>3
      <4> HIDE DEF b
      <4> QED BY <4>1
    <3>2. j \in (1..n) \ empty
      <4>1. j \in 1..n /\ j > b
        <5> HIDE DEF b, n
        <5> QED BY <1>1, <2>3, <3>1
      <4>2. j \notin empty
        <5> HIDE DEF b, n, empty, j
        <5> QED BY <1>1, <3>1, <4>1
      <4> HIDE DEF j
      <4> QED BY <4>1, <4>2
    <3>3. value(k) = group[j]
      <4> HIDE DEF whole, group, empty, n
      <4> QED BY <2>3
    <3> HIDE DEF value, j
    <3> QED BY <1>6, <3>2, <3>3
  <2>4. CASE ~whole /\ ~(k < a) /\ ~(k > 8 - (n - b))
    <3>1. value(k) = 0
      <4> HIDE DEF whole, group, empty, n
      <4> QED BY <2>4
    <3>2. HexBound(4) > 0 /\ HexBound(4) \in Nat BY DEF HexBound
    <3> HIDE DEF value
    <3> QED BY <3>1, <3>2
  <2> HIDE DEF whole, a, b, value, n
  <2> QED BY <2>1, <2>2, <2>3, <2>4
<1>11. ASSUME NEW i \in 1..16 PROVE byte(i) \in Nat /\ byte(i) \in 0..255
  <2>1. CASE i % 2 = 1
    <3> DEFINE k == (i + 1) \div 2
    <3>1. k \in 1..8 BY <2>1
    <3>2. byte(i) = value(k) \div 256
      <4> HIDE DEF value
      <4> QED BY <2>1
    <3>3. value(k) \in Nat /\ value(k) < HexBound(4)
      <4> HIDE DEF value, k, n, f, empty, group, whole, run, bad
      <4> QED BY <1>10, <3>1
    <3> DEFINE x == value(k)
    <3>4. x \in Nat /\ x < HexBound(4) BY <3>3
    <3>5. byte(i) = x \div 256 BY <3>2
    <3> HIDE DEF value, byte, k, x
    <3>6. x \div 256 \in Nat /\ x \div 256 \in 0..255 BY <3>4, ByteOf
    <3> QED BY <3>5, <3>6
  <2>2. CASE i % 2 # 1
    <3> DEFINE k == i \div 2
    <3>1. k \in 1..8 BY <2>2
    <3>2. byte(i) = value(k) % 256
      <4> HIDE DEF value
      <4> QED BY <2>2
    <3>3. value(k) \in Nat /\ value(k) < HexBound(4)
      <4> HIDE DEF value, k, n, f, empty, group, whole, run, bad
      <4> QED BY <1>10, <3>1
    <3> DEFINE x == value(k)
    <3>4. x \in Nat /\ x < HexBound(4) BY <3>3
    <3>5. byte(i) = x % 256 BY <3>2
    <3> HIDE DEF value, byte, k, x
    <3>6. x % 256 \in Nat /\ x % 256 \in 0..255 BY <3>4, ByteOf
    <3> QED BY <3>5, <3>6
  <2> HIDE DEF byte
  <2> QED BY <2>1, <2>2
<1>12. /\ ipv6_parse(s) \in Seq(Nat) /\ Len(ipv6_parse(s)) = 16
       /\ ipv6_parse(s) \in [1..16 -> 0..255]
  <2> HIDE DEF byte
  <2> QED BY <1>4, <1>11
<1> QED BY <1>7, <1>12

\* What an endpoint's text is read as.
LEMMA AddressText ==
  ASSUME NEW s \in Seq(Nat)
  PROVE  /\ parse_ip(s) \in Seq(Nat)
         /\ FamilyOf(parse_ip(s)) = INET =>
              s # <<>> /\ \A i \in 1..Len(s) : s[i] = DOT \/ s[i] \in 48..57
         /\ FamilyOf(parse_ip(s)) = INET6 =>
              s # <<>> /\ \A i \in 1..Len(s) : s[i] = COLON \/ s[i] \in 48..57 \cup 65..70 \cup 97..102
<1>1. parse_ip(s) = IF ipv4_parse(s) # <<>> THEN ipv4_parse(s) ELSE ipv6_parse(s) BY DEF parse_ip
<1>2. \A a : /\ FamilyOf(a) = INET => Len(a) = 4
             /\ FamilyOf(a) = INET6 => Len(a) = 16
  BY DEF FamilyOf, INET, INET6, UNSPEC
<1>3. CASE ipv4_parse(s) # <<>>
  <2>1. parse_ip(s) = ipv4_parse(s) /\ Len(ipv4_parse(s)) = 4 BY <1>1, <1>3, V4Text
  <2>2. s # <<>>
    <3> SUFFICES ASSUME s = <<>> PROVE FALSE OBVIOUS
    <3>1. Fields(s, DOT) = <<<<>>>> BY FieldsOfNothing
    <3>2. Len(Fields(s, DOT)) # 4 BY <3>1
    <3>3. ipv4_parse(s) = <<>> BY <3>2 DEF ipv4_parse
    <3> QED BY <1>3, <3>3
  <2>3. FamilyOf(parse_ip(s)) # INET6
    <3> DEFINE a == ipv4_parse(s)
    <3>1. FamilyOf(a) = INET6 => Len(a) = 16 BY <1>2
    <3>2. Len(a) # 16
      <4>1. Len(a) = 4 BY <2>1
      <4> HIDE DEF a
      <4> QED BY <4>1
    <3>3. parse_ip(s) = a BY <2>1
    <3> HIDE DEF a
    <3> QED BY <3>1, <3>2, <3>3
  <2> QED BY <1>3, <2>1, <2>2, <2>3, V4Text
<1>4. CASE ipv4_parse(s) = <<>> /\ ipv6_parse(s) # <<>>
  <2>1. parse_ip(s) = ipv6_parse(s) /\ Len(ipv6_parse(s)) = 16 BY <1>1, <1>4, V6Text
  <2>2. s # <<>>
    <3> SUFFICES ASSUME s = <<>> PROVE FALSE OBVIOUS
    <3> DEFINE f == Fields(s, COLON)  n == Len(f)  empty == {i \in 1..n : f[i] = <<>>}
    <3>1. f = <<<<>>>> BY FieldsOfNothing
    <3>2. n = 1 /\ 1 \in empty /\ \A i : ~(i \in 2..(n - 1)) BY <3>1
    <3>3. ipv6_parse(s) = <<>>
      <4> DEFINE ok == \/ empty = {} /\ n = 8
                       \/ /\ \/ n = 3 /\ empty = 1..3
                             \/ n > 2 /\ empty \in {{1, 2}, {n - 1, n}}
                             \/ \E i \in 2..(n - 1) : empty = {i}
                          /\ n - Cardinality(empty) < 8
      <4>1. ~ok
        <5> HIDE DEF n, empty
        <5> QED BY <3>2
      <4> QED BY <4>1 DEF ipv6_parse
    <3> QED BY <1>4, <3>3
  <2>3. FamilyOf(parse_ip(s)) # INET
    <3> DEFINE a == ipv6_parse(s)
    <3>1. FamilyOf(a) = INET => Len(a) = 4 BY <1>2
    <3>2. Len(a) # 4
      <4>1. Len(a) = 16 BY <2>1
      <4> HIDE DEF a
      <4> QED BY <4>1
    <3>3. parse_ip(s) = a BY <2>1
    <3> HIDE DEF a
    <3> QED BY <3>1, <3>2, <3>3
  <2> QED BY <1>4, <2>1, <2>2, <2>3, V6Text
<1>5. CASE ipv4_parse(s) = <<>> /\ ipv6_parse(s) = <<>>
  <2>1. parse_ip(s) = <<>> BY <1>1, <1>5
  <2>2. <<>> \in Seq(Nat) OBVIOUS
  <2>3. Len(<<>>) # 4 /\ Len(<<>>) # 16 OBVIOUS
  <2>4. FamilyOf(<<>>) # INET /\ FamilyOf(<<>>) # INET6 BY <1>2, <2>3
  <2> QED BY <2>1, <2>2, <2>4
<1> QED BY <1>3, <1>4, <1>5
-----------------------------------------------------------------------------
(* The order of endpoints.                                                 *)

LEMMA LeastExists ==
  ASSUME NEW T, T \subseteq Nat, T # {}
  PROVE  Min(T) \in T /\ \A y \in T : Min(T) <= y
<1> DEFINE R == {p \in Nat \X Nat : p[1] < p[2]}
<1>1. IsWellFoundedOn(R, Nat) BY NatLessThanWellFounded DEF OpToRel
<1>2. ASSUME NEW x \in Nat, NEW y \in Nat, ~(<<y, x>> \in R) PROVE x <= y
  BY <1>2
<1> HIDE DEF R
<1>3. PICK x \in T : \A y \in T : ~(<<y, x>> \in R) BY <1>1, WFMin
<1>4. ASSUME NEW y \in T PROVE x <= y BY <1>2, <1>3
<1> QED BY <1>3, <1>4 DEF Min

\* s comes before t in the dictionary.
Before(s, t) ==
  \E n \in Nat :
    /\ n <= Len(s) /\ n <= Len(t) /\ \A i \in 1..n : s[i] = t[i]
    /\ \/ n = Len(s) /\ n < Len(t)
       \/ n < Len(s) /\ n < Len(t) /\ s[n + 1] < t[n + 1]

LEMMA BeforeAt ==
  ASSUME NEW s, NEW t, NEW n \in Nat,
         n <= Len(s), n <= Len(t), \A i \in 1..n : s[i] = t[i],
         \/ n = Len(s) /\ n < Len(t)
         \/ n < Len(s) /\ n < Len(t) /\ s[n + 1] < t[n + 1]
  PROVE  Before(s, t)
BY DEF Before

LEMMA BeforeIsStrict ==
  ASSUME NEW s \in Seq(Nat), NEW t \in Seq(Nat), Before(s, t)
  PROVE  s # t /\ ~Before(t, s)
<1>1. PICK n \in Nat :
        /\ n <= Len(s) /\ n <= Len(t) /\ \A i \in 1..n : s[i] = t[i]
        /\ \/ n = Len(s) /\ n < Len(t)
           \/ n < Len(s) /\ n < Len(t) /\ s[n + 1] < t[n + 1]
  BY DEF Before
<1>2. n < Len(s) => s[n + 1] \in Nat /\ t[n + 1] \in Nat BY <1>1
<1>3. s # t BY <1>1, <1>2
<1>4. ASSUME Before(t, s) PROVE FALSE
  <2>1. PICK m \in Nat :
          /\ m <= Len(t) /\ m <= Len(s) /\ \A i \in 1..m : t[i] = s[i]
          /\ \/ m = Len(t) /\ m < Len(s)
             \/ m < Len(t) /\ m < Len(s) /\ t[m + 1] < s[m + 1]
    BY <1>4 DEF Before
  <2>2. m < Len(s) /\ m < Len(t) => s[m + 1] \in Nat /\ t[m + 1] \in Nat OBVIOUS
  <2>3. CASE n < m BY <1>1, <1>2, <2>1, <2>3
  <2>4. CASE m < n BY <1>1, <2>1, <2>2, <2>4
  <2>5. CASE n = m BY <1>1, <1>2, <2>1, <2>5
  <2> QED BY <2>3, <2>4, <2>5
<1> QED BY <1>3, <1>4

LEMMA BeforeIsTransitive ==
  ASSUME NEW s \in Seq(Nat), NEW t \in Seq(Nat), NEW u \in Seq(Nat), Before(s, t), Before(t, u)
  PROVE  Before(s, u)
<1>1. PICK n \in Nat :
        /\ n <= Len(s) /\ n <= Len(t) /\ \A i \in 1..n : s[i] = t[i]
        /\ \/ n = Len(s) /\ n < Len(t)
           \/ n < Len(s) /\ n < Len(t) /\ s[n + 1] < t[n + 1]
  BY DEF Before
<1>2. PICK m \in Nat :
        /\ m <= Len(t) /\ m <= Len(u) /\ \A i \in 1..m : t[i] = u[i]
        /\ \/ m = Len(t) /\ m < Len(u)
           \/ m < Len(t) /\ m < Len(u) /\ t[m + 1] < u[m + 1]
  BY DEF Before
<1>3. /\ n < Len(s) => s[n + 1] \in Nat
      /\ n < Len(t) => t[n + 1] \in Nat
      /\ m < Len(t) => t[m + 1] \in Nat
      /\ m < Len(u) => u[m + 1] \in Nat
  OBVIOUS
<1>4. CASE n < m
  <2>1. t[n + 1] = u[n + 1] /\ \A i \in 1..n : s[i] = u[i] BY <1>1, <1>2, <1>4
  <2>2. n < Len(t) /\ n < Len(u) /\ n <= Len(u) BY <1>2, <1>4
  <2>3. n # Len(s) => n < Len(s) /\ s[n + 1] < u[n + 1] BY <1>1, <2>1, <2>2
  <2>4. n = Len(s) => n < Len(u) BY <2>2
  <2> QED BY <1>1, <2>1, <2>2, <2>3, <2>4, BeforeAt
<1>5. CASE m < n
  <2>1. s[m + 1] = t[m + 1] /\ \A i \in 1..m : s[i] = u[i] BY <1>1, <1>2, <1>5
  <2>2. m < Len(s) /\ m <= Len(s) /\ m < Len(t) BY <1>1, <1>5
  <2>3. CASE m = Len(t) BY <2>2, <2>3
  <2>4. CASE m < Len(u) /\ t[m + 1] < u[m + 1] BY <1>2, <2>1, <2>2, <2>4, BeforeAt
  <2> QED BY <1>2, <2>3, <2>4
<1>6. CASE n = m
  <2>1. \A i \in 1..n : s[i] = u[i] BY <1>1, <1>2, <1>6
  <2>2. n < Len(s) /\ n < Len(u) => s[n + 1] < u[n + 1]
    <3> SUFFICES ASSUME n < Len(s), n < Len(u) PROVE s[n + 1] < u[n + 1] OBVIOUS
    <3>1. n < Len(t) /\ s[n + 1] < t[n + 1] BY <1>1
    <3>2. t[n + 1] < u[n + 1] BY <1>2, <1>6, <3>1
    <3>3. s[n + 1] \in Nat /\ t[n + 1] \in Nat /\ u[n + 1] \in Nat BY <3>1
    <3> QED BY <3>1, <3>2, <3>3
  <2> QED BY <1>1, <1>2, <1>6, <2>1, <2>2, BeforeAt
<1> QED BY <1>4, <1>5, <1>6

LEMMA ComparedIsBefore ==
  ASSUME NEW s \in Seq(Nat), NEW t \in Seq(Nat)
  PROVE  \/ Compared(s, t) = 0 /\ s = t
         \/ Compared(s, t) = -1 /\ Before(s, t)
         \/ Compared(s, t) = 1 /\ Before(t, s)
<1> DEFINE n == Least(Len(s), Len(t))
           differ == {i \in 1..n : s[i] # t[i]}
<1>1. n \in Nat /\ n <= Len(s) /\ n <= Len(t) /\ (n = Len(s) \/ n = Len(t)) BY DEF Least
<1>2. Compared(s, t) =
        IF differ # {} THEN IF s[Min(differ)] < t[Min(differ)] THEN -1 ELSE 1
        ELSE IF Len(s) = Len(t) THEN 0 ELSE IF Len(s) < Len(t) THEN -1 ELSE 1
  BY DEF Compared
<1>3. CASE differ # {}
  <2>1. differ \subseteq Nat BY <1>1
  <2>2. Min(differ) \in differ /\ \A y \in differ : Min(differ) <= y BY <1>3, <2>1, LeastExists
  <2> DEFINE m == Min(differ) - 1
  <2>3. Min(differ) \in 1..n /\ m \in Nat /\ m + 1 = Min(differ) BY <1>1, <2>2
  <2>4. m < n /\ s[m + 1] # t[m + 1] BY <1>1, <2>2, <2>3
  <2>5. ASSUME NEW i \in 1..m PROVE s[i] = t[i]
    <3>1. PICK d \in 1..n : d = Min(differ) /\ m + 1 = d BY <2>3
    <3>2. m \in Nat /\ n \in Nat /\ i \in Nat /\ 1 <= i /\ i <= m /\ d <= n BY <1>1, <2>3, <3>1
    <3> HIDE DEF m, n, differ
    <3>3. i \in 1..n /\ ~(d <= i) BY <3>1, <3>2
    <3>4. i \notin differ BY <2>2, <3>1, <3>3
    <3> QED BY <3>3, <3>4 DEF differ
  <2>6. s[m + 1] \in Nat /\ t[m + 1] \in Nat BY <1>1, <2>3
  <2> HIDE DEF n, differ, m
  <2>7. m < Len(s) /\ m < Len(t) /\ m <= Len(s) /\ m <= Len(t) BY <1>1, <2>3, <2>4
  <2>8. s[m + 1] < t[m + 1] => Before(s, t) BY <2>3, <2>5, <2>7, BeforeAt
  <2>9. t[m + 1] < s[m + 1] => Before(t, s) BY <2>3, <2>5, <2>7, BeforeAt
  <2> QED BY <1>2, <1>3, <2>3, <2>4, <2>6, <2>8, <2>9
<1>4. CASE differ = {}
  <2>1. \A i \in 1..n : s[i] = t[i] BY <1>4
  <2> HIDE DEF n, differ
  <2>2. CASE Len(s) = Len(t) BY <1>1, <1>2, <1>4, <2>1, <2>2
  <2>3. CASE Len(s) < Len(t)
    <3>1. Before(s, t) BY <1>1, <2>1, <2>3 DEF Before
    <3> QED BY <1>2, <1>4, <2>3, <3>1
  <2>4. CASE Len(t) < Len(s)
    <3>1. Before(t, s) BY <1>1, <2>1, <2>4 DEF Before
    <3> QED BY <1>2, <1>4, <2>4, <3>1
  <2> QED BY <2>2, <2>3, <2>4
<1> QED BY <1>3, <1>4

\* memcmp and strcmp are orders.
LEMMA ComparedIsOrder ==
  ASSUME NEW s \in Seq(Nat), NEW t \in Seq(Nat)
  PROVE  /\ Compared(s, t) \in {-1, 0, 1} /\ Compared(s, t) = -Compared(t, s)
         /\ Compared(s, t) = 0 <=> s = t
BY ComparedIsBefore, BeforeIsStrict

LEMMA ComparedIsTransitive ==
  ASSUME NEW s \in Seq(Nat), NEW t \in Seq(Nat), NEW u \in Seq(Nat),
         Compared(s, t) <= 0, Compared(t, u) <= 0
  PROVE  Compared(s, u) <= 0 /\ (Compared(s, u) = 0 <=> Compared(s, t) = 0 /\ Compared(t, u) = 0)
<1>1. \/ Compared(s, t) = 0 /\ s = t
      \/ Compared(s, t) = -1 /\ Before(s, t)
  BY ComparedIsBefore
<1>2. \/ Compared(t, u) = 0 /\ t = u
      \/ Compared(t, u) = -1 /\ Before(t, u)
  BY ComparedIsBefore
<1>3. CASE s = t \/ t = u BY <1>1, <1>2, <1>3, BeforeIsStrict, ComparedIsOrder
<1>4. CASE Before(s, t) /\ Before(t, u)
  <2>1. Before(s, u) /\ s # t BY <1>4, BeforeIsTransitive, BeforeIsStrict
  <2> QED BY <1>1, <1>2, <2>1, ComparedIsBefore, BeforeIsStrict
<1> QED BY <1>1, <1>2, <1>3, <1>4

\* What two endpoints of one family are compared by, before the port.
AddressOrder(a, b) ==
  LET x == endpoint_to_bytes(a)  y == endpoint_to_bytes(b)
  IN  IF x # <<>> /\ Len(x) = Len(y) THEN Compared(x, y) ELSE Compared(a.ip, b.ip)
FamilyOrder(a, b) == Compared(<<a.family>>, <<b.family>>)
PortOrder(a, b)   == Compared(<<a.port>>, <<b.port>>)

LEMMA OrderOfParts ==
  ASSUME NEW a, NEW b
  PROVE  endpoint_compare(a, b) =
           IF a.family # b.family THEN FamilyOrder(a, b)
           ELSE IF AddressOrder(a, b) # 0 THEN AddressOrder(a, b) ELSE PortOrder(a, b)
BY DEF endpoint_compare, AddressOrder, FamilyOrder, PortOrder

LEMMA EndpointTypes ==
  ASSUME NEW a \in Compareds
  PROVE  /\ a.family \in {1, 2, 3} /\ a.ip \in Seq(Nat) /\ a.port \in Nat
         /\ endpoint_to_bytes(a) \in Seq(Nat)
         /\ <<a.family>> \in Seq(Nat) /\ <<a.port>> \in Seq(Nat)
<1>1. a \in [family : {UNSPEC, INET, INET6}, ip : Seq(Nat), port : Nat] BY ApiAssumption
<1>2. a.family \in {1, 2, 3} /\ a.ip \in Seq(Nat) /\ a.port \in Nat
  BY <1>1 DEF UNSPEC, INET, INET6
<1>3. endpoint_to_bytes(a) \in Seq(Nat)
  <2>1. parse_ip(a.ip) \in Seq(Nat) BY <1>2, AddressText
  <2>2. <<>> \in Seq(Nat) OBVIOUS
  <2> QED BY <2>1, <2>2 DEF endpoint_to_bytes
<1> QED BY <1>2, <1>3

LEMMA FamilyIsOrder ==
  ASSUME NEW a \in Compareds, NEW b \in Compareds
  PROVE  /\ FamilyOrder(a, b) \in {-1, 0, 1} /\ FamilyOrder(a, b) = -FamilyOrder(b, a)
         /\ FamilyOrder(a, b) = 0 <=> a.family = b.family
<1>1. <<a.family>> = <<b.family>> <=> a.family = b.family OBVIOUS
<1>2. PICK s \in Seq(Nat), t \in Seq(Nat) : s = <<a.family>> /\ t = <<b.family>>
  BY EndpointTypes
<1>3. FamilyOrder(a, b) = Compared(s, t) /\ FamilyOrder(b, a) = Compared(t, s)
  BY <1>2 DEF FamilyOrder
<1>4. /\ Compared(s, t) \in {-1, 0, 1} /\ Compared(s, t) = -Compared(t, s)
      /\ Compared(s, t) = 0 <=> s = t
  BY ComparedIsOrder
<1> QED BY <1>1, <1>2, <1>3, <1>4

LEMMA PortIsOrder ==
  ASSUME NEW a \in Compareds, NEW b \in Compareds
  PROVE  /\ PortOrder(a, b) \in {-1, 0, 1} /\ PortOrder(a, b) = -PortOrder(b, a)
         /\ PortOrder(a, b) = 0 <=> a.port = b.port
<1>1. <<a.port>> = <<b.port>> <=> a.port = b.port OBVIOUS
<1> QED BY <1>1, EndpointTypes, ComparedIsOrder, Zenon DEF PortOrder

LEMMA AddressIsOrder ==
  ASSUME NEW a \in Compareds, NEW b \in Compareds
  PROVE  /\ AddressOrder(a, b) \in {-1, 0, 1} /\ AddressOrder(a, b) = -AddressOrder(b, a)
         /\ AddressOrder(a, b) = 0 =>
              \/ endpoint_to_bytes(a) # <<>> /\ endpoint_to_bytes(a) = endpoint_to_bytes(b)
              \/ a.ip = b.ip
<1> DEFINE x == endpoint_to_bytes(a)
           y == endpoint_to_bytes(b)
<1>1. x \in Seq(Nat) /\ y \in Seq(Nat) /\ a.ip \in Seq(Nat) /\ b.ip \in Seq(Nat)
  BY EndpointTypes
<1>2. /\ AddressOrder(a, b) = IF x # <<>> /\ Len(x) = Len(y) THEN Compared(x, y)
                              ELSE Compared(a.ip, b.ip)
      /\ AddressOrder(b, a) = IF y # <<>> /\ Len(y) = Len(x) THEN Compared(y, x)
                              ELSE Compared(b.ip, a.ip)
  BY DEF AddressOrder
<1> HIDE DEF x, y
<1>3. x # <<>> /\ Len(x) = Len(y) <=> y # <<>> /\ Len(y) = Len(x) BY <1>1
<1>4. /\ Compared(x, y) \in {-1, 0, 1} /\ Compared(x, y) = -Compared(y, x)
      /\ Compared(x, y) = 0 <=> x = y
  BY <1>1, ComparedIsOrder
<1>5. /\ Compared(a.ip, b.ip) \in {-1, 0, 1} /\ Compared(a.ip, b.ip) = -Compared(b.ip, a.ip)
      /\ Compared(a.ip, b.ip) = 0 <=> a.ip = b.ip
  BY <1>1, ComparedIsOrder
<1> QED BY <1>2, <1>3, <1>4, <1>5 DEF x, y

\* Endpoints whose text is an address of their family are compared by its
\* bytes, those of no family by their text.
Key(a) == IF a.family = UNSPEC THEN a.ip ELSE endpoint_to_bytes(a)

LEMMA ProperAddress ==
  ASSUME NEW a \in Compareds, NEW b \in Compareds, Proper(a), Proper(b), a.family = b.family
  PROVE  AddressOrder(a, b) = Compared(Key(a), Key(b))
<1> DEFINE x == endpoint_to_bytes(a)
           y == endpoint_to_bytes(b)
<1>1. CASE a.family = UNSPEC
  BY <1>1 DEF AddressOrder, Key, endpoint_to_bytes
<1>2. CASE a.family # UNSPEC
  <2>1. x = parse_ip(a.ip) /\ y = parse_ip(b.ip) BY <1>2 DEF endpoint_to_bytes
  <2>2. Len(x) = Len(y) /\ Len(x) # 0
    <3>1. FamilyOf(x) = a.family /\ FamilyOf(y) = a.family BY <2>1 DEF Proper
    <3> HIDE DEF x, y
    <3>2. Len(x) \in {4, 16} /\ Len(y) \in {4, 16}
      BY <1>2, <3>1 DEF FamilyOf
    <3>3. Len(x) = Len(y)
      BY <3>1, <3>2 DEF FamilyOf, INET, INET6
    <3> QED BY <3>2, <3>3
  <2>3. x # <<>> BY <2>2
  <2> QED BY <1>2, <2>2, <2>3 DEF AddressOrder, Key
<1> QED BY <1>1, <1>2

LEMMA KeyType == ASSUME NEW a \in Compareds PROVE Key(a) \in Seq(Nat)
BY EndpointTypes DEF Key

\* Three orders of parts make a lexicographic one.
Lexicographic(f, k, p) == IF f # 0 THEN f ELSE IF k # 0 THEN k ELSE p
Composes(ab, bc, ac) ==
  ab <= 0 /\ bc <= 0 => ac <= 0 /\ (ac = 0 <=> ab = 0 /\ bc = 0)

LEMMA LexicographicComposes ==
  ASSUME NEW fab \in Int, NEW fbc \in Int, NEW fac \in Int, Composes(fab, fbc, fac),
         NEW kab \in Int, NEW kbc \in Int, NEW kac \in Int,
         fab = 0 /\ fbc = 0 => Composes(kab, kbc, kac),
         NEW pab \in Int, NEW pbc \in Int, NEW pac \in Int, Composes(pab, pbc, pac)
  PROVE  Composes(Lexicographic(fab, kab, pab), Lexicographic(fbc, kbc, pbc),
                  Lexicographic(fac, kac, pac))
BY DEF Composes, Lexicographic

LEMMA CompareIsTransitive ==
  ASSUME NEW a \in Compareds, NEW b \in Compareds, NEW c \in Compareds,
         Proper(a), Proper(b), Proper(c)
  PROVE  Composes(endpoint_compare(a, b), endpoint_compare(b, c), endpoint_compare(a, c))
<1>1. ASSUME NEW s \in Seq(Nat), NEW t \in Seq(Nat), NEW u \in Seq(Nat)
      PROVE  Composes(Compared(s, t), Compared(t, u), Compared(s, u))
  BY <1>1, ComparedIsTransitive DEF Composes
<1>2. Composes(FamilyOrder(a, b), FamilyOrder(b, c), FamilyOrder(a, c))
  BY <1>1, EndpointTypes DEF FamilyOrder
<1>3. Composes(PortOrder(a, b), PortOrder(b, c), PortOrder(a, c))
  BY <1>1, EndpointTypes DEF PortOrder
<1>4. FamilyOrder(a, b) = 0 /\ FamilyOrder(b, c) = 0 =>
        Composes(AddressOrder(a, b), AddressOrder(b, c), AddressOrder(a, c))
  BY <1>1, KeyType, ProperAddress, FamilyIsOrder
<1>5. ASSUME NEW e \in Compareds, NEW g \in Compareds
      PROVE  /\ FamilyOrder(e, g) \in Int /\ AddressOrder(e, g) \in Int /\ PortOrder(e, g) \in Int
             /\ endpoint_compare(e, g) =
                  Lexicographic(FamilyOrder(e, g), AddressOrder(e, g), PortOrder(e, g))
  BY OrderOfParts, FamilyIsOrder, AddressIsOrder, PortIsOrder DEF Lexicographic
<1>6. /\ endpoint_compare(a, b) = Lexicographic(FamilyOrder(a, b), AddressOrder(a, b), PortOrder(a, b))
      /\ endpoint_compare(b, c) = Lexicographic(FamilyOrder(b, c), AddressOrder(b, c), PortOrder(b, c))
      /\ endpoint_compare(a, c) = Lexicographic(FamilyOrder(a, c), AddressOrder(a, c), PortOrder(a, c))
  BY <1>5
<1>7. /\ FamilyOrder(a, b) \in Int /\ FamilyOrder(b, c) \in Int /\ FamilyOrder(a, c) \in Int
      /\ AddressOrder(a, b) \in Int /\ AddressOrder(b, c) \in Int /\ AddressOrder(a, c) \in Int
      /\ PortOrder(a, b) \in Int /\ PortOrder(b, c) \in Int /\ PortOrder(a, c) \in Int
  BY <1>5
<1>8. Composes(Lexicographic(FamilyOrder(a, b), AddressOrder(a, b), PortOrder(a, b)),
               Lexicographic(FamilyOrder(b, c), AddressOrder(b, c), PortOrder(b, c)),
               Lexicographic(FamilyOrder(a, c), AddressOrder(a, c), PortOrder(a, c)))
  BY <1>2, <1>3, <1>4, <1>7, LexicographicComposes
<1> QED BY <1>6, <1>8

LEMMA CompareIsAntisymmetric ==
  ASSUME NEW a \in Compareds, NEW b \in Compareds
  PROVE  endpoint_compare(a, b) = -endpoint_compare(b, a)
BY OrderOfParts, FamilyIsOrder, AddressIsOrder, PortIsOrder

LEMMA EqualsHashAlike ==
  ASSUME NEW a \in Compareds, NEW b \in Compareds, endpoint_compare(a, b) = 0
  PROVE  endpoint_hash(a) = endpoint_hash(b)
<1>1. a.family = b.family /\ AddressOrder(a, b) = 0 /\ a.port = b.port
  BY OrderOfParts, FamilyIsOrder, AddressIsOrder, PortIsOrder
<1>2. CASE a.ip = b.ip
  <2>1. endpoint_to_bytes(a) = endpoint_to_bytes(b) BY <1>1, <1>2 DEF endpoint_to_bytes
  <2> QED BY <1>1, <1>2, <2>1 DEF endpoint_hash
<1>3. CASE endpoint_to_bytes(a) # <<>> /\ endpoint_to_bytes(a) = endpoint_to_bytes(b)
  BY <1>1, <1>3 DEF endpoint_hash
<1> QED BY <1>1, <1>2, <1>3, AddressIsOrder

\* Three endpoints and what comparing them said.
OrderInv ==
  tool = "order" /\ phase = "answered" =>
    /\ \A i \in 1..3 : given[i] \in Compareds
    /\ \A i, j \in 1..3 : told[i][j] = endpoint_compare(given[i], given[j])

LEMMA NextOrder == OrderInv /\ [SessionNext]_sessionVars => OrderInv'
<1> SUFFICES ASSUME OrderInv, [SessionNext]_sessionVars PROVE OrderInv' OBVIOUS
<1>1. CASE Compare
  <2>1. PICK a \in Compareds, b \in Compareds, c \in Compareds :
          /\ given' = <<a, b, c>>
          /\ told' = [i \in 1..3 |-> [j \in 1..3 |-> endpoint_compare(given'[i], given'[j])]]
    BY <1>1 DEF Compare
  <2>2. \A i \in 1..3 : given'[i] \in Compareds BY <2>1
  <2>3. \A i, j \in 1..3 : told'[i][j] = endpoint_compare(given'[i], given'[j]) BY <2>1
  <2> QED BY <2>2, <2>3 DEF OrderInv
<1>2. CASE Write \/ Read \/ Prepare \/ Push \/ Pop \/ Clear \/ Put \/ Rewind \/ Get \/ Observe
  BY <1>2, OneTool DEF OrderInv
<1>3. CASE UNCHANGED sessionVars BY <1>3 DEF sessionVars, OrderInv
<1> QED BY <1>1, <1>2, <1>3 DEF SessionNext
-----------------------------------------------------------------------------
(* The buffer.  A field lies in it as its bytes, reversed if little-endian *)
(* and after their number if length-prefixed; a put lays the field at the  *)
(* cursor or leaves everything as it was.                                  *)

Laid(f) ==
  CASE f.kind = "le"  -> Reverse(f.bytes)
    [] f.kind = "lp8" -> <<Len(f.bytes)>> \o f.bytes
    [] OTHER -> f.bytes
TooLong(f) == f.kind = "lp8" /\ Len(f.bytes) > LP_MAX

\* The bytes b lie in data from the offset at.
LiesAt(data, at, b) ==
  /\ at + Len(b) <= Len(data)
  /\ \A k \in 1..Len(b) : data[at + k] = b[k]

Cursors == {c \in [data : Seq(Nat), off : Nat] : c.off <= Len(c.data)}

LEMMA FieldTypes ==
  ASSUME NEW f \in Fields8
  PROVE  /\ f.kind \in {"be", "le", "lp8", "raw", "zero"}
         /\ f.bytes \in Seq(Nat) /\ Len(f.bytes) \in Nat
         /\ f.kind = "zero" => bytes_is_zero(f.bytes)
BY ApiAssumption

LEMMA ReverseFacts ==
  ASSUME NEW s \in Seq(Nat)
  PROVE  /\ Reverse(s) \in Seq(Nat) /\ Len(Reverse(s)) = Len(s)
         /\ \A i \in 1..Len(s) : Reverse(s)[i] = s[Len(s) - i + 1]
         /\ Reverse(Reverse(s)) = s
<1>1. Reverse(s) = [i \in 1..Len(s) |-> s[(Len(s) - i) + 1]] BY DEF Reverse
<1>2. Len(s) \in Nat OBVIOUS
<1>3. ASSUME NEW i \in 1..Len(s)
      PROVE  (Len(s) - i) + 1 \in 1..Len(s) /\ s[(Len(s) - i) + 1] \in Nat
  BY <1>2
<1>4. Reverse(s) \in Seq(Nat) /\ Len(Reverse(s)) = Len(s) BY <1>1, <1>2, <1>3
<1>5. Reverse(Reverse(s)) = [i \in 1..Len(s) |-> Reverse(s)[(Len(s) - i) + 1]]
  BY <1>4 DEF Reverse
<1>6. ASSUME NEW i \in 1..Len(s) PROVE Reverse(Reverse(s))[i] = s[i]
  <2>1. (Len(s) - ((Len(s) - i) + 1)) + 1 = i BY <1>2
  <2> QED BY <1>1, <1>3, <1>5, <2>1, Zenon
<1>7. Reverse(Reverse(s)) = [i \in 1..Len(s) |-> Reverse(Reverse(s))[i]] BY <1>5
<1>8. s = [i \in 1..Len(s) |-> s[i]] OBVIOUS
<1>9. Reverse(Reverse(s)) = s BY <1>6, <1>7, <1>8
<1> QED BY <1>1, <1>4, <1>9

LEMMA LaidTypes ==
  ASSUME NEW f \in Fields8
  PROVE  /\ Laid(f) \in Seq(Nat) /\ Len(Laid(f)) \in Nat
         /\ Len(Laid(f)) = Len(f.bytes) + (IF f.kind = "lp8" THEN 1 ELSE 0)
<1>1. CASE f.kind = "le" BY <1>1, FieldTypes, ReverseFacts DEF Laid
<1>2. CASE f.kind = "lp8"
  <2>1. <<Len(f.bytes)>> \in Seq(Nat) /\ Len(<<Len(f.bytes)>>) = 1 BY FieldTypes
  <2> QED BY <1>2, <2>1, FieldTypes DEF Laid
<1>3. CASE f.kind \notin {"le", "lp8"}
  <2>1. f.kind # "le" /\ f.kind # "lp8" BY <1>3
  <2>2. Laid(f) = f.bytes BY <2>1 DEF Laid
  <2> QED BY <2>1, <2>2, FieldTypes
<1> QED BY <1>1, <1>2, <1>3

LEMMA PutLays ==
  ASSUME NEW c, NEW f \in Fields8
  PROVE  PutOf(c, f) = IF TooLong(f) THEN Fails(c, "OUT_OF_RANGE") ELSE Takes(c, Laid(f))
<1>1. CASE f.kind = "be" BY <1>1 DEF PutOf, TooLong, Laid, bytes_put_be
<1>2. CASE f.kind = "le"
  <2>1. Len(Reverse(f.bytes)) = Len(f.bytes) BY FieldTypes, ReverseFacts
  <2> QED BY <1>2, <2>1 DEF PutOf, TooLong, Laid, bytes_put_le, Takes, le_put
<1>3. CASE f.kind = "lp8" BY <1>3 DEF PutOf, TooLong, Laid, bytes_put_lp8
<1>4. CASE f.kind = "raw" BY <1>4 DEF PutOf, TooLong, Laid, bytes_put
<1>5. CASE f.kind = "zero"
  <2>1. f.bytes \in Seq(Nat) /\ \A i \in 1..Len(f.bytes) : f.bytes[i] = 0
    BY <1>5, FieldTypes DEF bytes_is_zero
  <2>2. f.bytes = [i \in 1..Len(f.bytes) |-> 0] BY <2>1
  <2> QED BY <1>5, <2>2 DEF PutOf, TooLong, Laid, bytes_put_zero
<1> QED BY <1>1, <1>2, <1>3, <1>4, <1>5, FieldTypes

LEMMA HasRoom ==
  ASSUME NEW c \in Cursors, NEW n \in Nat
  PROVE  cursor_has(c, n) <=> c.off + n <= Len(c.data)
<1>1. c.off \in Nat /\ Len(c.data) \in Nat /\ c.off <= Len(c.data) BY DEF Cursors
<1> QED BY <1>1 DEF cursor_has, cursor_remaining

\* What is laid at the cursor lies there, and what lay before it still does.
LEMMA TakesFacts ==
  ASSUME NEW c \in Cursors, NEW b \in Seq(Nat), NEW take, take = Takes(c, b)
  PROVE  \/ take.rc # "OK" /\ take.cursor = c
         \/ /\ take.rc = "OK" /\ take.cursor \in Cursors
            /\ take.cursor.off = c.off + Len(b)
            /\ Len(take.cursor.data) = Len(c.data)
            /\ LiesAt(take.cursor.data, c.off, b)
            /\ \A at \in Nat, a \in Seq(Nat) :
                 LiesAt(c.data, at, a) /\ at + Len(a) <= c.off => LiesAt(take.cursor.data, at, a)
<1>1. c = [data |-> c.data, off |-> c.off] /\ c.off \in Nat /\ c.data \in Seq(Nat)
      /\ Len(c.data) \in Nat /\ Len(b) \in Nat
  BY DEF Cursors
<1>2. CASE ~cursor_has(c, Len(b)) BY <1>2 DEF Takes, Fails
<1>3. CASE cursor_has(c, Len(b))
  <2>1. c.off + Len(b) <= Len(c.data) BY <1>1, <1>3, HasRoom
  <2> DEFINE data == be_put(c.data, c.off, b)
  <2>2. take = [rc |-> "OK", cursor |-> [data |-> data, off |-> c.off + Len(b)], got |-> <<>>]
    BY <1>1, <1>3 DEF Takes, Gives
  <2>3. data = [i \in 1..Len(c.data) |->
                  IF i \in (c.off + 1)..(c.off + Len(b)) THEN b[i - c.off] ELSE c.data[i]]
    BY DEF be_put
  <2>4. ASSUME NEW i \in 1..Len(c.data)
        PROVE  /\ i \in (c.off + 1)..(c.off + Len(b)) => b[i - c.off] \in Nat
               /\ c.data[i] \in Nat
    <3>1. i \in (c.off + 1)..(c.off + Len(b)) => i - c.off \in 1..Len(b) BY <1>1
    <3> QED BY <1>1, <3>1
  <2>5. data \in Seq(Nat) /\ Len(data) = Len(c.data) BY <1>1, <2>3, <2>4
  <2>6. LiesAt(data, c.off, b)
    <3>1. ASSUME NEW k \in 1..Len(b) PROVE data[c.off + k] = b[k]
      <4>1. /\ c.off + k \in 1..Len(c.data)
            /\ c.off + k \in (c.off + 1)..(c.off + Len(b))
            /\ (c.off + k) - c.off = k
        BY <1>1, <2>1
      <4> QED BY <2>3, <4>1
    <3> QED BY <2>1, <2>5, <3>1 DEF LiesAt
  <2>7. ASSUME NEW at \in Nat, NEW a \in Seq(Nat), LiesAt(c.data, at, a), at + Len(a) <= c.off
        PROVE  LiesAt(data, at, a)
    <3>1. ASSUME NEW k \in 1..Len(a) PROVE data[at + k] = a[k]
      <4>1. Len(a) \in Nat OBVIOUS
      <4>2. /\ at + k \in 1..Len(c.data)
            /\ at + k \notin (c.off + 1)..(c.off + Len(b))
        BY <1>1, <2>7, <4>1 DEF LiesAt
      <4>3. data[at + k] = c.data[at + k] BY <2>3, <4>2
      <4> QED BY <2>7, <4>3 DEF LiesAt
    <3> QED BY <2>5, <2>7, <3>1 DEF LiesAt
  <2> HIDE DEF data
  <2>8. take.cursor \in Cursors BY <1>1, <2>1, <2>2, <2>5 DEF Cursors
  <2> QED BY <2>2, <2>5, <2>6, <2>7, <2>8
<1> QED BY <1>2, <1>3

LEMMA SliceIs ==
  ASSUME NEW data \in Seq(Nat), NEW m \in Nat, NEW b \in Seq(Nat), LiesAt(data, m, b)
  PROVE  SubSeq(data, m + 1, m + Len(b)) = b
<1>1. Len(b) \in Nat /\ Len(data) \in Nat OBVIOUS
<1> DEFINE n == m + Len(b)
<1>2. n \in Nat /\ n - (m + 1) + 1 = Len(b) BY <1>1
<1>3. \A i \in (m + 1)..n : data[i] \in Nat BY <1>1 DEF LiesAt
<1> HIDE DEF n
<1>4. /\ SubSeq(data, m + 1, n) \in Seq(Nat)
      /\ Len(SubSeq(data, m + 1, n)) = IF m + 1 <= n THEN n - (m + 1) + 1 ELSE 0
      /\ \A i \in 1..(n - (m + 1) + 1) : SubSeq(data, m + 1, n)[i] = data[m + 1 + i - 1]
  BY <1>2, <1>3, SubSeqProperties
<1>5. Len(SubSeq(data, m + 1, n)) = Len(b) BY <1>1, <1>2, <1>4
<1>6. ASSUME NEW i \in 1..Len(b) PROVE SubSeq(data, m + 1, n)[i] = b[i]
  <2>1. m + 1 + i - 1 = m + i BY <1>1
  <2> QED BY <1>2, <1>4, <2>1 DEF LiesAt
<1>7. SubSeq(data, m + 1, n) = b BY <1>4, <1>5, <1>6, SeqEqual
<1> QED BY <1>7 DEF n

\* What lies at the cursor is read back, unless a length-prefixed field has
\* no room: then nothing is read.
LEMMA GetReads ==
  ASSUME NEW c \in Cursors, NEW f \in Fields8, ~TooLong(f), LiesAt(c.data, c.off, Laid(f)),
         NEW room \in Int
  PROVE  LET got == GetOf(c, f, room)
         IN  IF f.kind = "lp8" /\ Len(f.bytes) > 0 /\ room < Len(f.bytes)
             THEN got.rc # "OK" /\ got.cursor = c
             ELSE /\ got.rc = "OK" /\ got.got = f.bytes
                  /\ got.cursor = [c EXCEPT !.off = @ + Len(Laid(f))]
<1>1. c.off \in Nat /\ c.data \in Seq(Nat) /\ Len(c.data) \in Nat BY DEF Cursors
<1>2. f.bytes \in Seq(Nat) /\ Len(f.bytes) \in Nat /\ Laid(f) \in Seq(Nat) /\ Len(Laid(f)) \in Nat
  BY FieldTypes, LaidTypes
<1>3. c.off + Len(Laid(f)) <= Len(c.data) BY DEF LiesAt
<1>4. CASE f.kind \in {"be", "raw", "zero"}
  <2>1. Laid(f) = f.bytes BY <1>4 DEF Laid
  <2>2. SubSeq(c.data, c.off + 1, c.off + Len(f.bytes)) = f.bytes BY <1>1, <1>2, <2>1, SliceIs
  <2>3. cursor_has(c, Len(f.bytes)) BY <1>2, <1>3, <2>1, HasRoom
  <2>4. GetOf(c, f, room) = Gives(c, f.bytes, Len(f.bytes))
    BY <1>4, <2>2, <2>3 DEF GetOf, bytes_get_be, be_get, bytes_get
  <2> QED BY <1>4, <2>1, <2>4 DEF Gives
<1>5. CASE f.kind = "le"
  <2>1. Laid(f) = Reverse(f.bytes) /\ Len(Laid(f)) = Len(f.bytes) /\ Reverse(Laid(f)) = f.bytes
    BY <1>2, <1>5, ReverseFacts DEF Laid
  <2>2. SubSeq(c.data, c.off + 1, c.off + Len(f.bytes)) = Laid(f) BY <1>1, <1>2, <2>1, SliceIs
  <2>3. cursor_has(c, Len(f.bytes)) BY <1>2, <1>3, <2>1, HasRoom
  <2>4. GetOf(c, f, room) = Gives(c, f.bytes, Len(f.bytes))
    BY <1>5, <2>1, <2>2, <2>3 DEF GetOf, bytes_get_le, le_get, be_get
  <2> QED BY <1>5, <2>1, <2>4 DEF Gives
<1>6. CASE f.kind = "lp8"
  <2> DEFINE n == Len(f.bytes)
  <2>1. Laid(f) = <<n>> \o f.bytes BY <1>6 DEF Laid
  <2>2. <<n>> \in Seq(Nat) /\ Len(<<n>>) = 1 /\ <<n>>[1] = n BY <1>2
  <2>3. /\ Len(Laid(f)) = 1 + n
        /\ \A i \in 1..(1 + n) : Laid(f)[i] = IF i <= 1 THEN <<n>>[i] ELSE f.bytes[i - 1]
    BY <1>2, <2>1, <2>2, ConcatProperties
  <2>4. c.data[c.off + 1] = n
    <3>1. 1 \in 1..(1 + n) BY <1>2
    <3> QED BY <2>2, <2>3, <3>1 DEF LiesAt
  <2>5. LiesAt(c.data, c.off + 1, f.bytes)
    <3>1. ASSUME NEW k \in 1..n PROVE c.data[c.off + 1 + k] = f.bytes[k]
      <4>1. k + 1 \in 1..(1 + n) /\ (k + 1) - 1 = k /\ ~(k + 1 <= 1) BY <1>2
      <4>2. c.data[c.off + (k + 1)] = Laid(f)[k + 1] BY <2>3, <4>1 DEF LiesAt
      <4>3. Laid(f)[k + 1] = f.bytes[k] BY <2>3, <4>1
      <4>4. c.off + (k + 1) = c.off + 1 + k BY <1>1, <4>1
      <4> QED BY <4>2, <4>3, <4>4
    <3>2. c.off + 1 + n <= Len(c.data) BY <1>1, <1>2, <1>3, <2>3
    <3> QED BY <3>1, <3>2 DEF LiesAt
  <2>6. SubSeq(c.data, c.off + 2, c.off + 1 + n) = f.bytes
    <3>1. c.off + 1 \in Nat /\ (c.off + 1) + 1 = c.off + 2 BY <1>1
    <3>2. \A m \in Nat : LiesAt(c.data, m, f.bytes) => SubSeq(c.data, m + 1, m + n) = f.bytes
      BY <1>1, <1>2, SliceIs
    <3>3. SubSeq(c.data, (c.off + 1) + 1, (c.off + 1) + n) = f.bytes BY <2>5, <3>1, <3>2
    <3> QED BY <3>1, <3>3
  <2>7. cursor_has(c, 1) /\ cursor_has(c, 1 + n)
    <3>1. 1 \in Nat /\ 1 + n \in Nat /\ c.off + 1 <= Len(c.data) /\ c.off + (1 + n) <= Len(c.data)
      BY <1>1, <1>2, <1>3, <2>3
    <3>2. \A m \in Nat : c.off + m <= Len(c.data) => cursor_has(c, m) BY HasRoom
    <3> QED BY <3>1, <3>2
  <2>8. n <= LP_MAX /\ ~(n > LP_MAX) BY <1>2, <1>6, BytesAssumption DEF TooLong
  <2>9. GetOf(c, f, room) = IF n > 0 /\ room < n THEN Fails(c, "BUFFER_TOO_SMALL")
                            ELSE Gives(c, f.bytes, 1 + n)
    <3> HIDE DEF n
    <3> QED BY <1>6, <2>4, <2>6, <2>7, <2>8 DEF GetOf, bytes_get_lp8
  <2> QED BY <1>6, <2>3, <2>9 DEF Gives, Fails
<1> QED BY <1>4, <1>5, <1>6, FieldTypes

\* Where each field that went in lies, one after the other, and where the
\* next one will.
Layout(at) ==
  /\ at \in [1..(Len(given) + 1) -> Nat] /\ at[1] = 0
  /\ \A i \in 1..Len(given) :
       /\ at[i + 1] = at[i] + Len(Laid(given[i])) /\ at[i + 1] <= at[Len(given) + 1]
       /\ LiesAt(held.data, at[i], Laid(given[i])) /\ ~TooLong(given[i])

BufferInv ==
  tool = "buffer" =>
    /\ held \in Cursors /\ given \in Seq(Fields8) /\ phase \in {"filling", "answered"}
    /\ told \in Seq(Seq(Nat)) /\ Len(told) <= Len(given)
    /\ \A i \in 1..Len(told) : told[i] = given[i].bytes
    /\ phase = "filling" => told = <<>>
    /\ \E at : /\ Layout(at)
               /\ held.off = at[(IF phase = "filling" THEN Len(given) ELSE Len(told)) + 1]

LEMMA InitBuffer == SessionInit => BufferInv
<1> SUFFICES ASSUME SessionInit, tool = "buffer" PROVE BufferInv BY DEF BufferInv
<1>1. PICK n \in BufferSizes : held = cursor_init([i \in 1..n |-> 0]) BY DEF SessionInit, Start
<1>2. n \in Nat BY ApiAssumption
<1>3. [i \in 1..n |-> 0] \in Seq(Nat) BY <1>2
<1>4. held \in Cursors /\ held.off = 0
  <2>1. PICK z \in Seq(Nat) : z = [i \in 1..n |-> 0] BY <1>3
  <2>2. Len(z) \in Nat /\ 0 <= Len(z) OBVIOUS
  <2>3. held = [data |-> z, off |-> 0] BY <1>1, <2>1 DEF cursor_init
  <2> QED BY <2>2, <2>3 DEF Cursors
<1>5. given = <<>> /\ told = <<>> /\ phase = "filling" /\ Len(given) = 0 BY DEF SessionInit
<1> DEFINE at == [i \in 1..1 |-> 0]
<1>6. Layout(at) /\ held.off = at[1] BY <1>4, <1>5 DEF Layout
<1> HIDE DEF at
<1>7. \E a : Layout(a) /\ held.off = a[(IF phase = "filling" THEN Len(given) ELSE Len(told)) + 1]
  BY <1>5, <1>6
<1> QED BY <1>4, <1>5, <1>7 DEF BufferInv

LEMMA PutBuffer == BufferInv /\ Put => BufferInv'
<1> SUFFICES ASSUME BufferInv, Put PROVE BufferInv' OBVIOUS
<1>1. tool = "buffer" /\ phase = "filling" /\ UNCHANGED <<tool, told, phase>> BY DEF Put
<1>2. held \in Cursors /\ given \in Seq(Fields8) /\ told = <<>> BY <1>1 DEF BufferInv
<1>3. PICK at : Layout(at) /\ held.off = at[Len(given) + 1] BY <1>1 DEF BufferInv
<1>4. PICK f \in Fields8 : /\ held' = PutOf(held, f).cursor
                           /\ given' = IF PutOf(held, f).rc = "OK" THEN Append(given, f) ELSE given
  BY DEF Put
<1> DEFINE put == PutOf(held, f)
           n   == Len(given)
<1>5. CASE put.rc # "OK"
  <2>1. put.cursor = held
    <3>1. CASE TooLong(f) BY <3>1, PutLays DEF Fails
    <3>2. CASE ~TooLong(f)
      <4>1. put = Takes(held, Laid(f)) BY <3>2, PutLays
      <4> HIDE DEF put
      <4> QED BY <1>2, <1>5, <4>1, LaidTypes, TakesFacts
    <3> QED BY <3>1, <3>2
  <2>2. held' = held /\ given' = given BY <1>4, <1>5, <2>1
  <2> QED BY <1>1, <2>2 DEF BufferInv, Layout
<1>6. CASE put.rc = "OK"
  <2>1. ~TooLong(f) /\ put = Takes(held, Laid(f)) BY <1>6, PutLays DEF Fails
  <2>2. Laid(f) \in Seq(Nat) /\ Len(Laid(f)) \in Nat BY LaidTypes
  <2> HIDE DEF put
  <2>3. /\ put.cursor \in Cursors /\ put.cursor.off = held.off + Len(Laid(f))
        /\ LiesAt(put.cursor.data, held.off, Laid(f))
        /\ \A m \in Nat, a \in Seq(Nat) :
             LiesAt(held.data, m, a) /\ m + Len(a) <= held.off => LiesAt(put.cursor.data, m, a)
    BY <1>2, <1>6, <2>1, <2>2, TakesFacts
  <2>4. held' = put.cursor /\ given' = Append(given, f) BY <1>4, <1>6 DEF put
  <2>5. /\ n \in Nat /\ given' \in Seq(Fields8) /\ Len(given') = n + 1 /\ given'[n + 1] = f
        /\ \A i \in 1..n : given'[i] = given[i] /\ given[i] \in Fields8
    BY <1>2, <2>4
  <2>6. held.off \in Nat /\ held.off = at[n + 1] BY <1>2, <1>3 DEF Cursors
  <2>7. /\ at \in [1..(n + 1) -> Nat] /\ at[1] = 0
        /\ \A i \in 1..n : /\ at[i + 1] = at[i] + Len(Laid(given[i])) /\ at[i + 1] <= at[n + 1]
                           /\ LiesAt(held.data, at[i], Laid(given[i])) /\ ~TooLong(given[i])
    BY <1>3 DEF Layout
  <2> HIDE DEF n
  <2>8. PICK next :
           next = [i \in 1..(n + 2) |-> IF i <= n + 1 THEN at[i] ELSE held.off + Len(Laid(f))]
    OBVIOUS
  <2>9. /\ next \in [1..(n + 2) -> Nat] /\ next[1] = 0
        /\ next[n + 2] = held.off + Len(Laid(f))
        /\ \A i \in 1..(n + 1) : next[i] = at[i]
    BY <2>2, <2>5, <2>6, <2>7, <2>8
  <2>10. ASSUME NEW i \in 1..(n + 1)
        PROVE  /\ next[i + 1] = next[i] + Len(Laid(given'[i])) /\ next[i + 1] <= next[n + 2]
               /\ LiesAt(held'.data, next[i], Laid(given'[i])) /\ ~TooLong(given'[i])
    <3>1. CASE i = n + 1
      <4>1. i + 1 = n + 2 /\ next[i] = held.off /\ given'[i] = f BY <2>5, <2>6, <2>9, <3>1
      <4> QED BY <2>1, <2>2, <2>3, <2>4, <2>6, <2>9, <4>1
    <3>2. CASE i \in 1..n
      <4>1. i + 1 \in 1..(n + 1) /\ i \in 1..(n + 1) BY <2>5, <3>2
      <4>2. next[i] = at[i] /\ next[i + 1] = at[i + 1] /\ at[i] \in Nat /\ at[i + 1] \in Nat
        BY <2>7, <2>9, <4>1
      <4>3. /\ given'[i] = given[i] /\ Laid(given[i]) \in Seq(Nat) /\ Len(Laid(given[i])) \in Nat
        BY <2>5, <3>2, LaidTypes
      <4>4. at[i + 1] = at[i] + Len(Laid(given[i])) /\ at[i + 1] <= held.off
        BY <2>6, <2>7, <3>2
      <4>5. LiesAt(held'.data, at[i], Laid(given[i]))
        BY <2>3, <2>4, <2>7, <3>2, <4>2, <4>3, <4>4
      <4>6. at[i + 1] <= held.off + Len(Laid(f)) BY <2>2, <2>6, <4>2, <4>4
      <4> QED BY <2>7, <2>9, <3>2, <4>2, <4>3, <4>4, <4>5, <4>6
    <3> QED BY <2>5, <3>1, <3>2
  <2>11. Layout(next)'
    <3>1. Len(given') = n + 1 /\ (n + 1) + 1 = n + 2 BY <2>5
    <3> QED BY <2>9, <2>10, <3>1 DEF Layout
  <2>12. /\ held'.off = next[Len(given') + 1]
         /\ held' \in Cursors /\ given' \in Seq(Fields8) /\ told' = <<>> /\ phase' = "filling"
    <3>1. Len(given') = n + 1 /\ (n + 1) + 1 = n + 2 BY <2>5
    <3> QED BY <1>1, <1>2, <2>3, <2>4, <2>5, <2>6, <2>9, <3>1
  <2>13. \E a : Layout(a)' /\ held'.off = a[Len(given') + 1] BY <2>11, <2>12
  <2>14. told' \in Seq(Seq(Nat)) /\ Len(told') = 0 /\ Len(told') <= Len(given') BY <2>5, <2>12
  <2> QED BY <2>12, <2>13, <2>14 DEF BufferInv
<1> QED BY <1>5, <1>6

LEMMA RewindBuffer == BufferInv /\ Rewind => BufferInv'
<1> SUFFICES ASSUME BufferInv, Rewind PROVE BufferInv' OBVIOUS
<1>1. /\ tool = "buffer" /\ phase = "filling" /\ phase' = "answered"
      /\ held' = [held EXCEPT !.off = 0] /\ UNCHANGED <<tool, given, told>>
  BY DEF Rewind, cursor_reset
<1>2. held \in Cursors /\ given \in Seq(Fields8) /\ told = <<>> BY <1>1 DEF BufferInv
<1>3. PICK at : Layout(at) BY <1>1 DEF BufferInv
<1>4. held' \in Cursors /\ held'.off = 0 /\ held'.data = held.data
  <2>1. held.data \in Seq(Nat) /\ Len(held.data) \in Nat /\ held' = [data |-> held.data, off |-> 0]
    BY <1>1, <1>2 DEF Cursors
  <2>2. [data |-> held.data, off |-> 0] \in [data : Seq(Nat), off : Nat] BY <2>1
  <2> QED BY <2>1, <2>2 DEF Cursors
<1>5. Layout(at)' BY <1>1, <1>3, <1>4 DEF Layout
<1>6. Len(told') = 0 /\ at[1] = 0 BY <1>1, <1>2, <1>3 DEF Layout
<1>7. \E a : Layout(a)' /\ held'.off = a[Len(told') + 1] BY <1>4, <1>5, <1>6
<1> QED BY <1>1, <1>4, <1>7 DEF BufferInv

LEMMA GetBuffer == BufferInv /\ Get => BufferInv'
<1> SUFFICES ASSUME BufferInv, Get PROVE BufferInv' OBVIOUS
<1>1. /\ tool = "buffer" /\ phase = "answered" /\ Len(told) < Len(given)
      /\ UNCHANGED <<tool, given, phase>>
  BY DEF Get
<1>2. /\ held \in Cursors /\ given \in Seq(Fields8) /\ told \in Seq(Seq(Nat))
      /\ \A i \in 1..Len(told) : told[i] = given[i].bytes
  BY <1>1 DEF BufferInv
<1>3. PICK at : Layout(at) /\ held.off = at[Len(told) + 1] BY <1>1 DEF BufferInv
<1> DEFINE i == Len(told) + 1
           f == given[i]
<1>4. PICK short \in BOOLEAN :
        LET got == GetOf(held, f, Len(f.bytes) - (IF short THEN 1 ELSE 0))
        IN  /\ short => Len(f.bytes) > 0
            /\ held' = got.cursor
            /\ told' = IF short /\ got.rc # "OK" THEN told ELSE Append(told, got.got)
  BY DEF Get
<1>5. i \in 1..Len(given) /\ f \in Fields8 /\ Len(told) \in Nat /\ Len(given) \in Nat BY <1>1, <1>2
<1>6. /\ held.off = at[i] /\ ~TooLong(f) /\ LiesAt(held.data, held.off, Laid(f))
      /\ at[i + 1] = at[i] + Len(Laid(f))
  BY <1>3, <1>5 DEF Layout
<1>7. Len(f.bytes) \in Nat /\ f.bytes \in Seq(Nat) /\ Len(Laid(f)) \in Nat
  BY <1>5, FieldTypes, LaidTypes
<1>8. PICK room \in Int : room = Len(f.bytes) - (IF short THEN 1 ELSE 0)
  <2>1. \A k \in Nat : k - (IF short THEN 1 ELSE 0) \in Int OBVIOUS
  <2>2. Len(f.bytes) - (IF short THEN 1 ELSE 0) \in Int BY <1>7, <2>1
  <2> QED BY <2>2
<1>9. PICK got : got = GetOf(held, f, room) OBVIOUS
<1>10. /\ held' = got.cursor
       /\ told' = IF short /\ got.rc # "OK" THEN told ELSE Append(told, got.got)
  BY <1>4, <1>8, <1>9
<1> HIDE DEF f
<1>11. IF f.kind = "lp8" /\ Len(f.bytes) > 0 /\ room < Len(f.bytes)
       THEN got.rc # "OK" /\ got.cursor = held
       ELSE /\ got.rc = "OK" /\ got.got = f.bytes
            /\ got.cursor = [held EXCEPT !.off = @ + Len(Laid(f))]
  <2>1. LET g == GetOf(held, f, room)
        IN  IF f.kind = "lp8" /\ Len(f.bytes) > 0 /\ room < Len(f.bytes)
            THEN g.rc # "OK" /\ g.cursor = held
            ELSE /\ g.rc = "OK" /\ g.got = f.bytes
                 /\ g.cursor = [held EXCEPT !.off = @ + Len(Laid(f))]
    BY <1>2, <1>5, <1>6, GetReads, SMTT(20)
  <2> QED BY <1>9, <2>1
<1>12. CASE got.rc # "OK"
  <2>1. got.cursor = held /\ room < Len(f.bytes) BY <1>11, <1>12
  <2>2. short
    <3>1. CASE ~short BY <1>8, <1>7, <2>1, <3>1
    <3> QED BY <3>1
  <2>3. held' = held /\ told' = told BY <1>10, <1>12, <2>1, <2>2
  <2> QED BY <1>1, <2>3 DEF BufferInv, Layout
<1>13. CASE got.rc = "OK"
  <2>1. /\ held' = [held EXCEPT !.off = @ + Len(Laid(f))] /\ told' = Append(told, f.bytes)
    BY <1>10, <1>11, <1>13
  <2>2. /\ held' \in Cursors /\ held'.data = held.data /\ held'.off = at[i + 1]
    <3>1. /\ held = [data |-> held.data, off |-> held.off]
          /\ held.data \in Seq(Nat) /\ held.off \in Nat /\ Len(held.data) \in Nat
      BY <1>2 DEF Cursors
    <3>2. held' = [data |-> held.data, off |-> held.off + Len(Laid(f))] BY <2>1, <3>1
    <3>3. held.off + Len(Laid(f)) <= Len(held.data) BY <1>6 DEF LiesAt
    <3>4. held' \in Cursors BY <1>7, <3>1, <3>2, <3>3 DEF Cursors
    <3> QED BY <1>6, <3>2, <3>4
  <2>3. /\ told' \in Seq(Seq(Nat)) /\ Len(told') = i /\ told'[i] = f.bytes
        /\ \A j \in 1..Len(told) : told'[j] = told[j]
    BY <1>2, <1>7, <2>1
  <2>4. Layout(at)' BY <1>1, <1>3, <2>2 DEF Layout
  <2>5. ASSUME NEW j \in 1..Len(told') PROVE told'[j] = given'[j].bytes
    <3>1. j = i \/ j \in 1..Len(told) BY <1>5, <2>3
    <3> QED BY <1>1, <1>2, <2>3, <3>1 DEF f
  <2>6. Len(told') <= Len(given') BY <1>1, <1>5, <2>3
  <2>7. \E a : Layout(a)' /\ held'.off = a[Len(told') + 1] BY <2>2, <2>3, <2>4
  <2> QED BY <1>1, <1>2, <2>2, <2>3, <2>5, <2>6, <2>7 DEF BufferInv
<1> QED BY <1>12, <1>13

LEMMA NextBuffer == BufferInv /\ [SessionNext]_sessionVars => BufferInv'
<1> SUFFICES ASSUME BufferInv, [SessionNext]_sessionVars PROVE BufferInv' OBVIOUS
<1>1. CASE Put BY <1>1, PutBuffer
<1>2. CASE Rewind BY <1>2, RewindBuffer
<1>3. CASE Get BY <1>3, GetBuffer
<1>4. CASE Write \/ Read \/ Prepare \/ Push \/ Pop \/ Clear \/ Compare \/ Observe
  BY <1>4, OneTool DEF BufferInv
<1>5. CASE UNCHANGED sessionVars BY <1>5 DEF sessionVars, BufferInv, Layout
<1> QED BY <1>1, <1>2, <1>3, <1>4, <1>5 DEF SessionNext

(* What was put into a buffer of any size comes out of it in order,        *)
(* whichever puts did not fit and whichever gets had no room (bytes.c:     *)
(* the xury_bytes_get and xury_bytes_put calls).                            *)
THEOREM BufferReturnsWhatWentIn == Session => []BufferIsReadBack
<1>1. BufferInv => BufferIsReadBack BY DEF BufferInv, BufferIsReadBack
<1> QED BY <1>1, InitBuffer, NextBuffer, PTL DEF Session
-----------------------------------------------------------------------------
(* A program's sessions: what was written is read back.                    *)

\* A text that is shorter than its buffer is kept whole.
LEMMA WrittenWhole ==
  ASSUME NEW s \in Seq(Nat), NEW n \in Nat, Len(s) < n
  PROVE  Written(s, n).kept = s /\ Written(s, n).need = Len(s)
<1>1. Len(s) \in Nat /\ Most(n - 1, 0) = n - 1 /\ Len(s) <= n - 1 BY DEF Most
<1>2. Least(Len(s), Most(n - 1, 0)) = Len(s) BY <1>1 DEF Least
<1>3. SubSeq(s, 1, Len(s)) = s BY SubSeqFull
<1> QED BY <1>2, <1>3 DEF Written

LEMMA OutcomeWhole ==
  ASSUME NEW s \in Seq(Nat), NEW n \in Nat, Outcome(Written(s, n), n).whole
  PROVE  Outcome(Written(s, n), n).text = s
<1>1. Len(s) < n BY DEF Outcome, Written
<1> QED BY <1>1, WrittenWhole DEF Outcome

LEMMA U32IsReadBack ==
  ASSUME NEW v \in 0..UINT_MAX, NEW n \in Nat, Outcome(fmt_u32(v, n), n).whole
  PROVE  parse_u32(Outcome(fmt_u32(v, n), n).text) = v
<1>1. v \in Nat /\ UINT_MAX \in Nat BY TextAssumption
<1>2. Digits(v, 10) \in Seq(Nat)
  <2> DEFINE b == 10
  <2>1. b \in Bases BY DEF Bases
  <2> HIDE DEF b
  <2>2. Digits(v, b) \in Seq(Nat) BY <1>1, <2>1, DigitsText
  <2> QED BY <2>2 DEF b
<1>3. Outcome(fmt_u32(v, n), n).text = Digits(v, 10) BY <1>2, OutcomeWhole DEF fmt_u32
<1>4. Unsigned(Digits(v, 10), UINT_MAX) = v BY <1>1, UnsignedOfDigits
<1> QED BY <1>3, <1>4 DEF parse_u32

LEMMA I32IsReadBack ==
  ASSUME NEW v \in (-INT_MAX - 1)..INT_MAX, NEW n \in Nat, Outcome(fmt_i32(v, n), n).whole
  PROVE  parse_i32(Outcome(fmt_i32(v, n), n).text).value = v
<1>1. /\ UINT_MAX \in Nat /\ INT_MAX \in Nat /\ INT_MAX + 1 <= UINT_MAX
      /\ v \in Int /\ -INT_MAX - 1 <= v /\ v <= INT_MAX
  BY TextAssumption DEF INT_MAX
<1> HIDE DEF INT_MAX
<1> DEFINE m == IF v >= 0 THEN v ELSE -v
           D == Digits(m, 10)
           s == Outcome(fmt_i32(v, n), n).text
<1>2. m \in 0..UINT_MAX /\ m \in Nat BY <1>1
<1>3. /\ D \in Seq(Nat) /\ D # <<>> /\ Len(D) \in 1..10
      /\ \A i \in 1..Len(D) : IsDigit(D[i])
  <2> DEFINE b == 10
  <2>1. b \in Bases BY DEF Bases
  <2> HIDE DEF b, m
  <2>2. /\ Digits(m, b) \in Seq(Nat) /\ Digits(m, b) # <<>> /\ Len(Digits(m, b)) >= 1
        /\ \A i \in 1..Len(Digits(m, b)) : b = 10 => IsDigit(Digits(m, b)[i])
    BY <1>2, <2>1, DigitsText
  <2>3. Len(Digits(m, 10)) <= 10 BY <1>2, WordDigits
  <2>4. b = 10 BY DEF b
  <2> HIDE DEF D
  <2>5. D = Digits(m, b) /\ D = Digits(m, 10) BY <2>4 DEF D
  <2>6. D \in Seq(Nat) /\ D # <<>> /\ Len(D) >= 1 BY <2>2, <2>5
  <2>7. Len(D) <= 10 BY <2>3, <2>5
  <2>8. \A i \in 1..Len(D) : IsDigit(D[i]) BY <2>2, <2>4, <2>5
  <2>9. Len(D) \in 1..10
    <3>1. \A k \in Nat : k >= 1 /\ k <= 10 => k \in 1..10 OBVIOUS
    <3>2. Len(D) \in Nat BY <2>6
    <3> QED BY <2>6, <2>7, <3>1, <3>2, Zenon
  <2> QED BY <2>6, <2>8, <2>9
<1>4. parse_u32(D) = m
  <2> HIDE DEF m
  <2> QED BY <1>1, <1>2, UnsignedOfDigits DEF parse_u32
<1>5. D[1] # MINUS /\ D[1] # PLUS
  <2> HIDE DEF D
  <2>1. IsDigit(D[1]) BY <1>3
  <2> QED BY <2>1 DEF IsDigit, MINUS, PLUS
<1>6. CASE v >= 0
  <2>1. m = v BY <1>6
  <2>2. fmt_i32(v, n) = Written(D, n) BY <1>6, <2>1 DEF fmt_i32, fmt_u32
  <2>3. s = D
    <3> HIDE DEF D
    <3> QED BY <1>3, <2>2, OutcomeWhole
  <2> HIDE DEF D, s, m
  <2>4. parse_u32(s) = v BY <1>4, <2>1, <2>3
  <2>5. v # Refused /\ v <= INT_MAX BY <1>1, <1>6 DEF Refused
  <2>6. s # <<>> /\ s[1] # MINUS /\ s[1] # PLUS BY <1>3, <1>5, <2>3
  <2>7. parse_i32(s).value = v BY <2>4, <2>5, <2>6 DEF parse_i32
  <2> QED BY <2>7 DEF s
<1>7. CASE ~(v >= 0)
  <2> DEFINE t == <<MINUS>> \o D
  <2>1. m = -v BY <1>7
  <2>2. fmt_u32(-v, 11).kept = D
    <3>1. fmt_u32(-v, 11) = Written(D, 11) BY <2>1 DEF fmt_u32
    <3> HIDE DEF D
    <3>2. Len(D) < 11
      <4>1. \A k \in 1..10 : k < 11 OBVIOUS
      <4> QED BY <1>3, <4>1, Zenon
    <3> QED BY <1>3, <3>1, <3>2, WrittenWhole
  <2>3. fmt_i32(v, n) = Written(t, n)
    <3> HIDE DEF D
    <3> QED BY <1>7, <2>2 DEF fmt_i32
  <2>4. t \in Seq(Nat) /\ t # <<>> /\ t[1] = MINUS /\ Tail(t) = D
    <3> HIDE DEF D
    <3>1. <<MINUS>> \in Seq(Nat) /\ D \in Seq(Nat) BY <1>3 DEF MINUS
    <3>2. t \in Seq(Nat) /\ t[1] = MINUS /\ Len(t) = Len(D) + 1 /\ \A i \in 1..Len(D) : t[i + 1] = D[i]
      BY <3>1
    <3> HIDE DEF t
    <3>3. t # <<>>
      <4> SUFFICES ASSUME t = <<>> PROVE FALSE OBVIOUS
      <4>1. Len(t) = 0 OBVIOUS
      <4> QED BY <1>3, <3>2, <4>1
    <3>4. Tail(t) \in Seq(Nat) /\ Len(Tail(t)) = Len(D) /\ \A i \in 1..Len(D) : Tail(t)[i] = D[i]
      BY <3>2, <3>3
    <3>5. Tail(t) = D BY <3>1, <3>4, SeqEqual
    <3> QED BY <3>2, <3>3, <3>5
  <2>5. s = t
    <3> HIDE DEF t
    <3> QED BY <2>3, <2>4, OutcomeWhole
  <2> HIDE DEF s, t, D, m
  <2>6. parse_u32(Tail(s)) = m BY <1>4, <2>4, <2>5
  <2>7. m # Refused /\ m <= INT_MAX + 1 /\ -m = v BY <1>1, <1>2, <2>1 DEF Refused
  <2>8. s # <<>> /\ s[1] = MINUS BY <2>4, <2>5
  <2>9. parse_i32(s).value = -m BY <2>6, <2>7, <2>8 DEF parse_i32
  <2> QED BY <2>7, <2>9 DEF s
<1> QED BY <1>6, <1>7

LEMMA PeerIsReadBack ==
  ASSUME NEW id \in [1..PEER_ID_SIZE -> 0..255], NEW n \in Nat, peer_id_to_string(id, n).rc = "OK"
  PROVE  peer_id_from_string(peer_id_to_string(id, n).text) = id
<1> DEFINE N == PEER_ID_SIZE
           d(i) == IF i % 2 = 1 THEN id[(i + 1) \div 2] \div 16 ELSE id[i \div 2] % 16
           s == [i \in 1..(2 * N) |-> Digit(d(i))]
<1>1. N \in Nat /\ id \in Seq(0..255) /\ Len(id) = N BY AddressAssumption
<1>2. ~(n < N * 2 + 1) /\ peer_id_to_string(id, n).text = fmt_hex_bytes(id, n).kept
  <2>1. ~(n < PEER_ID_SIZE * 2 + 1) BY DEF peer_id_to_string
  <2> QED BY <2>1 DEF peer_id_to_string
<1>3. ASSUME NEW i \in 1..(2 * N)
      PROVE  d(i) \in 0..15
  <2> HIDE DEF N
  <2>1. CASE i % 2 = 1
    <3> DEFINE k == (i + 1) \div 2
    <3>1. k \in 1..N BY <1>1, <2>1
    <3> HIDE DEF k
    <3>2. id[k] \in 0..255 BY <3>1 DEF N
    <3>3. id[k] \div 16 \in 0..15
      <4> DEFINE x == id[k]
      <4>1. x \in 0..255 BY <3>2
      <4> HIDE DEF x
      <4>2. x \div 16 \in 0..15 BY <4>1
      <4> QED BY <4>2 DEF x
    <3>4. d(i) = id[k] \div 16 BY <2>1 DEF k
    <3> HIDE DEF d
    <3> QED BY <3>3, <3>4
  <2>2. CASE i % 2 # 1
    <3> DEFINE k == i \div 2
    <3>1. k \in 1..N BY <1>1, <2>2
    <3> HIDE DEF k
    <3>2. id[k] \in 0..255 BY <3>1 DEF N
    <3>3. id[k] % 16 \in 0..15
      <4> DEFINE x == id[k]
      <4>1. x \in 0..255 BY <3>2
      <4> HIDE DEF x
      <4>2. x % 16 \in 0..15 BY <4>1
      <4> QED BY <4>2 DEF x
    <3>4. d(i) = id[k] % 16 BY <2>2 DEF k
    <3> HIDE DEF d
    <3> QED BY <3>3, <3>4
  <2> QED BY <2>1, <2>2
<1>4. /\ s \in Seq(Nat) /\ Len(s) = 2 * N
      /\ \A i \in 1..(2 * N) : /\ s[i] \in 48..57 \cup 97..102 /\ hex_value(s[i]) = d(i)
                               /\ hex_value(s[i]) \in 0..15
  <2> HIDE DEF N, d
  <2>1. \A i \in 1..(2 * N) : /\ Digit(d(i)) \in Nat /\ Digit(d(i)) \in 48..57 \cup 97..102
                              /\ hex_value(Digit(d(i))) = d(i) /\ d(i) \in 0..15
    BY <1>3, DigitFacts
  <2>2. s \in Seq(Nat) /\ Len(s) = 2 * N /\ \A i \in 1..(2 * N) : s[i] = Digit(d(i)) BY <1>1, <2>1
  <2> HIDE DEF s
  <2> QED BY <2>1, <2>2
<1>5. fmt_hex_bytes(id, n) = Written(s, n)
  <2>1. [i \in 1..(2 * Len(id)) |->
             Digit(IF i % 2 = 1 THEN id[(i + 1) \div 2] \div 16 ELSE id[i \div 2] % 16)] = s
    BY <1>1
  <2> QED BY <2>1 DEF fmt_hex_bytes
<1>6. peer_id_to_string(id, n).text = s
  <2> HIDE DEF s, N
  <2>1. Len(s) < n BY <1>1, <1>2, <1>4
  <2> QED BY <1>2, <1>4, <1>5, <2>1, WrittenWhole
<1> HIDE DEF s
<1> DEFINE prefixed == Len(s) >= 2 /\ s[1] = 48 /\ Lower(s[2]) = 120
           bare == IF prefixed THEN SubSeq(s, 3, Len(s)) ELSE s
<1>7. bare = s
  <2>1. ~prefixed
    <3> SUFFICES ASSUME Len(s) >= 2 PROVE Lower(s[2]) # 120 OBVIOUS
    <3>1. 2 \in 1..(2 * N)
      <4> HIDE DEF N
      <4> QED BY <1>1, <1>4
    <3> HIDE DEF N
    <3>2. s[2] \in 48..57 \cup 97..102 BY <1>4, <3>1
    <3>3. ASSUME NEW c \in 48..57 \cup 97..102 PROVE Lower(c) # 120 BY DEF Lower, IsUpper
    <3> QED BY <3>2, <3>3
  <2> QED BY <2>1
<1>8. peer_id_from_string(s) = [i \in 1..N |-> hex_value(s[2 * i - 1]) * 16 + hex_value(s[2 * i])]
  <2>1. peer_id_from_string(s) =
          IF Len(bare) # N * 2 \/ \E i \in 1..Len(bare) : hex_value(bare[i]) < 0 THEN <<>>
          ELSE [i \in 1..N |-> hex_value(bare[2 * i - 1]) * 16 + hex_value(bare[2 * i])]
    BY DEF peer_id_from_string
  <2> HIDE DEF bare, N
  <2>2. Len(s) = N * 2 BY <1>1, <1>4
  <2>3. ~ \E i \in 1..Len(s) : hex_value(s[i]) < 0
    <3> SUFFICES ASSUME NEW i \in 1..Len(s) PROVE ~(hex_value(s[i]) < 0) OBVIOUS
    <3>1. hex_value(s[i]) \in 0..15 BY <1>4
    <3> QED BY <3>1
  <2> QED BY <1>7, <2>1, <2>2, <2>3
<1>9. ASSUME NEW i \in 1..N PROVE hex_value(s[2 * i - 1]) * 16 + hex_value(s[2 * i]) = id[i]
  <2> DEFINE x == id[i]
  <2> HIDE DEF N, x
  <2>0. x \in 0..255 BY DEF N, x
  <2>1. hex_value(s[2 * i - 1]) = x \div 16
    <3> DEFINE j == 2 * i - 1
    <3>1. j \in 1..(2 * N) /\ j % 2 = 1 /\ (j + 1) \div 2 = i BY <1>1
    <3> HIDE DEF j
    <3>2. d(j) = id[i] \div 16 BY <3>1
    <3> HIDE DEF d
    <3>3. hex_value(s[j]) = d(j) BY <1>4, <3>1
    <3> QED BY <3>2, <3>3 DEF x, j
  <2>2. hex_value(s[2 * i]) = x % 16
    <3> DEFINE j == 2 * i
    <3>1. j \in 1..(2 * N) /\ j % 2 # 1 /\ j \div 2 = i BY <1>1
    <3> HIDE DEF j
    <3>2. d(j) = id[i] % 16 BY <3>1
    <3> HIDE DEF d
    <3>3. hex_value(s[j]) = d(j) BY <1>4, <3>1
    <3> QED BY <3>2, <3>3 DEF x, j
  <2>3. (x \div 16) * 16 + (x % 16) = x BY <2>0
  <2> QED BY <2>1, <2>2, <2>3 DEF x
<1>10. peer_id_from_string(s) = id
  <2> HIDE DEF N, d
  <2>1. \A i \in 1..N : id[i] = hex_value(s[2 * i - 1]) * 16 + hex_value(s[2 * i]) BY <1>9
  <2>2. id = [i \in 1..N |-> id[i]] BY DEF N
  <2> QED BY <1>8, <2>1, <2>2
<1> QED BY <1>6, <1>10
-----------------------------------------------------------------------------
(* Endpoints.                                                              *)

LEMMA MinIs ==
  ASSUME NEW T, T \subseteq Int, NEW m \in T, \A k \in T : m <= k
  PROVE  Min(T) = m
<1>1. Min(T) \in T /\ \A k \in T : Min(T) <= k
  <2>1. \E x \in T : \A k \in T : x <= k OBVIOUS
  <2> QED BY <2>1 DEF Min
<1>2. Min(T) <= m /\ m <= Min(T) /\ Min(T) \in Int /\ m \in Int BY <1>1
<1> QED BY <1>2

LEMMA JoinedTwo ==
  ASSUME NEW a \in Seq(Nat), NEW b \in Seq(Nat)
  PROVE  /\ a \o b \in Seq(Nat) /\ Len(a \o b) = Len(a) + Len(b)
         /\ \A i \in 1..Len(a) : (a \o b)[i] = a[i]
         /\ \A i \in 1..Len(b) : (a \o b)[Len(a) + i] = b[i]
<1>1. a \o b \in Seq(Nat) /\ Len(a \o b) = Len(a) + Len(b) OBVIOUS
<1>2. \A i \in 1..Len(a) : (a \o b)[i] = a[i] OBVIOUS
<1>3. \A i \in 1..Len(b) : (a \o b)[Len(a) + i] = b[i] OBVIOUS
<1> QED BY <1>1, <1>2, <1>3

Chain(a, b, c) == a \o b \o c

IsChain(t, a, b, c) ==
  /\ t \in Seq(Nat) /\ Len(t) = Len(a) + Len(b) + Len(c)
  /\ \A i \in 1..Len(a) : t[i] = a[i]
  /\ \A i \in 1..Len(b) : t[Len(a) + i] = b[i]
  /\ \A i \in 1..Len(c) : t[Len(a) + Len(b) + i] = c[i]

LEMMA ChainIs ==
  ASSUME NEW a \in Seq(Nat), NEW b \in Seq(Nat), NEW c \in Seq(Nat)
  PROVE  IsChain(Chain(a, b, c), a, b, c)
<1> DEFINE p == a \o b
<1>1. p \in Seq(Nat) /\ Len(p) = Len(a) + Len(b)
      /\ (\A i \in 1..Len(a) : p[i] = a[i]) /\ \A i \in 1..Len(b) : p[Len(a) + i] = b[i]
  BY JoinedTwo
<1> HIDE DEF p
<1> DEFINE t == p \o c
<1>2. \A i \in 1..Len(a) : i \in 1..Len(p) BY <1>1
<1>3. \A i \in 1..Len(b) : Len(a) + i \in 1..Len(p) BY <1>1
<1>4. t \in Seq(Nat) /\ Len(t) = Len(p) + Len(c)
      /\ (\A i \in 1..Len(p) : t[i] = p[i]) /\ \A i \in 1..Len(c) : t[Len(p) + i] = c[i]
  BY <1>1, JoinedTwo
<1>5. Chain(a, b, c) = t BY DEF Chain, p
<1> HIDE DEF t
<1>6. \A i \in 1..Len(a) : t[i] = a[i] BY <1>1, <1>2, <1>4
<1>7. \A i \in 1..Len(b) : t[Len(a) + i] = b[i] BY <1>1, <1>3, <1>4
<1> QED BY <1>1, <1>4, <1>5, <1>6, <1>7 DEF IsChain

LEMMA NotEmpty == ASSUME NEW s \in Seq(Nat), NEW i \in 1..Len(s) PROVE s # <<>>
OBVIOUS

EndpointTexts == [family : {INET, INET6}, ip : Seq(Nat), port : 0..UINT16_MAX]

\* The port's digits, and what they are read as.
LEMMA PortDigits ==
  ASSUME NEW port \in 0..UINT16_MAX
  PROVE  /\ Digits(port, 10) \in Seq(Nat) /\ Len(Digits(port, 10)) >= 1
         /\ \A i \in 1..Len(Digits(port, 10)) : Digits(port, 10)[i] \in 48..57
         /\ Unsigned(Digits(port, 10), UINT16_MAX) = port /\ port # Refused
<1>1. UINT16_MAX \in Nat BY SMTT(20) DEF UINT16_MAX
<1>2. port \in Nat /\ port # Refused BY <1>1 DEF Refused
<1>3. Unsigned(Digits(port, 10), UINT16_MAX) = port BY <1>1, UnsignedOfDigits
<1> DEFINE b == 10
<1>4. b \in Bases /\ b = 10 BY DEF Bases
<1> HIDE DEF b
<1>5. /\ Digits(port, b) \in Seq(Nat) /\ Len(Digits(port, b)) >= 1
      /\ \A i \in 1..Len(Digits(port, b)) : b = 10 => IsDigit(Digits(port, b)[i])
  BY <1>2, <1>4, DigitsText
<1>6. \A i \in 1..Len(Digits(port, 10)) : IsDigit(Digits(port, 10)[i]) BY <1>4, <1>5
<1> QED BY <1>2, <1>3, <1>4, <1>5, <1>6 DEF IsDigit

LEMMA V4IsReadBack ==
  ASSUME NEW ep \in EndpointTexts, Len(ep.ip) < ENDPOINT_IP_MAX, Proper(ep), ep.family = INET,
         NEW t, t = Chain(ep.ip, <<COLON>>, Digits(ep.port, 10))
  PROVE  endpoint_from_string(t).ep = ep
<1> DEFINE ip == ep.ip  D == Digits(ep.port, 10)  m == Len(ip) + 1
           ends == {i \in 1..Len(t) : t[i] = COLON}
<1>1. /\ ep \in [family : {INET, INET6}, ip : Seq(Nat), port : 0..UINT16_MAX]
      /\ ip \in Seq(Nat) /\ ep.port \in 0..UINT16_MAX
  BY DEF EndpointTexts
<1>2. /\ D \in Seq(Nat) /\ Len(D) >= 1 /\ \A i \in 1..Len(D) : D[i] \in 48..57
  BY <1>1, PortDigits
<1>3. /\ FamilyOf(parse_ip(ip)) = INET /\ ip # <<>>
      /\ \A i \in 1..Len(ip) : ip[i] = DOT \/ ip[i] \in 48..57
  BY <1>1, AddressText DEF Proper
<1>4. Unsigned(D, UINT16_MAX) = ep.port /\ ep.port # Refused BY <1>1, PortDigits
<1> HIDE DEF ip, D
<1>5. /\ t \in Seq(Nat) /\ Len(t) = Len(ip) + 1 + Len(D) /\ t[m] = COLON
      /\ (\A i \in 1..Len(ip) : t[i] = ip[i]) /\ \A i \in 1..Len(D) : t[m + i] = D[i]
  <2> DEFINE b == <<COLON>>
  <2>1. b \in Seq(Nat) /\ Len(b) = 1 /\ b[1] = COLON BY DEF COLON
  <2> HIDE DEF b
  <2>2. t = Chain(ip, b, D) BY DEF ip, b, D
  <2> DEFINE c == Chain(ip, b, D)
  <2>3. /\ c \in Seq(Nat) /\ Len(c) = Len(ip) + Len(b) + Len(D)
        /\ \A i \in 1..Len(ip) : c[i] = ip[i]
        /\ \A i \in 1..Len(b) : c[Len(ip) + i] = b[i]
        /\ \A i \in 1..Len(D) : c[Len(ip) + Len(b) + i] = D[i]
    <3>1. IsChain(c, ip, b, D) BY <1>1, <1>2, <2>1, ChainIs
    <3> QED BY <3>1 DEF IsChain
  <2> HIDE DEF c
  <2>4. 1 \in 1..Len(b) BY <2>1
  <2>5. c[m] = COLON BY <2>1, <2>3, <2>4
  <2>6. Len(c) = Len(ip) + 1 + Len(D) /\ \A i \in 1..Len(D) : c[m + i] = D[i] BY <2>1, <2>3
  <2>7. t = c BY <2>2 DEF c
  <2> HIDE DEF m
  <2> QED BY <2>3, <2>5, <2>6, <2>7
<1>6. Len(ip) \in Nat \ {0} /\ Len(D) \in Nat \ {0} BY <1>1, <1>2, <1>3
<1>7. m \in 1..Len(t) /\ 1 \in 1..Len(t) /\ m \in Nat /\ m + Len(D) = Len(t)
  <2>1. Len(t) = m + Len(D) BY <1>5, <1>6
  <2> QED BY <1>6, <2>1
<1>8. t # <<>> /\ t[1] # OPEN
  <2>1. 1 \in 1..Len(ip) BY <1>6
  <2>2. t[1] = DOT \/ t[1] \in 48..57 BY <1>3, <1>5, <2>1
  <2>3. \A c : c = DOT \/ c \in 48..57 => c # OPEN BY DEF DOT, OPEN
  <2> QED BY <1>5, <1>7, <2>2, <2>3, NotEmpty
<1>9. Min(ends) = m /\ ends # {}
  <2>1. m \in ends BY <1>5, <1>7
  <2>2. ASSUME NEW k \in ends PROVE m <= k
    <3> SUFFICES ASSUME ~(m <= k) PROVE FALSE OBVIOUS
    <3>1. k \in 1..Len(ip)
      <4>1. k \in 1..Len(t) OBVIOUS
      <4> QED BY <1>5, <1>6, <4>1
    <3>2. ip[k] = COLON BY <1>5, <3>1
    <3>3. ip[k] = DOT \/ ip[k] \in 48..57 BY <1>3, <3>1
    <3> QED BY <3>2, <3>3 DEF COLON, DOT
  <2>3. ends \subseteq Int OBVIOUS
  <2> HIDE DEF ends, m
  <2> QED BY <2>1, <2>2, <2>3, MinIs
<1>10. SubSeq(t, 1, m - 1) = ip /\ SubSeq(t, m + 1, Len(t)) = D
  <2>1. LiesAt(t, 0, ip)
    <3>1. 0 + Len(ip) <= Len(t) BY <1>5, <1>6
    <3>2. ASSUME NEW i \in 1..Len(ip) PROVE t[0 + i] = ip[i]
      <4>1. 0 + i = i OBVIOUS
      <4> QED BY <1>5, <4>1
    <3> QED BY <3>1, <3>2 DEF LiesAt
  <2>2. LiesAt(t, m, D)
    <3>1. m + Len(D) <= Len(t) BY <1>5, <1>6, <1>7
    <3> HIDE DEF m
    <3> QED BY <1>5, <3>1 DEF LiesAt
  <2>3. 0 + 1 = 1 /\ 0 + Len(ip) = m - 1 BY <1>6
  <2>4. SubSeq(t, 0 + 1, 0 + Len(ip)) = ip
    <3> DEFINE z == 0
    <3>1. z \in Nat /\ LiesAt(t, z, ip) BY <2>1
    <3> HIDE DEF z
    <3>2. SubSeq(t, z + 1, z + Len(ip)) = ip BY <1>1, <1>5, <3>1, SliceIs
    <3> QED BY <3>2 DEF z
  <2> HIDE DEF m
  <2>5. SubSeq(t, m + 1, m + Len(D)) = D BY <1>2, <1>5, <1>7, <2>2, SliceIs
  <2> QED BY <1>7, <2>3, <2>4, <2>5
<1>11. parse_ip(ip) # <<>>
  <2> SUFFICES ASSUME parse_ip(ip) = <<>> PROVE FALSE OBVIOUS
  <2>1. FamilyOf(<<>>) = UNSPEC BY DEF FamilyOf
  <2> QED BY <1>3, <2>1 DEF INET, UNSPEC
<1>12. ~(Len(ip) >= ENDPOINT_IP_MAX) BY <1>1, <1>6, AddressAssumption DEF ip
<1> DEFINE result == [rc |-> "OK", ep |-> [family |-> INET, ip |-> ip, port |-> ep.port]]
<1>13. endpoint_from_string(t) = result
  <2> DEFINE v6     == t # <<>> /\ t[1] = OPEN
             stops  == {i \in 1..Len(t) : t[i] = IF v6 THEN CLOSE ELSE COLON}
             end    == Min(stops)
             host   == SubSeq(t, IF v6 THEN 2 ELSE 1, end - 1)
             digits == SubSeq(t, IF v6 THEN end + 2 ELSE end + 1, Len(t))
             port   == Unsigned(digits, UINT16_MAX)
             family == IF v6 THEN INET6 ELSE INET
             Failed(error) == [rc |-> error, ep |-> endpoint_clear]
             Parsed == CASE stops = {} \/ (v6 /\ (end = Len(t) \/ t[end + 1] # COLON)) -> Failed("BAD_ENDPOINT")
                       [] host = <<>> \/ Len(host) >= ENDPOINT_IP_MAX -> Failed("BAD_ENDPOINT")
                       [] port = Refused -> Failed("BAD_PORT")
                       [] parse_ip(host) = <<>> -> Failed("BAD_ENDPOINT")
                       [] FamilyOf(parse_ip(host)) # family -> Failed("BAD_FAMILY")
                       [] OTHER -> [rc |-> "OK", ep |-> [family |-> family, ip |-> host, port |-> port]]
  <2>1. endpoint_from_string(t) = Parsed BY DEF endpoint_from_string
  <2>2. ~v6 BY <1>8
  <2>3. stops = ends /\ family = INET BY <2>2
  <2>4. end = m BY <1>9, <2>3
  <2>5. host = ip /\ digits = D
    <3> HIDE DEF v6, end, m
    <3> QED BY <1>10, <2>2, <2>4
  <2>6. port = ep.port BY <1>4, <2>5
  <2> HIDE DEF v6, stops, end, host, digits, port, family, Failed, ends
  <2>7. Parsed = result
    BY <1>3, <1>4, <1>9, <1>11, <1>12, <2>2, <2>3, <2>5, <2>6
  <2> QED BY <2>1, <2>7
<1>14. ep = [family |-> INET, ip |-> ip, port |-> ep.port] BY <1>1 DEF ip
<1> QED BY <1>13, <1>14

LEMMA V6IsReadBack ==
  ASSUME NEW ep \in EndpointTexts, Len(ep.ip) < ENDPOINT_IP_MAX, Proper(ep), ep.family = INET6,
         NEW t, t = Chain(Chain(<<OPEN>>, ep.ip, <<CLOSE>>), <<COLON>>, Digits(ep.port, 10))
  PROVE  endpoint_from_string(t).ep = ep
<1> DEFINE ip == ep.ip  D == Digits(ep.port, 10)  m == Len(ip) + 2
           ends == {i \in 1..Len(t) : t[i] = CLOSE}
<1>1. /\ ep \in [family : {INET, INET6}, ip : Seq(Nat), port : 0..UINT16_MAX]
      /\ ip \in Seq(Nat) /\ ep.port \in 0..UINT16_MAX
  BY DEF EndpointTexts
<1>2. /\ D \in Seq(Nat) /\ Len(D) >= 1 /\ \A i \in 1..Len(D) : D[i] \in 48..57
  BY <1>1, PortDigits
<1>3. /\ FamilyOf(parse_ip(ip)) = INET6 /\ ip # <<>>
      /\ \A i \in 1..Len(ip) : ip[i] = COLON \/ ip[i] \in 48..57 \cup 65..70 \cup 97..102
  BY <1>1, AddressText DEF Proper
<1>4. Unsigned(D, UINT16_MAX) = ep.port /\ ep.port # Refused BY <1>1, PortDigits
<1> HIDE DEF ip, D
<1>5. Len(ip) \in Nat \ {0} /\ Len(D) \in Nat \ {0} BY <1>1, <1>2, <1>3
<1>6. /\ t \in Seq(Nat) /\ Len(t) = m + 1 + Len(D)
      /\ t[1] = OPEN /\ t[m] = CLOSE /\ t[m + 1] = COLON
      /\ (\A i \in 1..Len(ip) : t[1 + i] = ip[i]) /\ \A i \in 1..Len(D) : t[m + 1 + i] = D[i]
  <2> DEFINE a == <<OPEN>>  b == <<CLOSE>>  c == <<COLON>>
  <2>1. /\ a \in Seq(Nat) /\ Len(a) = 1 /\ a[1] = OPEN
        /\ b \in Seq(Nat) /\ Len(b) = 1 /\ b[1] = CLOSE
        /\ c \in Seq(Nat) /\ Len(c) = 1 /\ c[1] = COLON
    BY DEF OPEN, CLOSE, COLON
  <2> HIDE DEF a, b, c
  <2>0. a \in Seq(Nat) /\ b \in Seq(Nat) /\ c \in Seq(Nat) /\ ip \in Seq(Nat) /\ D \in Seq(Nat)
    BY <1>1, <1>2, <2>1
  <2> DEFINE h == Chain(a, ip, b)
  <2>2. /\ h \in Seq(Nat) /\ Len(h) = Len(a) + Len(ip) + Len(b)
        /\ \A i \in 1..Len(a) : h[i] = a[i]
        /\ \A i \in 1..Len(ip) : h[Len(a) + i] = ip[i]
        /\ \A i \in 1..Len(b) : h[Len(a) + Len(ip) + i] = b[i]
    <3>1. IsChain(h, a, ip, b) BY <2>0, ChainIs
    <3> QED BY <3>1 DEF IsChain
  <2> HIDE DEF h
  <2>11. h \in Seq(Nat) BY <2>2
  <2> DEFINE u == Chain(h, c, D)
  <2>3. /\ u \in Seq(Nat) /\ Len(u) = Len(h) + Len(c) + Len(D)
        /\ \A i \in 1..Len(h) : u[i] = h[i]
        /\ \A i \in 1..Len(c) : u[Len(h) + i] = c[i]
        /\ \A i \in 1..Len(D) : u[Len(h) + Len(c) + i] = D[i]
    <3>1. IsChain(u, h, c, D) BY <2>0, <2>11, ChainIs
    <3> QED BY <3>1 DEF IsChain
  <2>4. t = u BY DEF u, h, a, b, c, ip, D
  <2> HIDE DEF u
  <2>5. Len(h) = m /\ 1 \in 1..Len(a) /\ 1 \in 1..Len(b) /\ 1 \in 1..Len(c) /\ 1 \in 1..Len(h)
        /\ m \in 1..Len(h) /\ m = Len(a) + Len(ip) + 1
    BY <1>5, <2>1, <2>2
  <2>6. u[1] = OPEN BY <2>1, <2>2, <2>3, <2>5
  <2>7. u[m] = CLOSE
    <3>1. h[m] = CLOSE BY <2>1, <2>2, <2>5
    <3> HIDE DEF m
    <3> QED BY <2>3, <2>5, <3>1
  <2>8. u[m + 1] = COLON BY <2>1, <2>3, <2>5
  <2>9. ASSUME NEW i \in 1..Len(ip) PROVE u[1 + i] = ip[i]
    <3>1. 1 + i \in 1..Len(h) BY <1>5, <2>5
    <3>2. h[1 + i] = ip[i] BY <2>1, <2>2
    <3> HIDE DEF m
    <3> QED BY <2>3, <3>1, <3>2
  <2>10. Len(u) = m + 1 + Len(D) /\ \A i \in 1..Len(D) : u[m + 1 + i] = D[i]
    BY <2>1, <2>3, <2>5
  <2> HIDE DEF m
  <2> QED BY <2>3, <2>4, <2>6, <2>7, <2>8, <2>9, <2>10
<1>7. m \in 1..Len(t) /\ m # Len(t) /\ 1 \in 1..Len(t) /\ m \in Nat /\ m + 1 \in Nat
      /\ m + 1 + Len(D) = Len(t)
  <2>1. Len(t) = m + 1 + Len(D) BY <1>6
  <2> QED BY <1>5, <2>1
<1>8. t # <<>> /\ t[1] = OPEN BY <1>6, <1>7, NotEmpty
<1>9. Min(ends) = m /\ ends # {}
  <2>1. m \in ends BY <1>6, <1>7
  <2>2. ASSUME NEW k \in ends PROVE m <= k
    <3> SUFFICES ASSUME ~(m <= k) PROVE FALSE OBVIOUS
    <3>0. k \in 1..Len(t) /\ t[k] = CLOSE OBVIOUS
    <3>1. CASE k = 1 BY <1>6, <3>0, <3>1 DEF OPEN, CLOSE
    <3>2. CASE k # 1
      <4> DEFINE j == k - 1
      <4>1. j \in 1..Len(ip) /\ 1 + j = k BY <1>5, <3>0, <3>2
      <4> HIDE DEF j
      <4>2. ip[j] = CLOSE
        <5> HIDE DEF m, ends
        <5> QED BY <1>6, <3>0, <4>1
      <4>3. ip[j] = COLON \/ ip[j] \in 48..57 \cup 65..70 \cup 97..102 BY <1>3, <4>1
      <4>4. CLOSE \notin 48..57 \cup 65..70 \cup 97..102 /\ CLOSE # COLON BY DEF COLON, CLOSE
      <4> HIDE DEF m, ends
      <4> QED BY <4>2, <4>3, <4>4
    <3> QED BY <3>1, <3>2
  <2>3. ends \subseteq Int OBVIOUS
  <2> HIDE DEF ends, m
  <2> QED BY <2>1, <2>2, <2>3, MinIs
<1>10. SubSeq(t, 2, m - 1) = ip /\ SubSeq(t, m + 2, Len(t)) = D
  <2>1. LiesAt(t, 1, ip)
    <3>1. 1 + Len(ip) <= Len(t)
      <4>1. Len(t) = Len(ip) + 2 + 1 + Len(D) BY <1>7
      <4> QED BY <1>5, <4>1
    <3> HIDE DEF m
    <3> QED BY <1>6, <3>1 DEF LiesAt
  <2>2. LiesAt(t, m + 1, D)
    <3>1. m + 1 + Len(D) <= Len(t) BY <1>5, <1>7
    <3> HIDE DEF m
    <3> QED BY <1>6, <3>1 DEF LiesAt
  <2>3. 1 + 1 = 2 /\ 1 + Len(ip) = m - 1 /\ (m + 1) + 1 = m + 2 BY <1>5
  <2>4. SubSeq(t, 1 + 1, 1 + Len(ip)) = ip
    <3> DEFINE z == 1
    <3>1. z \in Nat /\ LiesAt(t, z, ip) BY <2>1
    <3> HIDE DEF z
    <3>2. SubSeq(t, z + 1, z + Len(ip)) = ip BY <1>1, <1>6, <3>1, SliceIs
    <3> QED BY <3>2 DEF z
  <2> DEFINE k == m + 1
  <2>5. k \in Nat /\ LiesAt(t, k, D) /\ k + 1 = m + 2 /\ k + Len(D) = Len(t)
    BY <1>5, <1>7, <2>2
  <2> HIDE DEF m, k
  <2>6. SubSeq(t, k + 1, k + Len(D)) = D BY <1>2, <1>6, <2>5, SliceIs
  <2> QED BY <2>3, <2>4, <2>5, <2>6
<1>11. parse_ip(ip) # <<>>
  <2> SUFFICES ASSUME parse_ip(ip) = <<>> PROVE FALSE OBVIOUS
  <2>1. FamilyOf(<<>>) = UNSPEC BY DEF FamilyOf
  <2> QED BY <1>3, <2>1 DEF INET6, UNSPEC
<1>12. ~(Len(ip) >= ENDPOINT_IP_MAX) BY <1>1, <1>5, AddressAssumption DEF ip
<1> DEFINE result == [rc |-> "OK", ep |-> [family |-> INET6, ip |-> ip, port |-> ep.port]]
<1>13. endpoint_from_string(t) = result
  <2> DEFINE v6     == t # <<>> /\ t[1] = OPEN
             stops  == {i \in 1..Len(t) : t[i] = IF v6 THEN CLOSE ELSE COLON}
             end    == Min(stops)
             host   == SubSeq(t, IF v6 THEN 2 ELSE 1, end - 1)
             digits == SubSeq(t, IF v6 THEN end + 2 ELSE end + 1, Len(t))
             port   == Unsigned(digits, UINT16_MAX)
             family == IF v6 THEN INET6 ELSE INET
             Failed(error) == [rc |-> error, ep |-> endpoint_clear]
             Parsed == CASE stops = {} \/ (v6 /\ (end = Len(t) \/ t[end + 1] # COLON)) -> Failed("BAD_ENDPOINT")
                       [] host = <<>> \/ Len(host) >= ENDPOINT_IP_MAX -> Failed("BAD_ENDPOINT")
                       [] port = Refused -> Failed("BAD_PORT")
                       [] parse_ip(host) = <<>> -> Failed("BAD_ENDPOINT")
                       [] FamilyOf(parse_ip(host)) # family -> Failed("BAD_FAMILY")
                       [] OTHER -> [rc |-> "OK", ep |-> [family |-> family, ip |-> host, port |-> port]]
  <2>1. endpoint_from_string(t) = Parsed BY DEF endpoint_from_string
  <2>2. v6 BY <1>8
  <2>3. stops = ends /\ family = INET6 BY <2>2
  <2>4. end = m BY <1>9, <2>3
  <2>5. host = ip /\ digits = D
    <3> HIDE DEF v6, end, m
    <3> QED BY <1>10, <2>2, <2>4
  <2>6. port = ep.port BY <1>4, <2>5
  <2>7. ~(end = Len(t)) /\ ~(t[end + 1] # COLON)
    <3> HIDE DEF end, m
    <3> QED BY <1>6, <1>7, <2>4
  <2> HIDE DEF v6, stops, end, host, digits, port, family, Failed, ends
  <2>8. Parsed = result
    BY <1>3, <1>4, <1>9, <1>11, <1>12, <2>3, <2>5, <2>6, <2>7
  <2> QED BY <2>1, <2>8
<1>14. ep = [family |-> INET6, ip |-> ip, port |-> ep.port] BY <1>1 DEF ip
<1> QED BY <1>13, <1>14

LEMMA EndpointIsReadBack ==
  ASSUME NEW ep \in EndpointTexts, Len(ep.ip) < ENDPOINT_IP_MAX, Proper(ep), NEW n \in Nat,
         endpoint_to_string(ep, n).rc = "OK"
  PROVE  endpoint_from_string(endpoint_to_string(ep, n).text).ep = ep
<1> DEFINE D    == Digits(ep.port, 10)
           host == IF ep.family = INET6 THEN <<OPEN>> \o ep.ip \o <<CLOSE>> ELSE ep.ip
           text == host \o <<COLON>> \o D
<1>1. endpoint_to_string(ep, n).text = text
  <2> DEFINE Answer == IF n = 0 THEN [rc |-> "INVAL", text |-> <<>>]
                         ELSE IF ep.family = UNSPEC THEN [rc |-> "BAD_ENDPOINT", text |-> <<>>]
                         ELSE IF Len(text) + 1 > n THEN [rc |-> "BUFFER_TOO_SMALL", text |-> <<>>]
                         ELSE [rc |-> "OK", text |-> text]
  <2>1. endpoint_to_string(ep, n) = Answer BY DEF endpoint_to_string
  <2> HIDE DEF text
  <2> QED BY <2>1
<1>2. ep.family \in {INET, INET6} BY DEF EndpointTexts
<1>3. CASE ep.family = INET
  <2>1. text = Chain(ep.ip, <<COLON>>, D) BY <1>3 DEF Chain, INET, INET6
  <2> HIDE DEF text
  <2> QED BY <1>1, <1>3, <2>1, V4IsReadBack
<1>4. CASE ep.family = INET6
  <2>1. text = Chain(Chain(<<OPEN>>, ep.ip, <<CLOSE>>), <<COLON>>, D) BY <1>4 DEF Chain
  <2> HIDE DEF text
  <2> QED BY <1>1, <1>4, <2>1, V6IsReadBack
<1> QED BY <1>2, <1>3, <1>4
-----------------------------------------------------------------------------
(* The tags of the weapons.                                                *)

TagNames == Weapons \cup {NoWeapon}

LEMMA TagDomain == DOMAIN Tag = TagNames /\ NoWeapon \notin Weapons
BY DEF Tag, TagNames, Weapons, NoWeapon

TagCodes == 48..122

\* A tag's length and first character tell which it is.
Named(length, first) ==
  CASE length = 4 /\ first = 110 -> "NONE"    [] length = 4 /\ first = 105 -> "IPV6"
    [] length = 3 /\ first = 108 -> "LAN"     [] length = 4 /\ first = 117 -> "UPNP"
    [] length = 6 /\ first = 110 -> "NATPMP"  [] length = 3 /\ first = 112 -> "PCP"
    [] length = 4 /\ first = 104 -> "HOLE"    [] length = 7 /\ first = 112 -> "PREDICT"
    [] length = 8 /\ first = 98  -> "BIRTHDAY" [] length = 6 /\ first = 109 -> "MIRROR"
    [] length = 5 /\ first = 114 -> "RELAY"   [] OTHER -> "UPGRADE"
IsTag(t, name) == t \in Seq(TagCodes) /\ Len(t) \in 1..8 /\ Named(Len(t), t[1]) = name

LEMMA TagFacts == ASSUME NEW x \in TagNames PROVE IsTag(Tag[x], x)
<1>1. IsTag(Tag["NONE"], "NONE")
  <2>1. Tag["NONE"] \in Seq(TagCodes) /\ Len(Tag["NONE"]) = 4 /\ Tag["NONE"][1] = 110
    BY DEF Tag, TagCodes
  <2>2. Named(4, 110) = "NONE" BY DEF Named
  <2>3. 4 \in 1..8 OBVIOUS
  <2> QED BY <2>1, <2>2, <2>3 DEF IsTag
<1>2. IsTag(Tag["IPV6"], "IPV6")
  <2>1. Tag["IPV6"] \in Seq(TagCodes) /\ Len(Tag["IPV6"]) = 4 /\ Tag["IPV6"][1] = 105
    BY DEF Tag, TagCodes
  <2>2. Named(4, 105) = "IPV6" BY DEF Named
  <2>3. 4 \in 1..8 OBVIOUS
  <2> QED BY <2>1, <2>2, <2>3 DEF IsTag
<1>3. IsTag(Tag["LAN"], "LAN")
  <2>1. Tag["LAN"] \in Seq(TagCodes) /\ Len(Tag["LAN"]) = 3 /\ Tag["LAN"][1] = 108
    BY DEF Tag, TagCodes
  <2>2. Named(3, 108) = "LAN" BY DEF Named
  <2>3. 3 \in 1..8 OBVIOUS
  <2> QED BY <2>1, <2>2, <2>3 DEF IsTag
<1>4. IsTag(Tag["UPNP"], "UPNP")
  <2>1. Tag["UPNP"] \in Seq(TagCodes) /\ Len(Tag["UPNP"]) = 4 /\ Tag["UPNP"][1] = 117
    BY DEF Tag, TagCodes
  <2>2. Named(4, 117) = "UPNP" BY DEF Named
  <2>3. 4 \in 1..8 OBVIOUS
  <2> QED BY <2>1, <2>2, <2>3 DEF IsTag
<1>5. IsTag(Tag["NATPMP"], "NATPMP")
  <2>1. Tag["NATPMP"] \in Seq(TagCodes) /\ Len(Tag["NATPMP"]) = 6 /\ Tag["NATPMP"][1] = 110
    BY DEF Tag, TagCodes
  <2>2. Named(6, 110) = "NATPMP" BY DEF Named
  <2>3. 6 \in 1..8 OBVIOUS
  <2> QED BY <2>1, <2>2, <2>3 DEF IsTag
<1>6. IsTag(Tag["PCP"], "PCP")
  <2>1. Tag["PCP"] \in Seq(TagCodes) /\ Len(Tag["PCP"]) = 3 /\ Tag["PCP"][1] = 112
    BY DEF Tag, TagCodes
  <2>2. Named(3, 112) = "PCP" BY DEF Named
  <2>3. 3 \in 1..8 OBVIOUS
  <2> QED BY <2>1, <2>2, <2>3 DEF IsTag
<1>7. IsTag(Tag["HOLE"], "HOLE")
  <2>1. Tag["HOLE"] \in Seq(TagCodes) /\ Len(Tag["HOLE"]) = 4 /\ Tag["HOLE"][1] = 104
    BY DEF Tag, TagCodes
  <2>2. Named(4, 104) = "HOLE" BY DEF Named
  <2>3. 4 \in 1..8 OBVIOUS
  <2> QED BY <2>1, <2>2, <2>3 DEF IsTag
<1>8. IsTag(Tag["PREDICT"], "PREDICT")
  <2>1. Tag["PREDICT"] \in Seq(TagCodes) /\ Len(Tag["PREDICT"]) = 7 /\ Tag["PREDICT"][1] = 112
    BY DEF Tag, TagCodes
  <2>2. Named(7, 112) = "PREDICT" BY DEF Named
  <2>3. 7 \in 1..8 OBVIOUS
  <2> QED BY <2>1, <2>2, <2>3 DEF IsTag
<1>9. IsTag(Tag["BIRTHDAY"], "BIRTHDAY")
  <2>1. Tag["BIRTHDAY"] \in Seq(TagCodes) /\ Len(Tag["BIRTHDAY"]) = 8 /\ Tag["BIRTHDAY"][1] = 98
    BY DEF Tag, TagCodes
  <2>2. Named(8, 98) = "BIRTHDAY" BY DEF Named
  <2>3. 8 \in 1..8 OBVIOUS
  <2> QED BY <2>1, <2>2, <2>3 DEF IsTag
<1>10. IsTag(Tag["MIRROR"], "MIRROR")
  <2>1. Tag["MIRROR"] \in Seq(TagCodes) /\ Len(Tag["MIRROR"]) = 6 /\ Tag["MIRROR"][1] = 109
    BY DEF Tag, TagCodes
  <2>2. Named(6, 109) = "MIRROR" BY DEF Named
  <2>3. 6 \in 1..8 OBVIOUS
  <2> QED BY <2>1, <2>2, <2>3 DEF IsTag
<1>11. IsTag(Tag["RELAY"], "RELAY")
  <2>1. Tag["RELAY"] \in Seq(TagCodes) /\ Len(Tag["RELAY"]) = 5 /\ Tag["RELAY"][1] = 114
    BY DEF Tag, TagCodes
  <2>2. Named(5, 114) = "RELAY" BY DEF Named
  <2>3. 5 \in 1..8 OBVIOUS
  <2> QED BY <2>1, <2>2, <2>3 DEF IsTag
<1>12. IsTag(Tag["UPGRADE"], "UPGRADE")
  <2>1. Tag["UPGRADE"] \in Seq(TagCodes) /\ Len(Tag["UPGRADE"]) = 7 /\ Tag["UPGRADE"][1] = 117
    BY DEF Tag, TagCodes
  <2>2. Named(7, 117) = "UPGRADE" BY DEF Named
  <2>3. 7 \in 1..8 OBVIOUS
  <2> QED BY <2>1, <2>2, <2>3 DEF IsTag
<1> QED BY <1>1, <1>2, <1>3, <1>4, <1>5, <1>6, <1>7, <1>8, <1>9, <1>10, <1>11, <1>12, Zenon DEF TagNames, Weapons, NoWeapon

LEMMA FromTag == ASSUME NEW x \in TagNames PROVE from_tag(Tag[x]) = x
<1>1. \E w \in DOMAIN Tag : Tag[w] = Tag[x] BY TagDomain
<1> DEFINE y == CHOOSE w \in DOMAIN Tag : Tag[w] = Tag[x]
<1>2. y \in TagNames /\ Tag[y] = Tag[x] BY <1>1, TagDomain
<1>3. from_tag(Tag[x]) = y BY <1>1 DEF from_tag
<1> HIDE DEF y
<1>4. x = y BY <1>2, TagFacts DEF IsTag
<1> QED BY <1>3, <1>4
-----------------------------------------------------------------------------
(* Sets of weapons.                                                        *)

\* The weapons of a mask, in their order: all of them and no other.

LEMMA PriorityFacts ==
  ASSUME NEW x \in Weapons
  PROVE  Priority[x] \in 1..11 /\ ByPriority[Priority[x]] = x
<1>1. \A w \in Weapons : Priority[w] \in 1..11 BY DEF Priority, Weapons
<1>2. \A v, w \in Weapons : Priority[v] = Priority[w] => v = w BY DEF Priority, Weapons
<1> DEFINE p == Priority[x]
<1>3. p \in 1..11 BY <1>1
<1>4. ByPriority[p] = CHOOSE w \in Weapons : Priority[w] = p BY <1>3 DEF ByPriority
<1>5. \E w \in Weapons : Priority[w] = p OBVIOUS
<1> HIDE DEF p
<1>6. ByPriority[p] \in Weapons /\ Priority[ByPriority[p]] = p BY <1>4, <1>5
<1> QED BY <1>2, <1>3, <1>6 DEF p

LEMMA NoneBetween == \A i, j \in 1..11 : i <= j <=> i <= j - 1 \/ i = j
OBVIOUS

LEMMA ByPriorityType == ASSUME NEW p \in 1..11 PROVE ByPriority[p] \in Weapons
<1>1. \E w \in Weapons : Priority[w] = p BY DEF Priority, Weapons
<1>2. ByPriority[p] = CHOOSE w \in Weapons : Priority[w] = p BY DEF ByPriority
<1> QED BY <1>1, <1>2

LEMMA InPriorityIs ==
  ASSUME NEW mask, mask \subseteq Weapons
  PROVE  /\ InPriority(mask) \in Seq(Weapons)
         /\ mask = {InPriority(mask)[i] : i \in 1..Len(InPriority(mask))}
<1> DEFINE OneMore(x, p) == IF ByPriority[p] \in mask THEN Append(x, ByPriority[p]) ELSE x
           At(h, p) == IF p = 0 THEN <<>>
                       ELSE IF ByPriority[p] \in mask THEN Append(h[p - 1], ByPriority[p])
                       ELSE h[p - 1]
           Orders(h) == h = [p \in 0..11 |-> At(h, p)]
           upto == CHOOSE h : Orders(h)
           last == 11
           Members(x) == {x[i] : i \in 1..Len(x)}
<1>1. PICK g \in [0..last -> Seq(Weapons)] : g[0] = <<>> /\ \A p \in 1..last : g[p] = OneMore(g[p - 1], p)
  <2> DEFINE D == Seq(Weapons)  base == <<>>
             step == [p \in 1..last |-> [x \in D |-> OneMore(x, p)]]
  <2>1. \A x \in D, p \in 1..last : OneMore(x, p) \in D BY ByPriorityType
  <2>2. base \in D /\ last \in Nat /\ step \in Steps(last, D)
    <3> HIDE DEF OneMore, last
    <3>1. step \in Steps(last, D) BY <2>1 DEF Steps
    <3> QED BY <3>1 DEF last
  <2> HIDE DEF D, base, step, last
  <2>3. PICK g : Solution(last, D, base, step, g) BY <2>2, Recursion
  <2>4. /\ g \in [0..last -> D] /\ g[0] = base /\ \A p \in 1..last : g[p] = step[p][g[p - 1]]
    BY <2>3 DEF Solution
  <2>5. ASSUME NEW p \in 1..last PROVE g[p] = OneMore(g[p - 1], p)
    <3>1. p - 1 \in 0..last BY DEF last
    <3>2. g[p - 1] \in D BY <2>4, <3>1
    <3> HIDE DEF OneMore
    <3> QED BY <2>4, <3>2 DEF step
  <2> HIDE DEF OneMore
  <2> QED BY <2>4, <2>5 DEF D, base
<1>2. Orders(g)
  <2>1. \A p \in 0..last : g[p] = At(g, p)
    <3> TAKE p \in 0..last
    <3>1. CASE p = 0 BY <1>1, <3>1
    <3>2. CASE p # 0
      <4>1. p \in 1..last BY <3>2
      <4> HIDE DEF last
      <4> QED BY <1>1, <3>2, <4>1
    <3> QED BY <3>1, <3>2
  <2> HIDE DEF At
  <2> QED BY <1>1, <2>1
<1>3. Orders(upto)
  <2> HIDE DEF Orders
  <2> QED BY <1>2
<1>4. InPriority(mask) = upto[last] BY DEF InPriority
<1> HIDE DEF upto
<1>5. \A p \in 0..last : upto[p] = At(upto, p)
  <2> HIDE DEF At
  <2> QED BY <1>3
<1> DEFINE S == {p \in 0..last : /\ upto[p] \in Seq(Weapons)
                                 /\ Members(upto[p]) = {x \in mask : Priority[x] <= p}}
<1>6. 0 \in S
  <2>1. upto[0] = <<>> BY <1>5
  <2>2. Members(<<>>) = {} OBVIOUS
  <2>3. ASSUME NEW x \in mask PROVE ~(Priority[x] <= 0)
    <3>1. Priority[x] \in 1..11 BY PriorityFacts
    <3>2. \A k \in 1..11 : ~(k <= 0) OBVIOUS
    <3> QED BY <3>1, <3>2, Zenon
  <2>4. {x \in mask : Priority[x] <= 0} = {} BY <2>3
  <2>5. <<>> \in Seq(Weapons) /\ 0 \in 0..last OBVIOUS
  <2> HIDE DEF Members
  <2> QED BY <2>1, <2>2, <2>4, <2>5
<1>7. ASSUME NEW p \in 1..last, p - 1 \in S PROVE p \in S
  <2> DEFINE u == upto[p - 1]  v == upto[p]  y == ByPriority[p]
  <2>0. y \in Weapons /\ p \in 0..last /\ p # 0
    <3>1. p \in 1..11 /\ p \in 0..last /\ p # 0 OBVIOUS
    <3>2. ByPriority[p] \in Weapons BY <3>1, ByPriorityType
    <3> QED BY <3>1, <3>2
  <2>1. u \in Seq(Weapons) /\ Members(u) = {x \in mask : Priority[x] <= p - 1}
    <3> HIDE DEF Members
    <3> QED BY <1>7
  <2>2. v = IF y \in mask THEN Append(u, y) ELSE u
    <3> HIDE DEF last
    <3> QED BY <1>5, <2>0
  <2>3. \A x \in mask : Priority[x] <= p <=> Priority[x] <= p - 1 \/ x = y
    <3> TAKE x \in mask
    <3>1. Priority[x] \in 1..11 /\ ByPriority[Priority[x]] = x BY PriorityFacts
    <3>2. Priority[y] = p
      <4>1. \E w \in Weapons : Priority[w] = p BY DEF Priority, Weapons
      <4>2. ByPriority[p] = CHOOSE w \in Weapons : Priority[w] = p BY DEF ByPriority
      <4> QED BY <4>1, <4>2
    <3> HIDE DEF y
    <3>3. Priority[x] = p => x = y BY <3>1 DEF y
    <3> DEFINE k == Priority[x]
    <3>4. k \in 1..11 BY <3>1
    <3>5. k = p <=> x = y BY <3>2, <3>3
    <3>6. p \in 1..11 OBVIOUS
    <3> HIDE DEF k
    <3>7. k <= p <=> k <= p - 1 \/ k = p BY <3>4, <3>6, NoneBetween, Zenon
    <3>8. k <= p <=> k <= p - 1 \/ x = y BY <3>5, <3>7
    <3> QED BY <3>8 DEF k
  <2> HIDE DEF u, v, y, last
  <2>4. CASE y \in mask
    <3>1. v = Append(u, y) /\ v \in Seq(Weapons) BY <2>0, <2>1, <2>2, <2>4
    <3>2. Members(Append(u, y)) = Members(u) \cup {y}
      <4>1. Len(Append(u, y)) = Len(u) + 1 /\ Append(u, y)[Len(u) + 1] = y /\ Len(u) \in Nat
            /\ \A i \in 1..Len(u) : Append(u, y)[i] = u[i]
        BY <2>1
      <4>2. \A i : i \in 1..(Len(u) + 1) <=> i \in 1..Len(u) \/ i = Len(u) + 1 BY <4>1
      <4> QED BY <4>1, <4>2
    <3> HIDE DEF Members
    <3>3. Members(v) = {x \in mask : Priority[x] <= p} BY <2>1, <2>3, <2>4, <3>1, <3>2
    <3> QED BY <2>0, <3>1, <3>3 DEF v
  <2>5. CASE y \notin mask
    <3>1. v = u BY <2>2, <2>5
    <3> HIDE DEF Members
    <3>2. Members(v) = {x \in mask : Priority[x] <= p} BY <2>1, <2>3, <2>5, <3>1
    <3> QED BY <2>0, <2>1, <3>1, <3>2 DEF v
  <2> QED BY <2>4, <2>5
<1>8. last \in S
  <2>1. last \in Nat /\ last \in 0..last OBVIOUS
  <2> HIDE DEF S, last
  <2>2. 0..last \subseteq S BY <1>6, <1>7, <2>1, BoundedInduction
  <2> QED BY <2>1, <2>2
<1>9. {x \in mask : Priority[x] <= last} = mask
  <2>1. ASSUME NEW x \in mask PROVE Priority[x] <= last
    <3>1. Priority[x] \in 1..11 BY PriorityFacts
    <3>2. \A k \in 1..11 : k <= 11 OBVIOUS
    <3> QED BY <3>1, <3>2, Zenon
  <2> QED BY <2>1
<1> HIDE DEF last
<1> QED BY <1>4, <1>8, <1>9

LEMMA AppendOfJoin ==
  ASSUME NEW s \in Seq(Nat), NEW t \in Seq(Nat), NEW c \in Nat
  PROVE  s \o Append(t, c) = Append(s \o t, c)
<1> DEFINE x == s \o Append(t, c)  y == Append(s \o t, c)
<1>1. Append(t, c) \in Seq(Nat) /\ Len(Append(t, c)) = Len(t) + 1 /\ s \o t \in Seq(Nat)
      /\ Len(s \o t) = Len(s) + Len(t)
  OBVIOUS
<1>2. x \in Seq(Nat) /\ y \in Seq(Nat) /\ Len(x) = Len(s) + Len(t) + 1 /\ Len(y) = Len(x) BY <1>1
<1>3. \A i \in 1..Len(x) : x[i] = y[i] OBVIOUS
<1> HIDE DEF x, y
<1>4. x = y BY <1>2, <1>3, SeqEqual
<1> QED BY <1>4 DEF x, y

LEMMA NextOfAppended ==
  ASSUME NEW G \in Seq(Seq(Nat)), NEW x \in Seq(Nat), NEW c \in Nat, NEW sep, c # sep
  PROVE  NextField(Append(G, x), c, sep) = Append(G, Append(x, c))
<1> DEFINE F == Append(G, x)  n == Len(G) + 1  z == Append(x, c)
           H == [F EXCEPT ![n] = z]
<1>1. F \in Seq(Seq(Nat)) /\ Len(F) = n /\ F[n] = x /\ n \in Nat \ {0}
      /\ \A i \in 1..Len(G) : F[i] = G[i]
  OBVIOUS
<1>2. z \in Seq(Nat) OBVIOUS
<1>3. NextField(F, c, sep) = H
  <2> HIDE DEF F, n
  <2> QED BY <1>1 DEF NextField
<1>4. H \in Seq(Seq(Nat)) /\ Len(H) = n /\ H[n] = z /\ \A i \in 1..Len(G) : H[i] = G[i]
  <2>1. F \in [1..n -> Seq(Nat)]
    <3> HIDE DEF F, n
    <3> QED BY <1>1
  <2>2. n \in 1..n /\ \A i \in 1..Len(G) : i \in 1..n /\ i # n BY <1>1
  <2> HIDE DEF F, n, z
  <2>3. H \in [1..n -> Seq(Nat)] BY <1>2, <2>1
  <2>4. H[n] = z /\ \A i \in 1..n : i # n => H[i] = F[i] BY <2>1, <2>2
  <2> HIDE DEF H
  <2>5. H \in Seq(Seq(Nat)) /\ Len(H) = n
    <3>1. n \in Nat BY <1>1
    <3>2. H \in Seq(Seq(Nat)) BY <2>3, <3>1
    <3>3. Len(H) = n BY <2>3, <3>1, <3>2
    <3> QED BY <3>2, <3>3
  <2> QED BY <1>1, <2>2, <2>4, <2>5
<1> DEFINE K == Append(G, z)
<1>5. K \in Seq(Seq(Nat)) /\ Len(K) = n /\ K[n] = z /\ \A i \in 1..Len(G) : K[i] = G[i]
  <2> HIDE DEF z
  <2> QED BY <1>2
<1>6. H = K
  <2>1. \A i \in 1..n : i \in 1..Len(G) \/ i = n OBVIOUS
  <2> HIDE DEF H, K, n, z
  <2>2. \A i \in 1..Len(H) : H[i] = K[i] BY <1>4, <1>5, <2>1
  <2> QED BY <1>4, <1>5, <2>2, SeqEqual
<1> QED BY <1>3, <1>6

Free(t, sep) == \A i \in 1..Len(t) : t[i] # sep

LastGrows(s, t, sep) ==
  \A G \in Seq(Seq(Nat)), x \in Seq(Nat) :
    Fields(s, sep) = Append(G, x) => Fields(s \o t, sep) = Append(G, x \o t)

\* Text without a separator goes into the last field.
LEMMA LastFieldGrows ==
  ASSUME NEW s \in Seq(Nat), NEW sep, NEW t \in Seq(Nat), Free(t, sep)
  PROVE  LastGrows(s, t, sep)
<1> SUFFICES ASSUME NEW G \in Seq(Seq(Nat)), NEW x \in Seq(Nat), Fields(s, sep) = Append(G, x)
             PROVE  Fields(s \o t, sep) = Append(G, x \o t)
  BY DEF LastGrows
<1> DEFINE P == {r \in Seq(Nat) : Free(r, sep) => Fields(s \o r, sep) = Append(G, x \o r)}
<1>1. <<>> \in P
  <2>1. s \o <<>> = s /\ x \o <<>> = x /\ <<>> \in Seq(Nat) BY ConcatEmptySeq
  <2> QED BY <2>1
<1>2. ASSUME NEW r \in Seq(Nat), NEW c \in Nat, r \in P PROVE Append(r, c) \in P
  <2> DEFINE u == Append(r, c)
  <2>1. u \in Seq(Nat) /\ Len(u) = Len(r) + 1 /\ u[Len(r) + 1] = c /\ Len(r) \in Nat
        /\ \A i \in 1..Len(r) : u[i] = r[i]
    OBVIOUS
  <2>2. s \o u = Append(s \o r, c) /\ x \o u = Append(x \o r, c) BY AppendOfJoin
  <2>3. s \o r \in Seq(Nat) /\ x \o r \in Seq(Nat) OBVIOUS
  <2>4. SUFFICES ASSUME Free(u, sep) PROVE Fields(s \o u, sep) = Append(G, x \o u)
    <3> HIDE DEF u
    <3> QED BY <2>1 DEF u
  <2> HIDE DEF u
  <2>5. Free(r, sep) /\ c # sep
    <3>1. \A i \in 1..Len(r) : i \in 1..Len(u) BY <2>1
    <3>2. Len(r) + 1 \in 1..Len(u) BY <2>1
    <3> QED BY <2>1, <2>4, <3>1, <3>2 DEF Free
  <2>6. Fields(s \o r, sep) = Append(G, x \o r) BY <1>2, <2>5
  <2> DEFINE p == s \o r  q == x \o r
  <2>7. p \in Seq(Nat) /\ q \in Seq(Nat) /\ Fields(p, sep) = Append(G, q)
        /\ s \o u = Append(p, c) /\ x \o u = Append(q, c)
    BY <2>2, <2>3, <2>6
  <2> HIDE DEF p, q
  <2>8. Fields(Append(p, c), sep) = NextField(Append(G, q), c, sep)
    <3>1. Fields(Append(p, c), sep) = NextField(Fields(p, sep), c, sep) BY <2>7, FieldsGrow
    <3>2. Fields(p, sep) = Append(G, q) BY <2>7
    <3> QED BY <3>1, <3>2
  <2>9. NextField(Append(G, q), c, sep) = Append(G, Append(q, c))
    <3>1. q \in Seq(Nat) /\ c # sep BY <2>5, <2>7
    <3> QED BY <3>1, NextOfAppended
  <2> QED BY <2>7, <2>8, <2>9
<1>3. t \in P
  <2> HIDE DEF P
  <2> QED BY <1>1, <1>2, SequenceInduction
<1> QED BY <1>3

\* The first field, and one more field.
LEMMA FirstField ==
  ASSUME NEW t \in Seq(Nat), NEW sep, Free(t, sep)
  PROVE  Fields(t, sep) = <<t>>
<1> DEFINE e == <<>>  G == <<>>
<1>1. e \in Seq(Nat) /\ G \in Seq(Seq(Nat)) OBVIOUS
<1>2. Fields(e, sep) = Append(G, e) BY FieldsOfNothing
<1>3. e \o t = t BY ConcatEmptySeq
<1>4. Append(G, t) = <<t>> OBVIOUS
<1> HIDE DEF e, G
<1>5. Fields(e \o t, sep) = Append(G, e \o t)
  <2>1. LastGrows(e, t, sep) BY <1>1, LastFieldGrows
  <2> QED BY <1>1, <1>2, <2>1 DEF LastGrows
<1> QED BY <1>3, <1>4, <1>5

LEMMA OneMoreField ==
  ASSUME NEW s \in Seq(Nat), NEW sep \in Nat, NEW t \in Seq(Nat), Free(t, sep)
  PROVE  Fields(s \o <<sep>> \o t, sep) = Append(Fields(s, sep), t)
<1> DEFINE F == Fields(s, sep)  e == <<>>  r == Append(s, sep)
<1>1. F \in Seq(Seq(Nat)) /\ F \in FieldLists /\ e \in Seq(Nat) /\ r \in Seq(Nat)
  BY FieldsType DEF FieldLists
<1>2. Fields(r, sep) = Append(F, e) BY FieldsGrow DEF NextField
<1>3. e \o t = t BY ConcatEmptySeq
<1>4. s \o <<sep>> = r BY AppendIsConcat
<1> HIDE DEF F, e, r
<1>5. Fields(r \o t, sep) = Append(F, e \o t)
  <2>1. F \in Seq(Seq(Nat)) /\ e \in Seq(Nat) /\ r \in Seq(Nat) BY <1>1
  <2>2. LastGrows(r, t, sep) BY <2>1, LastFieldGrows
  <2> QED BY <1>2, <2>1, <2>2 DEF LastGrows
<1> QED BY <1>3, <1>4, <1>5 DEF F

\* No comma, space or tab in a tag, and no more than a token holds.
LEMMA TagText ==
  ASSUME NEW x \in TagNames
  PROVE  /\ Tag[x] \in Seq(Nat) /\ Tag[x] # <<>> /\ Len(Tag[x]) < TOKEN_MAX
         /\ \A k \in 1..Len(Tag[x]) : Tag[x][k] # COMMA /\ Tag[x][k] \notin {SPACE, 9}
<1> DEFINE t == Tag[x]
<1>1. t \in Seq(TagCodes) /\ Len(t) \in 1..8 BY TagFacts DEF IsTag
<1> HIDE DEF t
<1>2. \A c \in TagCodes : c \in Nat /\ c # COMMA /\ c \notin {SPACE, 9}
  BY DEF TagCodes, COMMA, SPACE
<1>3. \A k \in 1..Len(t) : t[k] \in TagCodes BY <1>1
<1>4. t \in Seq(Nat)
  <2>1. TagCodes \subseteq Nat BY <1>2
  <2> QED BY <1>1, <2>1, SeqMonotonic
<1>5. t # <<>>
  <2> SUFFICES ASSUME t = <<>> PROVE FALSE OBVIOUS
  <2>1. Len(t) = 0 OBVIOUS
  <2> QED BY <1>1, <2>1
<1>6. Len(t) < TOKEN_MAX
  <2>1. \A k \in 1..8 : k < TOKEN_MAX BY DEF TOKEN_MAX
  <2> QED BY <1>1, <2>1
<1> QED BY <1>2, <1>3, <1>4, <1>5, <1>6 DEF t

Ink(s) == \A k \in 1..Len(s) : s[k] \notin {SPACE, 9}
FieldSet(s) == {Fields(s, COMMA)[j] : j \in 1..Len(Fields(s, COMMA))}

LEMMA InkJoins ==
  ASSUME NEW s \in Seq(Nat), NEW t \in Seq(Nat), Ink(s), Ink(t)
  PROVE  Ink(s \o t)
<1> DEFINE u == s \o t
<1>1. /\ u \in Seq(Nat) /\ Len(u) = Len(s) + Len(t)
      /\ \A i \in 1..Len(s) : u[i] = s[i]
      /\ \A i \in 1..Len(t) : u[Len(s) + i] = t[i]
  BY JoinedTwo
<1> HIDE DEF u
<1>2. ASSUME NEW k \in 1..Len(u) PROVE u[k] \notin {SPACE, 9}
  <2>1. CASE k \in 1..Len(s) BY <1>1, <2>1 DEF Ink
  <2>2. CASE k \notin 1..Len(s)
    <3>1. k - Len(s) \in 1..Len(t) /\ Len(s) + (k - Len(s)) = k BY <1>1, <2>2
    <3>2. u[k] = t[k - Len(s)] BY <1>1, <3>1
    <3> QED BY <3>1, <3>2 DEF Ink
  <2> QED BY <2>1, <2>2
<1> QED BY <1>2 DEF Ink, u

\* One more tag in the text.
Tagged(s, i, t) == s \o (IF i > 1 THEN <<COMMA>> ELSE <<>>) \o t

LEMMA TaggedFields ==
  ASSUME NEW s \in Seq(Nat), Ink(s), NEW i \in Nat \ {0}, i = 1 => s = <<>>, NEW x \in TagNames
  PROVE  /\ Tagged(s, i, Tag[x]) \in Seq(Nat) /\ Ink(Tagged(s, i, Tag[x]))
         /\ FieldSet(Tagged(s, i, Tag[x])) = IF i = 1 THEN {Tag[x]} ELSE FieldSet(s) \cup {Tag[x]}
<1> DEFINE t == Tag[x]
<1>1. t \in Seq(Nat) /\ t # <<>> /\ Free(t, COMMA) /\ Ink(t)
  BY TagText DEF Ink, Free
<1> HIDE DEF t
<1>2. CASE i = 1
  <2>1. Tagged(s, i, t) = t
    <3>1. <<>> \o <<>> = <<>> BY ConcatEmptySeq
    <3>2. <<>> \o t = t BY <1>1, ConcatEmptySeq
    <3>3. ~(i > 1) /\ s = <<>> BY <1>2
    <3> QED BY <3>1, <3>2, <3>3 DEF Tagged
  <2>2. Fields(t, COMMA) = <<t>> BY <1>1, FirstField
  <2>3. FieldSet(t) = {t}
    <3>1. Len(<<t>>) = 1 /\ <<t>>[1] = t OBVIOUS
    <3>2. FieldSet(t) = {<<t>>[j] : j \in 1..Len(<<t>>)} BY <2>2 DEF FieldSet
    <3>3. \A j : j \in 1..1 <=> j = 1 OBVIOUS
    <3> QED BY <3>1, <3>2, <3>3
  <2> QED BY <1>1, <1>2, <2>1, <2>3 DEF t
<1>3. CASE i # 1
  <2> DEFINE F == Fields(s, COMMA)  c == <<COMMA>>  u == s \o c \o t
  <2>1. Tagged(s, i, t) = u
    <3>1. i > 1 BY <1>3
    <3> QED BY <3>1 DEF Tagged
  <2>2. c \in Seq(Nat) /\ Ink(c) /\ COMMA \in Nat BY DEF COMMA, SPACE, Ink
  <2>3. u \in Seq(Nat) /\ Ink(u)
    <3> DEFINE v == s \o c
    <3>1. v \in Seq(Nat) /\ Ink(v)
      <4> HIDE DEF c
      <4>1. s \o c \in Seq(Nat) BY <2>2, JoinedTwo
      <4>2. Ink(s \o c) BY <2>2, InkJoins
      <4> QED BY <4>1, <4>2
    <3> HIDE DEF v
    <3>2. v \o t \in Seq(Nat) /\ Ink(v \o t) BY <1>1, <3>1, InkJoins
    <3> QED BY <3>2 DEF v
  <2>4. Fields(u, COMMA) = Append(F, t) BY <1>1, <2>2, OneMoreField
  <2>5. F \in Seq(Seq(Nat)) BY FieldsType DEF FieldLists
  <2> HIDE DEF F, u
  <2>6. FieldSet(u) = FieldSet(s) \cup {t}
    <3>1. Len(Append(F, t)) = Len(F) + 1 /\ Append(F, t)[Len(F) + 1] = t /\ Len(F) \in Nat
          /\ \A j \in 1..Len(F) : Append(F, t)[j] = F[j]
      BY <1>1, <2>5
    <3>2. \A j : j \in 1..(Len(F) + 1) <=> j \in 1..Len(F) \/ j = Len(F) + 1 BY <3>1
    <3> DEFINE H == Append(F, t)  n == Len(F) + 1
    <3>3. Fields(u, COMMA) = H BY <2>4
    <3>4. Len(H) = n /\ H[n] = t /\ (\A j \in 1..Len(F) : H[j] = F[j]) BY <3>1
    <3>5. FieldSet(u) = {H[j] : j \in 1..n} BY <3>3, <3>4 DEF FieldSet
    <3>6. \A j : j \in 1..n <=> j \in 1..Len(F) \/ j = n BY <3>2
    <3> HIDE DEF H, n
    <3>7. FieldSet(u) = {F[j] : j \in 1..Len(F)} \cup {t} BY <3>4, <3>5, <3>6
    <3> QED BY <3>7 DEF FieldSet, F
  <2> QED BY <1>3, <2>1, <2>3, <2>6 DEF t
<1> QED BY <1>2, <1>3

LEMMA MaskTexts ==
  ASSUME NEW mask, mask \subseteq Weapons, NEW n \in Nat
  PROVE  \E s \in Seq(Nat) :
           /\ mask_format(mask, n) = Written(s, n) /\ Ink(s)
           /\ IF mask = {} THEN s = <<>> ELSE FieldSet(s) = {Tag[x] : x \in mask}
<1> DEFINE w == InPriority(mask)  m == Len(w)
           At(h, i) == IF i = 0 THEN <<>> ELSE h[i - 1] \o (IF i > 1 THEN <<COMMA>> ELSE <<>>) \o Tag[w[i]]
           Joins(h) == h = [i \in 0..m |-> At(h, i)]
           upto == CHOOSE h : Joins(h)
<1>1. w \in Seq(Weapons) /\ m \in Nat /\ mask = {w[i] : i \in 1..m} BY InPriorityIs
<1>2. mask_format(mask, n) = Written(upto[m], n) BY DEF mask_format
<1> HIDE DEF w
<1>3. \A i \in 1..m : w[i] \in TagNames /\ Tag[w[i]] \in Seq(Nat)
  <2>1. \A i \in 1..m : w[i] \in Weapons BY <1>1
  <2>2. \A i \in 1..m : w[i] \in TagNames BY <2>1 DEF TagNames
  <2> QED BY <2>2, TagText
<1> HIDE DEF m
<1>4. \A s \in Seq(Nat), i \in 1..m : Tagged(s, i, Tag[w[i]]) \in Seq(Nat)
  <2> TAKE s \in Seq(Nat), i \in 1..m
  <2> DEFINE c == IF i > 1 THEN <<COMMA>> ELSE <<>>  t == Tag[w[i]]
  <2>1. c \in Seq(Nat) /\ t \in Seq(Nat) BY <1>3 DEF COMMA
  <2> HIDE DEF c, t
  <2>2. s \o c \o t \in Seq(Nat) BY <2>1
  <2> QED BY <2>2 DEF Tagged, c, t
<1>5. PICK g \in [0..m -> Seq(Nat)] :
        g[0] = <<>> /\ \A i \in 1..m : g[i] = Tagged(g[i - 1], i, Tag[w[i]])
  <2> DEFINE D == Seq(Nat)  base == <<>>
             step == [i \in 1..m |-> [x \in D |-> Tagged(x, i, Tag[w[i]])]]
  <2>1. base \in D /\ step \in Steps(m, D) BY <1>4 DEF Steps
  <2> HIDE DEF D, base, step
  <2>2. PICK g : Solution(m, D, base, step, g) BY <1>1, <2>1, Recursion
  <2>3. /\ g \in [0..m -> D] /\ g[0] = base /\ \A i \in 1..m : g[i] = step[i][g[i - 1]]
    BY <2>2 DEF Solution
  <2>4. ASSUME NEW i \in 1..m PROVE g[i] = Tagged(g[i - 1], i, Tag[w[i]])
    <3>1. g[i - 1] \in D BY <1>1, <2>3
    <3> QED BY <2>3, <3>1 DEF step
  <2> QED BY <2>3, <2>4 DEF D, base
<1>6. Joins(g)
  <2>1. \A i \in 0..m : g[i] = At(g, i)
    <3> TAKE i \in 0..m
    <3>1. CASE i = 0 BY <1>5, <3>1
    <3>2. CASE i # 0
      <4>1. i \in 1..m BY <1>1, <3>2
      <4> QED BY <1>5, <3>2, <4>1 DEF Tagged
    <3> QED BY <3>1, <3>2
  <2> HIDE DEF At
  <2> QED BY <1>5, <2>1
<1>7. Joins(upto)
  <2> HIDE DEF Joins
  <2> QED BY <1>6
<1> HIDE DEF upto
<1>8. \A i \in 0..m : upto[i] = At(upto, i)
  <2> HIDE DEF At
  <2> QED BY <1>7
<1> DEFINE First(i) == {Tag[w[j]] : j \in 1..i}
           S == {i \in 0..m : /\ upto[i] = g[i] /\ Ink(g[i])
                              /\ i > 0 => FieldSet(g[i]) = First(i)}
<1>9. 0 \in S
  <2>1. 0 \in 0..m BY <1>1
  <2>2. upto[0] = <<>> BY <1>8, <2>1
  <2>3. Ink(<<>>) BY DEF Ink
  <2> QED BY <1>5, <2>1, <2>2, <2>3
<1>10. ASSUME NEW i \in 1..m, i - 1 \in S PROVE i \in S
  <2> DEFINE x == w[i]  s == g[i - 1]
  <2>1. i \in 0..m /\ i # 0 /\ i \in Nat \ {0} /\ i - 1 \in 0..m BY <1>1
  <2>2. x \in TagNames /\ s \in Seq(Nat) BY <1>3, <1>5, <2>1
  <2>3. upto[i - 1] = s /\ Ink(s) /\ (i - 1 > 0 => FieldSet(s) = First(i - 1))
    <3> HIDE DEF First
    <3> QED BY <1>10
  <2>4. upto[i] = Tagged(upto[i - 1], i, Tag[x]) BY <1>8, <2>1 DEF Tagged
  <2>5. g[i] = Tagged(s, i, Tag[x]) BY <1>5
  <2>6. i = 1 => s = <<>>
    <3>1. i = 1 => i - 1 = 0 OBVIOUS
    <3> QED BY <1>5, <3>1
  <2>7. First(i) = IF i = 1 THEN {Tag[x]} ELSE First(i - 1) \cup {Tag[x]}
    <3>1. CASE i = 1
      <4>1. \A j : j \in 1..i <=> j = i BY <3>1
      <4>2. First(i) = {Tag[w[i]]} BY <4>1
      <4> HIDE DEF First
      <4> QED BY <3>1, <4>2
    <3>2. CASE i # 1
      <4>1. \A j : j \in 1..i <=> j \in 1..(i - 1) \/ j = i BY <2>1
      <4> QED BY <3>2, <4>1
    <3> QED BY <3>1, <3>2
  <2> HIDE DEF x, s, First
  <2> DEFINE r == Tagged(s, i, Tag[x])
  <2>8. Ink(r) /\ FieldSet(r) = IF i = 1 THEN {Tag[x]} ELSE FieldSet(s) \cup {Tag[x]}
    <3>1. Ink(s) /\ i \in Nat \ {0} /\ s \in Seq(Nat) /\ x \in TagNames BY <2>1, <2>2, <2>3
    <3> QED BY <2>6, <3>1, TaggedFields
  <2>9. upto[i] = r /\ g[i] = r BY <2>3, <2>4, <2>5
  <2> HIDE DEF r
  <2>10. FieldSet(r) = First(i)
    <3>1. i # 1 => i - 1 > 0 BY <2>1
    <3> QED BY <2>3, <2>7, <2>8, <3>1
  <2> QED BY <2>1, <2>8, <2>9, <2>10
<1>11. m \in S
  <2> HIDE DEF S
  <2>1. 0..m \subseteq S BY <1>1, <1>9, <1>10, BoundedInduction
  <2> QED BY <1>1, <2>1
<1> DEFINE s == g[m]
<1>12. s \in Seq(Nat) /\ mask_format(mask, n) = Written(s, n) /\ Ink(s)
  <2>1. m \in 0..m BY <1>1
  <2> QED BY <1>2, <1>5, <1>11, <2>1
<1>13. CASE mask = {}
  <2>1. m = 0
    <3> SUFFICES ASSUME m # 0 PROVE FALSE OBVIOUS
    <3>1. 1 \in 1..m BY <1>1
    <3> QED BY <1>1, <1>13, <3>1
  <2>2. s = <<>> BY <1>5, <2>1
  <2> QED BY <1>12, <1>13, <2>2
<1>14. CASE mask # {}
  <2>1. m > 0
    <3> SUFFICES ASSUME m = 0 PROVE FALSE BY <1>1
    <3>1. \A i : ~(i \in 1..m) OBVIOUS
    <3> QED BY <1>1, <1>14, <3>1
  <2>2. FieldSet(s) = First(m)
    <3> HIDE DEF First
    <3> QED BY <1>11, <2>1
  <2>3. First(m) = {Tag[x] : x \in mask} BY <1>1
  <2> HIDE DEF First, s
  <2> QED BY <1>12, <1>14, <2>2, <2>3
<1> QED BY <1>13, <1>14

LEMMA MaskIsReadBack ==
  ASSUME NEW mask, mask \subseteq Weapons, NEW n \in Nat, Outcome(mask_format(mask, n), n).whole
  PROVE  mask_from_string(Outcome(mask_format(mask, n), n).text).mask = mask
<1>1. PICK s \in Seq(Nat) :
        /\ mask_format(mask, n) = Written(s, n) /\ Ink(s)
        /\ IF mask = {} THEN s = <<>> ELSE FieldSet(s) = {Tag[x] : x \in mask}
  BY MaskTexts
<1>2. Outcome(mask_format(mask, n), n).text = s BY <1>1, OutcomeWhole
<1> DEFINE spaced == [i \in 1..Len(s) |-> IF s[i] \in {SPACE, 9} THEN COMMA ELSE s[i]]
           field == Fields(s, COMMA)
           tokens == {i \in 1..Len(field) : field[i] # <<>>}
           Token(t) == IF Len(t) < TOKEN_MAX THEN from_tag(t) ELSE NoWeapon
           found == {Token(field[i]) : i \in tokens} \ {NoWeapon}
<1>3. spaced = s
  <2>1. \A i \in 1..Len(s) : spaced[i] = s[i] BY <1>1 DEF Ink
  <2>2. s = [i \in 1..Len(s) |-> s[i]] OBVIOUS
  <2> QED BY <2>1, <2>2
<1>4. mask_from_string(s).mask = found
  <2>1. mask_from_string(s).mask =
          {Token(Fields(spaced, COMMA)[i]) :
             i \in {i \in 1..Len(Fields(spaced, COMMA)) : Fields(spaced, COMMA)[i] # <<>>}} \ {NoWeapon}
    BY DEF mask_from_string
  <2> HIDE DEF spaced, Token
  <2> QED BY <1>3, <2>1
<1>5. CASE mask = {}
  <2>1. field = <<<<>>>> BY <1>1, <1>5, FieldsOfNothing
  <2> HIDE DEF field
  <2>2. tokens = {}
    <3>1. \A i \in 1..Len(field) : field[i] = <<>> BY <2>1
    <3> QED BY <3>1
  <2> HIDE DEF tokens, Token
  <2> QED BY <1>2, <1>4, <1>5, <2>2
<1>6. CASE mask # {}
  <2>1. {field[j] : j \in 1..Len(field)} = {Tag[x] : x \in mask} BY <1>1, <1>6 DEF FieldSet
  <2>2. \A x \in mask : x \in Weapons /\ x \in TagNames /\ x # NoWeapon BY TagDomain DEF TagNames
  <2>3. \A x \in mask : Tag[x] # <<>> /\ Token(Tag[x]) = x
    <3> TAKE x \in mask
    <3>1. Tag[x] # <<>> /\ Len(Tag[x]) < TOKEN_MAX BY <2>2, TagText
    <3>2. from_tag(Tag[x]) = x BY <2>2, FromTag
    <3> QED BY <3>1, <3>2
  <2> HIDE DEF field, Token
  <2>4. ASSUME NEW y \in found PROVE y \in mask
    <3>1. PICK i \in tokens : y = Token(field[i]) OBVIOUS
    <3>2. PICK x \in mask : field[i] = Tag[x] BY <2>1
    <3> QED BY <2>3, <3>1, <3>2
  <2>5. ASSUME NEW x \in mask PROVE x \in found
    <3>1. PICK j \in 1..Len(field) : field[j] = Tag[x] BY <2>1
    <3>2. j \in tokens BY <2>3, <3>1
    <3>3. Token(field[j]) = x /\ x # NoWeapon BY <2>2, <2>3, <3>1
    <3> QED BY <3>2, <3>3
  <2> HIDE DEF found
  <2> QED BY <1>2, <1>4, <2>4, <2>5
<1> QED BY <1>5, <1>6

-----------------------------------------------------------------------------
LEMMA WholeReadsBack ==
  ASSUME NEW v, Writable(v), NEW n \in Nat, WriteOf(v, n).whole
  PROVE  ReadOf(v.kind, WriteOf(v, n).text) = v.value
<1> DEFINE w == WriteOf(v, n)
<1>1. CASE v.kind = "u32" /\ v.value \in 0..UINT_MAX
  <2>1. w = Outcome(fmt_u32(v.value, n), n) BY <1>1 DEF WriteOf
  <2>2. ReadOf(v.kind, w.text) = parse_u32(w.text)
    <3> HIDE DEF w
    <3> QED BY <1>1 DEF ReadOf
  <2> HIDE DEF w
  <2>3. w.whole BY DEF w
  <2> QED BY <1>1, <2>1, <2>2, <2>3, U32IsReadBack DEF w
<1>2. CASE v.kind = "i32" /\ v.value \in (-INT_MAX - 1)..INT_MAX
  <2>1. w = Outcome(fmt_i32(v.value, n), n) BY <1>2 DEF WriteOf
  <2>2. ReadOf(v.kind, w.text) = parse_i32(w.text).value
    <3> HIDE DEF w
    <3> QED BY <1>2 DEF ReadOf
  <2> HIDE DEF w
  <2>3. w.whole BY DEF w
  <2> QED BY <1>2, <2>1, <2>2, <2>3, I32IsReadBack DEF w
<1>3. CASE v.kind = "mask" /\ v.value \in SUBSET Weapons
  <2>1. w = Outcome(mask_format(v.value, n), n) BY <1>3 DEF WriteOf
  <2>2. ReadOf(v.kind, w.text) = mask_from_string(w.text).mask
    <3> HIDE DEF w
    <3> QED BY <1>3 DEF ReadOf
  <2> HIDE DEF w
  <2>3. w.whole BY DEF w
  <2> QED BY <1>3, <2>1, <2>2, <2>3, MaskIsReadBack DEF w
<1>4. CASE v.kind = "peer" /\ v.value \in [1..PEER_ID_SIZE -> 0..255]
  <2>1. w = Coded(peer_id_to_string(v.value, n)) BY <1>4 DEF WriteOf
  <2>2. ReadOf(v.kind, w.text) = peer_id_from_string(w.text)
    <3> HIDE DEF w
    <3> QED BY <1>4 DEF ReadOf
  <2> HIDE DEF w
  <2>3. w.whole BY DEF w
  <2>4. peer_id_to_string(v.value, n).rc = "OK" /\ w.text = peer_id_to_string(v.value, n).text
    BY <2>1, <2>3 DEF Coded
  <2> QED BY <1>4, <2>2, <2>4, PeerIsReadBack DEF w
<1>5. CASE v.kind = "endpoint" /\ v.value \in EndpointTexts
           /\ Len(v.value.ip) < ENDPOINT_IP_MAX /\ Proper(v.value)
  <2>1. w = Coded(endpoint_to_string(v.value, n)) BY <1>5 DEF WriteOf
  <2>2. ReadOf(v.kind, w.text) = endpoint_from_string(w.text).ep
    <3> HIDE DEF w
    <3> QED BY <1>5 DEF ReadOf
  <2> HIDE DEF w
  <2>3. w.whole BY DEF w
  <2>4. endpoint_to_string(v.value, n).rc = "OK" /\ w.text = endpoint_to_string(v.value, n).text
    BY <2>1, <2>3 DEF Coded
  <2> QED BY <1>5, <2>2, <2>4, EndpointIsReadBack DEF w
<1> HIDE DEF w
<1> QED BY <1>1, <1>2, <1>3, <1>4, <1>5 DEF Writable, EndpointTexts, w

\* What was written, and what was read of it.
TextInv ==
  tool = "text" /\ phase # "filling" =>
    \E v \in Values, n \in Lengths :
      given = v /\ held = WriteOf(v, n) /\ (phase = "answered" => told = ReadOf(v.kind, held.text))

LEMMA NextText == TextInv /\ [SessionNext]_sessionVars => TextInv'
<1> SUFFICES ASSUME TextInv, [SessionNext]_sessionVars PROVE TextInv' OBVIOUS
<1>1. CASE Write
  <2>1. PICK v \in Values, n \in Lengths : given' = v /\ held' = WriteOf(v, n) /\ phase' = "written"
    BY <1>1 DEF Write
  <2> QED BY <2>1 DEF TextInv
<1>2. CASE Read
  <2>1. /\ tool = "text" /\ phase = "written" /\ told' = ReadOf(given.kind, held.text)
        /\ phase' = "answered" /\ given' = given /\ held' = held
    BY <1>2 DEF Read
  <2>2. PICK v \in Values, n \in Lengths : given = v /\ held = WriteOf(v, n)
    BY <2>1 DEF TextInv
  <2>3. told' = ReadOf(v.kind, held'.text) BY <2>1, <2>2
  <2> QED BY <2>1, <2>2, <2>3 DEF TextInv
<1>3. CASE Compare \/ Prepare \/ Push \/ Pop \/ Clear \/ Put \/ Rewind \/ Get \/ Observe
  BY <1>3, OneTool DEF TextInv
<1>4. CASE UNCHANGED sessionVars BY <1>4 DEF sessionVars, TextInv
<1> QED BY <1>1, <1>2, <1>3, <1>4 DEF SessionNext

(* Every number of the width, set of weapons, peer identifier and endpoint  *)
(* of an address of its family, written whole into a buffer of any length,  *)
(* is read back as it was (xury.c: xury_fmt_u32, xury_parse_u32 and the     *)
(* like; types.c: xury_endpoint_to_string, xury_endpoint_from_string,       *)
(* xury_peer_id_to_string, xury_peer_id_from_string; weapon.c:              *)
(* xury_weapon_mask_format, xury_weapon_mask_from_string).                  *)
THEOREM WrittenReadsBack == Session => []WrittenIsReadBack
<1>1. SessionInit => TextInv BY DEF SessionInit, TextInv
<1>2. TextInv => WrittenIsReadBack
  <2> SUFFICES ASSUME TextInv, tool = "text", phase = "answered", held.whole
               PROVE  told = given.value
    BY DEF WrittenIsReadBack
  <2>1. PICK v \in Values, n \in Lengths :
          given = v /\ held = WriteOf(v, n) /\ told = ReadOf(v.kind, held.text)
    BY DEF TextInv
  <2>2. Writable(v) /\ n \in Nat BY ApiAssumption
  <2>3. WriteOf(v, n).whole BY <2>1
  <2>4. ReadOf(v.kind, WriteOf(v, n).text) = v.value BY <2>2, <2>3, WholeReadsBack
  <2> QED BY <2>1, <2>4
<1> QED BY <1>1, <1>2, NextText, PTL DEF Session
-----------------------------------------------------------------------------
(* Sums, and the ports of a NAT.                                          *)

LEMMA TotalIsSum ==
  ASSUME NEW v \in Seq(Int), NEW s \in [0..Len(v) -> Int],
         s[0] = 0, \A i \in 1..Len(v) : s[i] = s[i - 1] + v[i]
  PROVE  Total(v) = s[Len(v)]
<1> DEFINE n == Len(v)
           Sums(h) == h = [i \in 0..n |-> IF i = 0 THEN 0 ELSE h[i - 1] + v[i]]
           sum == CHOOSE h : Sums(h)
<1>0. n \in Nat OBVIOUS
<1>1. Sums(s)
  BY <1>0
<1>2. Sums(sum)
  <2> HIDE DEF Sums
  <2> QED BY <1>1
<1>3. Total(v) = sum[n] BY DEF Total
<1> HIDE DEF sum
<1> DEFINE S == {i \in 0..n : sum[i] = s[i]}
<1>4. 0 \in S BY <1>0, <1>2
<1>5. ASSUME NEW i \in 1..n, i - 1 \in S PROVE i \in S
  BY <1>0, <1>2, <1>5
<1>6. 0..n \subseteq S
  <2> HIDE DEF S
  <2> QED BY <1>0, <1>4, <1>5, BoundedInduction
<1> QED BY <1>0, <1>3, <1>6

LEMMA SumExists ==
  ASSUME NEW v \in Seq(Int)
  PROVE  \E s \in [0..Len(v) -> Int] :
           /\ s[0] = 0 /\ \A i \in 1..Len(v) : s[i] = s[i - 1] + v[i]
           /\ Total(v) = s[Len(v)]
<1> DEFINE step == [i \in 1..Len(v) |-> [x \in Int |-> x + v[i]]]
<1>1. Len(v) \in Nat /\ \A i \in 1..Len(v) : v[i] \in Int OBVIOUS
<1>2. step \in [1..Len(v) -> [Int -> Int]] BY <1>1
<1>3. PICK g \in [0..Len(v) -> Int] :
        g[0] = 0 /\ \A i \in 1..Len(v) : g[i] = step[i][g[i - 1]]
  <2> DEFINE D == Int  base == 0
  <2>1. base \in D /\ step \in Steps(Len(v), D) BY <1>2 DEF Steps
  <2> HIDE DEF step, base, D
  <2>2. PICK g : Solution(Len(v), D, base, step, g) BY <1>1, <2>1, Recursion
  <2> QED BY <2>2 DEF Solution, base, D
<1>4. ASSUME NEW i \in 1..Len(v) PROVE g[i] = g[i - 1] + v[i]
  <2>1. i - 1 \in 0..Len(v) BY <1>1
  <2>2. g[i - 1] \in Int BY <2>1
  <2> QED BY <1>3, <2>2
<1> QED BY <1>3, <1>4, TotalIsSum

LEMMA TotalType == ASSUME NEW v \in Seq(Int) PROVE Total(v) \in Int
<1>1. Len(v) \in 0..Len(v) OBVIOUS
<1> QED BY <1>1, SumExists

\* What a sum has is had by any sequence that is a multiple of it.
Proportional(k, x, l, y) == k * x = l * y

LEMMA TotalScales ==
  ASSUME NEW n \in Nat, NEW v \in [1..n -> Int], NEW w \in [1..n -> Int],
         NEW k \in Int, NEW l \in Int,
         \A i \in 1..n : Proportional(k, v[i], l, w[i])
  PROVE  Proportional(k, Total(v), l, Total(w))
<1>0. v \in Seq(Int) /\ w \in Seq(Int) /\ Len(v) = n /\ Len(w) = n OBVIOUS
<1>1. PICK s \in [0..n -> Int] :
        s[0] = 0 /\ (\A i \in 1..n : s[i] = s[i - 1] + v[i]) /\ Total(v) = s[n]
  BY <1>0, SumExists
<1>2. PICK t \in [0..n -> Int] :
        t[0] = 0 /\ (\A i \in 1..n : t[i] = t[i - 1] + w[i]) /\ Total(w) = t[n]
  BY <1>0, SumExists
<1> DEFINE S == {i \in 0..n : k * s[i] = l * t[i]}
<1>3. 0 \in S BY <1>1, <1>2
<1>4. ASSUME NEW i \in 1..n, i - 1 \in S PROVE i \in S
  <2>1. k * (s[i - 1] + v[i]) = k * s[i - 1] + k * v[i] BY <1>0
  <2>2. l * (t[i - 1] + w[i]) = l * t[i - 1] + l * w[i] BY <1>0
  <2>3. s[i] = s[i - 1] + v[i] /\ t[i] = t[i - 1] + w[i] BY <1>1, <1>2
  <2>4. k * v[i] = l * w[i] BY DEF Proportional
  <2> QED BY <1>4, <2>1, <2>2, <2>3, <2>4
<1>5. 0..n \subseteq S
  <2> HIDE DEF S
  <2> QED BY <1>3, <1>4, BoundedInduction
<1> QED BY <1>1, <1>2, <1>5 DEF Proportional

\* The sum of equal steps, doubled.
LEMMA TotalOfSteps ==
  ASSUME NEW n \in Nat, NEW v \in [1..n -> Int], NEW a \in Int, NEW d \in Int,
         \A i \in 1..n : v[i] = a + (i - 1) * d
  PROVE  2 * Total(v) = n * (2 * a) + n * (n - 1) * d
<1>0. v \in Seq(Int) /\ Len(v) = n OBVIOUS
<1>1. PICK s \in [0..n -> Int] :
        s[0] = 0 /\ (\A i \in 1..n : s[i] = s[i - 1] + v[i]) /\ Total(v) = s[n]
  BY <1>0, SumExists
<1> DEFINE S == {i \in 0..n : 2 * s[i] = i * (2 * a) + i * (i - 1) * d}
<1>2. 0 \in S BY <1>1
<1>3. ASSUME NEW i \in 1..n, i - 1 \in S PROVE i \in S
  <2>1. 2 * s[i - 1] = (i - 1) * (2 * a) + (i - 1) * (i - 2) * d BY <1>3
  <2>2. s[i] = s[i - 1] + (a + (i - 1) * d) BY <1>1
  <2> DEFINE p == (i - 1) * d  c == 2 * a
  <2>3. p \in Int /\ c \in Int /\ s[i] \in Int /\ s[i - 1] \in Int OBVIOUS
  <2>4. (i - 1) * (i - 2) * d = (i - 2) * p /\ i * (i - 1) * d = i * p OBVIOUS
  <2>5. 2 * s[i - 1] = (i - 1) * c + (i - 2) * p BY <2>1, <2>4
  <2>6. s[i] = s[i - 1] + (a + p) BY <2>2
  <2>7. 2 * s[i] = 2 * s[i - 1] + c + 2 * p BY <2>3, <2>6
  <2>8. ASSUME NEW x \in Int, NEW y \in Int PROVE (i - 1) * x + (i - 2) * y + x + 2 * y = i * x + i * y
    OBVIOUS
  <2>9. 2 * s[i] = i * c + i * p
    <3> HIDE DEF p, c
    <3> QED BY <2>3, <2>5, <2>7, <2>8
  <2> QED BY <2>4, <2>9
<1>4. 0..n \subseteq S
  <2> HIDE DEF S
  <2> QED BY <1>2, <1>3, BoundedInduction
<1> QED BY <1>1, <1>4

LEMMA TotalPositive ==
  ASSUME NEW n \in Nat, NEW v \in [1..n -> Nat], n > 0, v[1] > 0
  PROVE  Total(v) > 0
<1>0. v \in Seq(Int) /\ Len(v) = n OBVIOUS
<1>1. PICK s \in [0..n -> Int] :
        s[0] = 0 /\ (\A i \in 1..n : s[i] = s[i - 1] + v[i]) /\ Total(v) = s[n]
  BY <1>0, SumExists
<1> DEFINE S == {i \in 0..n : i > 0 => s[i] > 0}
<1>2. 0 \in S OBVIOUS
<1>3. ASSUME NEW i \in 1..n, i - 1 \in S PROVE i \in S
  BY <1>1, <1>3
<1>4. 0..n \subseteq S
  <2> HIDE DEF S
  <2> QED BY <1>2, <1>3, BoundedInduction
<1> QED BY <1>1, <1>4

LEMMA DivisionIs ==
  ASSUME NEW a \in Int, NEW b \in Nat \ {0}, NEW q \in Int, NEW r \in 0..(b - 1),
         a = b * q + r
  PROVE  a \div b = q /\ a % b = r
OBVIOUS

LEMMA RoundedWhole ==
  ASSUME NEW k \in Int, NEW D \in Nat \ {0}
  PROVE  Rounded(k * D, D) = k
<1> DEFINE m == Magnitude(k)
<1>1. m \in Nat /\ (k < 0 => k = -m) /\ (k >= 0 => k = m) BY DEF Magnitude
<1>3. k * D \in Int /\ (k < 0 <=> k * D < 0)
  OBVIOUS
<1>2. Magnitude(k * D) = m * D
  <2>1. CASE k < 0
    <3>1. -(k * D) = (-k) * D OBVIOUS
    <3> QED BY <1>3, <2>1, <3>1 DEF Magnitude
  <2>2. CASE k >= 0 BY <1>3, <2>2 DEF Magnitude
  <2> QED BY <2>1, <2>2
<1>4. (2 * (m * D) + D) = (2 * D) * m + D /\ D \in 0..(2 * D - 1) /\ 2 * D \in Nat \ {0}
  BY <1>1
<1>5. (2 * (m * D) + D) \div (2 * D) = m
  <2> DEFINE A == 2 * (m * D) + D  B == 2 * D
  <2>1. A \in Int /\ B \in Nat \ {0} /\ m \in Int /\ D \in 0..(B - 1) /\ A = B * m + D
    BY <1>1, <1>4
  <2> HIDE DEF A, B, m
  <2>2. A \div B = m BY <2>1, DivisionIs
  <2> QED BY <2>2 DEF A, B
<1>6. (2 * Magnitude(k * D) + D) \div (2 * D) = m BY <1>2, <1>5
<1>7. Rounded(k * D, D) = IF k < 0 THEN -m ELSE m BY <1>3, <1>6 DEF Rounded
<1> QED BY <1>1, <1>7

LEMMA SlopeOfSteps ==
  ASSUME NEW n \in Nat, n >= 2, NEW v \in [1..n -> Int], NEW a \in Int, NEW d \in Int,
         \A i \in 1..n : v[i] = a + (i - 1) * d
  PROVE  \E D \in Nat \ {0} : math_slope(v) = <<d * D, D>>
<1>0. v \in Seq(Int) /\ Len(v) = n /\ v # <<>> OBVIOUS
<1> DEFINE t == Total(v)
           dx(i) == 2 * (i - 1) - (n - 1)
           dy(i) == n * v[i] - t
           X == [i \in 1..n |-> dx(i) * dy(i)]
           Q == [i \in 1..n |-> dx(i) * dx(i)]
<1>1. t \in Int /\ 2 * t = n * (2 * a) + n * (n - 1) * d
  <2>1. t \in Int BY <1>0, TotalType
  <2>2. 2 * t = n * (2 * a) + n * (n - 1) * d BY TotalOfSteps
  <2> QED BY <2>1, <2>2
<1>2. \A i \in 1..n : dx(i) \in Int /\ dy(i) \in Int
  BY <1>0, <1>1
<1>3. ASSUME NEW i \in 1..n PROVE 2 * dy(i) = (n * d) * dx(i)
  <2> DEFINE p == i - 1  m == n - 1
  <2>1. v[i] = a + p * d /\ p \in Int /\ m \in Int OBVIOUS
  <2>2. 2 * dy(i) = 2 * (n * (a + p * d)) - (n * (2 * a) + n * m * d)
    <3> DEFINE whole == n * (a + p * d)  twice == n * (2 * a) + n * m * d
    <3>1. whole \in Int /\ dy(i) = whole - t BY <2>1
    <3>2. t \in Int /\ 2 * t = twice BY <1>1
    <3>3. 2 * dy(i) = 2 * whole - twice
      <4>1. \A x, y \in Int : 2 * (x - y) = 2 * x - 2 * y OBVIOUS
      <4> HIDE DEF whole, twice, t, dy
      <4> QED BY <3>1, <3>2, <4>1
    <3> QED BY <3>3
  <2>3. 2 * (n * (a + p * d)) = n * (2 * a) + 2 * (n * (p * d)) OBVIOUS
  <2>4. (n * d) * (2 * p - m) = 2 * (n * (p * d)) - n * m * d OBVIOUS
  <2>5. dx(i) = 2 * p - m OBVIOUS
  <2>6. /\ n * (2 * a) \in Int /\ n * m * d \in Int /\ n * (p * d) \in Int
    OBVIOUS
  <2> HIDE DEF dy, dx, p, m, t
  <2> QED BY <2>2, <2>3, <2>4, <2>5, <2>6
<1>4. X \in [1..n -> Int] /\ Q \in [1..n -> Int] BY <1>2
<1>5. ASSUME NEW i \in 1..n PROVE 2 * X[i] = (n * d) * Q[i]
  <2>1. 2 * (dx(i) * dy(i)) = dx(i) * (2 * dy(i))
    <3>1. dx(i) \in Int /\ dy(i) \in Int BY <1>2
    <3> HIDE DEF dx, dy
    <3> QED BY <3>1
  <2>2. dx(i) * ((n * d) * dx(i)) = (n * d) * (dx(i) * dx(i))
    <3>1. dx(i) \in Int /\ n * d \in Int BY <1>2
    <3> HIDE DEF dx
    <3> QED BY <3>1
  <2> HIDE DEF dx, dy
  <2> QED BY <1>3, <2>1, <2>2
<1>6. 2 * Total(X) = (n * d) * Total(Q)
  <2> DEFINE k == 2  l == n * d
  <2>1. k \in Int /\ l \in Int OBVIOUS
  <2>2. \A i \in 1..n : k * X[i] = l * Q[i] BY <1>5
  <2> HIDE DEF X, Q, k, l
  <2>3. \A i \in 1..n : Proportional(k, X[i], l, Q[i]) BY <2>2 DEF Proportional
  <2>4. Proportional(k, Total(X), l, Total(Q))
    BY <1>4, <2>1, <2>3, TotalScales
  <2> QED BY <2>4 DEF k, l, Proportional
<1>7. Q \in [1..n -> Nat] /\ Q[1] > 0
  <2>1. ASSUME NEW x \in Int PROVE x * x \in Nat OBVIOUS
  <2>2. \A i \in 1..n : dx(i) * dx(i) \in Nat
    <3> HIDE DEF dx
    <3> QED BY <1>2, <2>1
  <2>3. Q[1] = (n - 1) * (n - 1) /\ (n - 1) * (n - 1) > 0
    OBVIOUS
  <2> QED BY <2>2, <2>3
<1>8. Total(Q) > 0
  <2> HIDE DEF Q
  <2> QED BY <1>7, TotalPositive
<1>9. math_slope(v) = <<2 * Total(X), n * Total(Q)>>
  BY <1>0 DEF math_slope, math_mean
<1>10. (n * d) * Total(Q) = d * (n * Total(Q)) /\ n * Total(Q) \in Nat \ {0}
  <2> DEFINE q == Total(Q)
  <2>1. q \in Nat \ {0}
    <3>1. Q \in Seq(Int) BY <1>4
    <3> HIDE DEF Q
    <3> QED BY <1>8, <3>1, TotalType
  <2> HIDE DEF q
  <2>2. (n * d) * q = d * (n * q) /\ n * q \in Nat \ {0} BY <2>1
  <2> QED BY <2>2 DEF q
<1> HIDE DEF X, Q
<1> QED BY <1>6, <1>9, <1>10

LEMMA RankedConstant ==
  ASSUME NEW n \in Nat, NEW v \in [1..n -> Int], NEW d \in Int, \A i \in 1..n : v[i] = d,
         NEW k \in 1..n
  PROVE  Ranked(v, k) = d
<1> DEFINE In(x) == /\ Cardinality({i \in 1..n : v[i] < x}) < k
                    /\ Cardinality({i \in 1..n : v[i] <= x}) >= k
<1>1. {i \in 1..n : v[i] < d} = {} /\ {i \in 1..n : v[i] <= d} = 1..n OBVIOUS
<1>2. Cardinality({}) = 0 /\ Cardinality(1..n) = n BY FS_EmptySet, FS_Interval
<1>3. In(d)
  <2>1. Cardinality({i \in 1..n : v[i] < d}) = 0 BY <1>1, <1>2
  <2>2. Cardinality({i \in 1..n : v[i] <= d}) = n BY <1>1, <1>2
  <2> QED BY <2>1, <2>2
<1>4. {v[i] : i \in 1..n} = {d} OBVIOUS
<1>5. Ranked(v, k) = CHOOSE x \in {d} : In(x) BY <1>4 DEF Ranked
<1> HIDE DEF In
<1> QED BY <1>3, <1>5

LEMMA MedianConstant ==
  ASSUME NEW n \in Nat \ {0}, NEW v \in [1..n -> Int], NEW d \in Int, \A i \in 1..n : v[i] = d
  PROVE  math_median(v) = 2 * d
<1> DEFINE m == IF n > MAX_SAMPLES THEN MAX_SAMPLES ELSE n
           first == SubSeq(v, 1, m)
<1>1. v \in Seq(Int) /\ Len(v) = n OBVIOUS
<1>2. m \in 1..n BY NatMathAssumption
<1>3. first \in [1..m -> Int] /\ \A i \in 1..m : first[i] = d
  <2>1. 1..m \subseteq 1..n /\ m \in Nat BY <1>2
  <2> HIDE DEF m
  <2>2. first = [i \in 1..m |-> v[1 + i - 1]] BY <1>1, <1>2, SubSeqProperties
  <2>3. \A i \in 1..m : v[1 + i - 1] = d BY <2>1
  <2> QED BY <2>2, <2>3
<1>4. \A k \in 1..m : Ranked(first, k) = d
  <2> HIDE DEF first, m
  <2> QED BY <1>2, <1>3, RankedConstant
<1>5. math_median(v) = IF m % 2 = 1 THEN 2 * Ranked(first, m \div 2 + 1)
                       ELSE Ranked(first, m \div 2) + Ranked(first, m \div 2 + 1)
  BY <1>1, <1>2 DEF math_median
<1>6. CASE m % 2 = 1
  <2>1. m \div 2 + 1 \in 1..m BY <1>2, <1>6
  <2> HIDE DEF m, first
  <2> QED BY <1>4, <1>5, <1>6, <2>1
<1>7. CASE m % 2 # 1
  <2>1. m \div 2 \in 1..m /\ m \div 2 + 1 \in 1..m BY <1>2, <1>7
  <2> HIDE DEF m, first
  <2> QED BY <1>4, <1>5, <1>7, <2>1
<1> QED BY <1>6, <1>7

LEMMA VarianceConstant ==
  ASSUME NEW n \in Nat, NEW v \in [1..n -> Int], NEW d \in Int, \A i \in 1..n : v[i] = d
  PROVE  math_variance(v)[1] = 0 /\ math_variance(v)[2] \in Nat
<1>0. v \in Seq(Int) /\ Len(v) = n OBVIOUS
<1>1. CASE n < 2 BY <1>0, <1>1 DEF math_variance
<1>2. CASE n >= 2
  <2> DEFINE away(i) == n * v[i] - Total(v)
             W == [i \in 1..n |-> away(i) * away(i)]
             Z == [i \in 0..n |-> 0]
             S == [i \in 0..n |-> i * d]
  <2>1. Total(v) = n * d
    <3>1. S \in [0..n -> Int] /\ S[0] = 0 /\ \A i \in 1..n : S[i] = S[i - 1] + v[i]
      OBVIOUS
    <3>2. S[n] = n * d OBVIOUS
    <3> HIDE DEF S
    <3> QED BY <1>0, <3>1, <3>2, TotalIsSum
  <2>2. \A i \in 1..n : away(i) = 0 BY <2>1
  <2>3. W = [i \in 1..n |-> 0]
    <3> HIDE DEF away
    <3> QED BY <2>2
  <2>4. W \in Seq(Int) /\ Len(W) = n BY <2>3
  <2>5. Z \in [0..n -> Int] /\ Z[0] = 0 /\ (\A i \in 1..n : Z[i] = Z[i - 1] + W[i]) /\ Z[n] = 0
    <3> HIDE DEF W
    <3> QED BY <2>3
  <2>6. Total(W) = 0
    <3> HIDE DEF W, Z
    <3> QED BY <2>4, <2>5, TotalIsSum
  <2>7. math_variance(v) = <<Total(W), n * n * n>>
    BY <1>0, <1>2 DEF math_variance, math_mean
  <2>8. n * n * n \in Nat OBVIOUS
  <2> HIDE DEF W
  <2> QED BY <2>6, <2>7, <2>8
<1> QED BY <1>1, <1>2

-----------------------------------------------------------------------------
(* Equal steps.                                                            *)

LEMMA StepsAreMultiples ==
  ASSUME NEW v \in Seq(Int), Len(v) >= 2, Linear(v)
  PROVE  \A i \in 1..Len(v) : v[i] = v[1] + (i - 1) * (v[2] - v[1])
<1> DEFINE n == Len(v)  d == v[2] - v[1]
           S == {k \in 0..(n - 1) : v[k + 1] = v[1] + k * d /\ (k > 0 => v[k + 1] - v[k] = d)}
<1>1. n \in Nat /\ \A i \in 1..n : v[i] \in Int OBVIOUS
<1>2. v[1] \in Int /\ v[2] \in Int /\ d \in Int BY <1>1
<1>3. 0 \in S BY <1>1, <1>2
<1>4. ASSUME NEW k \in 1..(n - 1), k - 1 \in S PROVE k \in S
  <2>1. v[k] = v[1] + (k - 1) * d BY <1>4
  <2>2. v[k + 1] - v[k] = d
    <3>1. CASE k = 1 BY <3>1
    <3>2. CASE k # 1
      <4>1. k \in 2..(n - 1) /\ k - 1 > 0 /\ (k - 1) + 1 = k BY <3>2
      <4>2. v[k] - v[k - 1] = d BY <1>4, <4>1
      <4> QED BY <4>1, <4>2 DEF Linear
    <3> QED BY <3>1, <3>2
  <2>3. v[k + 1] \in Int /\ v[k] \in Int BY <1>1
  <2>4. k * d = (k - 1) * d + d /\ (k - 1) * d \in Int
    <3> HIDE DEF d
    <3> QED BY <1>2
  <2>5. v[k + 1] = v[1] + k * d
    <3> HIDE DEF d
    <3>1. v[k] = v[1] + (k - 1) * d /\ v[k + 1] = v[k] + d BY <1>2, <2>1, <2>2, <2>3
    <3> DEFINE x == (k - 1) * d  y == k * d
    <3>2. x \in Int /\ y = x + d BY <2>4
    <3>3. v[k] = v[1] + x BY <3>1
    <3> HIDE DEF x, y
    <3>4. v[k + 1] = v[1] + y BY <1>2, <3>1, <3>2, <3>3
    <3> QED BY <3>4 DEF y
  <2> QED BY <2>2, <2>5
<1>5. n - 1 \in Nat BY <1>1
<1>6. 0..(n - 1) \subseteq S
  <2> HIDE DEF S, n
  <2> QED BY <1>3, <1>4, <1>5, BoundedInduction
<1>7. ASSUME NEW i \in 1..n PROVE v[i] = v[1] + (i - 1) * d
  <2>1. i - 1 \in 0..(n - 1) /\ (i - 1) + 1 = i BY <1>1
  <2> HIDE DEF d, n
  <2> QED BY <1>6, <2>1
<1> QED BY <1>7

\* The steps' distances, their majority's sign and what they predict.
LEMMA DirectionOfSteps ==
  ASSUME NEW v \in Seq(Int), Len(v) >= 2, NEW d \in Int,
         \A i \in 1..(Len(v) - 1) : v[i + 1] - v[i] = d
  PROVE  delta_direction(v) * Magnitude(d) = d
<1> DEFINE n    == Len(v) - 1
           up   == {i \in 1..n : v[i + 1] > v[i]}
           down == {i \in 1..n : v[i + 1] < v[i]}
<1>1. n \in Nat \ {0} /\ \A i \in 1..n : v[i] \in Int /\ v[i + 1] \in Int OBVIOUS
<1>2. Cardinality({}) = 0 /\ Cardinality(1..n) = n
  <2> HIDE DEF n
  <2> QED BY <1>1, FS_EmptySet, FS_Interval
<1>3. delta_direction(v) = IF Cardinality(down) > Cardinality(up) THEN -1 ELSE 1
  BY DEF delta_direction
<1>4. CASE d > 0
  <2>1. up = 1..n /\ down = {}
    <3>1. \A i \in 1..n : v[i + 1] > v[i] /\ ~(v[i + 1] < v[i]) BY <1>1, <1>4
    <3> HIDE DEF n
    <3> QED BY <3>1
  <2> HIDE DEF n, up, down
  <2>2. ~(Cardinality(down) > Cardinality(up)) BY <1>1, <1>2, <2>1
  <2>3. delta_direction(v) = 1 BY <1>3, <2>2
  <2> QED BY <1>4, <2>3 DEF Magnitude
<1>5. CASE d < 0
  <2>1. up = {} /\ down = 1..n
    <3>1. \A i \in 1..n : ~(v[i + 1] > v[i]) /\ v[i + 1] < v[i] BY <1>1, <1>5
    <3> HIDE DEF n
    <3> QED BY <3>1
  <2> HIDE DEF n, up, down
  <2>2. Cardinality(down) > Cardinality(up) BY <1>1, <1>2, <2>1
  <2>3. delta_direction(v) = -1 BY <1>3, <2>2
  <2> QED BY <1>5, <2>3 DEF Magnitude
<1>6. CASE d = 0
  <2>1. delta_direction(v) \in Int
    <3> HIDE DEF up, down
    <3> QED BY <1>3
  <2>2. Magnitude(d) = 0 BY <1>6 DEF Magnitude
  <2> QED BY <1>6, <2>1, <2>2
<1> QED BY <1>4, <1>5, <1>6

LEMMA StepsAreRecognized ==
  ASSUME NEW v \in Seq(Int), Len(v) \in 2..MAX_SAMPLES, NEW d \in Int,
         \A i \in 1..(Len(v) - 1) : v[i + 1] - v[i] = d
  PROVE  /\ classify_rule(v, cfg) \in {"sequential", "fixed_step"}
         /\ predict_from_median(v) = Clamped(v[Len(v)] + d)
<1> DEFINE n == Len(v) - 1
           deltas == compute_deltas(v)
           m == Magnitude(d)
<1>1. n \in Nat \ {0} /\ \A i \in 1..n : v[i] \in Int /\ v[i + 1] \in Int
  BY NatMathAssumption
<1>2. m \in Nat BY DEF Magnitude
<1>3. deltas \in [1..n -> Int] /\ \A i \in 1..n : deltas[i] = m
  <2>1. deltas = [i \in 1..n |-> Magnitude(v[i + 1] - v[i])] BY DEF compute_deltas
  <2>2. \A i \in 1..n : v[i + 1] - v[i] = d OBVIOUS
  <2>3. \A i \in 1..n : Magnitude(v[i + 1] - v[i]) = m BY <2>2
  <2>4. deltas = [i \in 1..n |-> m]
    <3> HIDE DEF m, deltas
    <3> QED BY <2>1, <2>3
  <2> HIDE DEF m, deltas, n
  <2> QED BY <1>2, <2>4
<1>4. math_median(deltas) = 2 * m
  <2> HIDE DEF n, m, deltas
  <2>1. m \in Int BY <1>2
  <2> QED BY <1>1, <1>3, <2>1, MedianConstant
<1>5. math_variance(deltas)[1] = 0 /\ math_variance(deltas)[2] \in Nat
  <2> HIDE DEF n, m, deltas
  <2>1. m \in Int /\ n \in Nat BY <1>1, <1>2
  <2> QED BY <1>3, <2>1, VarianceConstant
<1>6. cfg.variance \in Nat /\ cfg.tolerance \in Nat BY ApiAssumption
<1>7. ~(math_variance(deltas)[1] > cfg.variance * math_variance(deltas)[2])
  <2> DEFINE x == math_variance(deltas)[2]  y == cfg.variance
  <2>1. x \in Nat /\ y \in Nat BY <1>5, <1>6
  <2> HIDE DEF x, y
  <2>2. ~(0 > y * x) BY <2>1
  <2> QED BY <1>5, <2>2 DEF x, y
<1>8. slope_is_near_integer(math_median(deltas), cfg.tolerance)
  <2>1. (2 * m) % 2 = 0 BY <1>2
  <2> HIDE DEF m, deltas
  <2> QED BY <1>4, <1>6, <2>1 DEF slope_is_near_integer
<1>9. Rounded(math_median(deltas), 2) = m
  <2> DEFINE D == 2
  <2>1. D \in Nat \ {0} /\ m \in Int /\ m * D = 2 * m BY <1>2
  <2>2. Rounded(m * D, D) = m
    <3> HIDE DEF D, m
    <3> QED BY <2>1, RoundedWhole
  <2> QED BY <1>4, <2>1, <2>2
<1>10. classify_rule(v, cfg) \in {"sequential", "fixed_step"}
  <2>1. classify_rule(v, cfg) = IF m = 1 THEN "sequential" ELSE "fixed_step"
    <3> HIDE DEF m
    <3> QED BY <1>7, <1>8, <1>9 DEF classify_rule
  <2> QED BY <2>1
<1>11. predict_from_median(v) = Clamped(v[Len(v)] + d)
  <2>1. delta_direction(v) * m = d BY DirectionOfSteps, NatMathAssumption
  <2> HIDE DEF m
  <2> QED BY <1>9, <2>1 DEF predict_from_median
<1> QED BY <1>10, <1>11

-----------------------------------------------------------------------------
(* The ports of a session.                                                 *)

PortsInv ==
  tool = "ports" =>
    /\ given \in Seq(1..PORT_MAX) /\ Len(given) <= PortsMax
    /\ given # <<>> =>
         /\ held = classify_port_pattern(given, cfg)
         /\ told = [next |-> math_predict_next(given), rising |-> math_is_monotonic(given)]

LEMMA NextPorts == PortsInv /\ [SessionNext]_sessionVars => PortsInv'
<1> SUFFICES ASSUME PortsInv, [SessionNext]_sessionVars PROVE PortsInv' OBVIOUS
<1>1. CASE Observe
  <2>1. PICK port \in 1..PORT_MAX : given' = Append(given, port) BY <1>1 DEF Observe
  <2>2. /\ held' = classify_port_pattern(given', cfg)
        /\ told' = [next |-> math_predict_next(given'), rising |-> math_is_monotonic(given')]
        /\ tool = "ports" /\ Len(given) < PortsMax
    BY <1>1 DEF Observe
  <2>3. given \in Seq(1..PORT_MAX) BY <2>2 DEF PortsInv
  <2>4. given' \in Seq(1..PORT_MAX) /\ Len(given') = Len(given) + 1 BY <2>1, <2>3
  <2>5. Len(given') <= PortsMax BY <2>2, <2>3, <2>4, ApiAssumption, NatMathAssumption
  <2> QED BY <2>2, <2>4, <2>5 DEF PortsInv
<1>2. CASE Write \/ Read \/ Compare \/ Push \/ Pop \/ Clear \/ Put \/ Rewind \/ Get \/ Prepare
  BY <1>2, OneTool DEF PortsInv
<1>3. CASE UNCHANGED sessionVars BY <1>3 DEF sessionVars, PortsInv
<1> QED BY <1>1, <1>2, <1>3 DEF SessionNext

LEMMA PortsPredicted ==
  ASSUME NEW v \in Seq(1..PORT_MAX), Len(v) \in 2..MAX_SAMPLES, Linear(v)
  PROVE  /\ classify_rule(v, cfg) \in {"sequential", "fixed_step"}
         /\ predict_from_median(v) = Clamped(2 * v[Len(v)] - v[Len(v) - 1])
         /\ math_predict_next(v) = predict_from_median(v)
<1> DEFINE n == Len(v)  a == v[1]  d == v[2] - v[1]
<1>1. /\ v \in Seq(Int) /\ v \in [1..n -> Int] /\ n \in Nat /\ n >= 2 /\ v # <<>>
      /\ a \in Int /\ d \in Int /\ \A i \in 1..n : v[i] \in Int
  BY NatMathAssumption
<1>2. \A i \in 1..n : v[i] = a + (i - 1) * d
  <2>1. \A i \in 1..Len(v) : v[i] = v[1] + (i - 1) * (v[2] - v[1])
    BY <1>1, StepsAreMultiples
  <2> QED BY <2>1
<1>3. \A i \in 1..(n - 1) : v[i + 1] - v[i] = d
  <2> SUFFICES ASSUME NEW i \in 1..(n - 1) PROVE v[i + 1] - v[i] = d OBVIOUS
  <2>1. v[i + 1] = a + i * d /\ v[i] = a + (i - 1) * d
    <3>1. i + 1 \in 1..n /\ i \in 1..n /\ (i + 1) - 1 = i BY <1>1
    <3> HIDE DEF a, d
    <3> QED BY <1>2, <3>1
  <2>2. i * d = (i - 1) * d + d /\ (i - 1) * d \in Int
    <3> HIDE DEF d
    <3> QED BY <1>1
  <2> HIDE DEF a, d
  <2> QED BY <1>1, <2>1, <2>2
<1>4. /\ classify_rule(v, cfg) \in {"sequential", "fixed_step"}
      /\ predict_from_median(v) = Clamped(v[n] + d)
  <2> HIDE DEF d
  <2> QED BY <1>1, <1>3, StepsAreRecognized
<1>5. v[n] + d = 2 * v[n] - v[n - 1]
  <2>1. n - 1 \in 1..(n - 1) /\ (n - 1) + 1 = n /\ n \in 1..n /\ n - 1 \in 1..n BY <1>1
  <2>2. v[n] - v[n - 1] = d BY <1>3, <2>1
  <2> HIDE DEF d
  <2> QED BY <1>1, <2>1, <2>2
<1>6. math_predict_next(v) = Clamped(v[n] + d)
  <2>1. PICK D \in Nat \ {0} : math_slope(v) = <<d * D, D>>
    <3> HIDE DEF a, d
    <3> QED BY <1>1, <1>2, SlopeOfSteps
  <2>2. Rounded(d * D, D) = d
    <3> HIDE DEF d
    <3> QED BY <1>1, RoundedWhole
  <2> HIDE DEF d
  <2> QED BY <1>1, <2>1, <2>2 DEF math_predict_next
<1> QED BY <1>4, <1>5, <1>6

(* However many samples: a NAT that gives ports at equal steps, up or down, *)
(* is called regular, and its next port is predicted alike by the median of *)
(* the steps and by the least squares (classify.c: classify_rule,           *)
(* predict_from_median; math.c: xury_math_predict_next).                    *)
THEOREM EqualStepsArePredicted == Session => []LinearIsPredicted
<1>1. SessionInit => PortsInv BY ApiAssumption DEF SessionInit, PortsInv
<1>2. PortsInv => LinearIsPredicted
  <2> SUFFICES ASSUME PortsInv, tool = "ports", Len(given) >= cfg.min_samples, Linear(given)
               PROVE  /\ held.pattern \in {"sequential", "fixed_step"}
                      /\ held.predicted = Clamped(2 * given[Len(given)] - given[Len(given) - 1])
                      /\ held.predicted = told.next
    BY DEF LinearIsPredicted
  <2>1. given \in Seq(1..PORT_MAX) /\ Len(given) <= PortsMax BY DEF PortsInv
  <2>2. cfg.min_samples \in Nat \ {0, 1} BY ApiAssumption
  <2>3. Len(given) \in 2..MAX_SAMPLES /\ given # <<>>
    BY <2>1, <2>2, ApiAssumption, NatMathAssumption
  <2>4. /\ held = classify_port_pattern(given, cfg)
        /\ told = [next |-> math_predict_next(given), rising |-> math_is_monotonic(given)]
    BY <2>3 DEF PortsInv
  <2>5. ~(Len(given) < cfg.min_samples) BY <2>1, <2>2
  <2>6. /\ classify_rule(given, cfg) \in {"sequential", "fixed_step"}
        /\ predict_from_median(given) = Clamped(2 * given[Len(given)] - given[Len(given) - 1])
        /\ math_predict_next(given) = predict_from_median(given)
    BY <2>1, <2>3, PortsPredicted
  <2>7. held.pattern = classify_rule(given, cfg) /\ held.predicted = predict_from_median(given)
    BY <2>4, <2>5, <2>6 DEF classify_port_pattern
  <2> QED BY <2>4, <2>6, <2>7
<1> QED BY <1>1, <1>2, NextPorts, PTL DEF Session
-----------------------------------------------------------------------------
(* Addresses as text: what is formatted is read back.                      *)

\* Only zero has a leading zero.
LEMMA FirstDigit ==
  ASSUME NEW n \in Nat, Len(Digits(n, 10)) > 1
  PROVE  Digits(n, 10)[1] # 48
<1> DEFINE b == 10  s == Digits(n, b)
<1>0. b \in Bases BY DEF Bases
<1> HIDE DEF b
<1>1. PICK w, q : DigitsOf(n, b, w, q) BY <1>0, DigitsAre
<1>2. /\ w \in Nat \ {0} /\ q \in [0..w -> Nat] /\ q[w] = 0 /\ (w > 1 => q[w - 1] # 0)
      /\ \A k \in 1..w : q[k] = q[k - 1] \div b
      /\ s = [i \in 1..w |-> Digit(q[w - i] % b)] /\ Len(s) = w
  BY <1>0, <1>1, DigitsUnfold
<1>3. w > 1 BY <1>2 DEF s, b
<1> DEFINE x == q[w - 1]
<1>4. x \in Nat /\ x # 0 /\ s[1] = Digit(x % b) /\ 0 = x \div b BY <1>2, <1>3
<1> HIDE DEF x, s
<1>5. x = b * (x \div b) + (x % b) /\ x % b \in 0..(b - 1) BY <1>0, <1>4, Quotients
<1>6. x % b \in 1..9
  <2> DEFINE r == x % b
  <2>1. x = b * 0 + r /\ r \in 0..(b - 1) BY <1>4, <1>5
  <2> HIDE DEF r
  <2>2. r \in 1..9 BY <1>4, <2>1 DEF b
  <2> QED BY <2>2 DEF r
<1>7. Digit(x % b) # 48
  <2> DEFINE r == x % b
  <2>1. r \in 1..9 BY <1>6
  <2> HIDE DEF r
  <2>2. Digit(r) = 48 + r BY <2>1 DEF Digit
  <2>3. Digit(r) # 48 BY <2>1, <2>2
  <2> QED BY <2>3 DEF r
<1> QED BY <1>4, <1>7 DEF s, b

\* An octet, and two of them.
Octets == 0..255
Word(hi, lo) == hi * 256 + lo

\* What an address is in the code: four octets, or sixteen, which are pairs.
Addresses4 == [1..4 -> Octets]
Addresses6 == [1..16 -> Octets]
High(addr, k) == addr[2 * k - 1]
Low(addr, k)  == addr[2 * k]

LEMMA OctetIs == ASSUME NEW x \in Octets PROVE x \in 0..255 /\ x \in Nat /\ x # Refused
BY DEF Octets, Refused

LEMMA OctetOf ==
  ASSUME NEW addr \in Addresses4
  PROVE  /\ \A i \in 1..4 : addr[i] \in 0..255 /\ addr[i] \in Nat /\ addr[i] # Refused
         /\ DOMAIN addr = 1..4 /\ addr = [i \in 1..4 |-> addr[i]] /\ addr # <<>>
<1>1. DOMAIN addr = 1..4 /\ addr = [i \in 1..4 |-> addr[i]] /\ \A i \in 1..4 : addr[i] \in Octets
  BY DEF Addresses4
<1>2. DOMAIN <<>> = {} /\ 1 \in 1..4 OBVIOUS
<1>3. addr # <<>> BY <1>1, <1>2
<1> QED BY <1>1, <1>3, OctetIs

LEMMA WordIs ==
  ASSUME NEW hi \in Octets, NEW lo \in Octets
  PROVE  /\ Word(hi, lo) \in Nat /\ Word(hi, lo) \div 256 = hi /\ Word(hi, lo) % 256 = lo
         /\ Len(Digits(Word(hi, lo), 16)) <= 4
<1>1. hi \in 0..255 /\ lo \in 0..255 BY DEF Octets
<1> DEFINE w == Word(hi, lo)
<1>2. w = hi * 256 + lo BY DEF Word
<1>3. Len(Digits(w, 16)) <= 4
  <2>1. Len(Digits(hi * 256 + lo, 16)) <= 4 BY <1>1, GroupDigits, ZenonT(30)
  <2> HIDE DEF w
  <2> QED BY <1>2, <2>1, SMTT(20)
<1> HIDE DEF w
<1>4. w \in Nat BY <1>1, <1>2
<1>5. w \div 256 = hi BY <1>1, <1>2, SMTT(20)
<1>6. w % 256 = lo BY <1>1, <1>2, SMTT(20)
<1> QED BY <1>3, <1>4, <1>5, <1>6 DEF w

LEMMA OctetOfDigits == ASSUME NEW x \in 0..255 PROVE ipv4_octet(Digits(x, 10)) = x
<1> DEFINE t == Digits(x, 10)
<1>1. t \in Seq(Nat) /\ t # <<>>
  <2> DEFINE b == 10
  <2>1. x \in Nat /\ b \in Bases BY DEF Bases
  <2> HIDE DEF b
  <2>2. Digits(x, b) \in Seq(Nat) /\ Digits(x, b) # <<>> BY <2>1, DigitsText
  <2> QED BY <2>2 DEF b
<1>2. ~(Len(t) > 1 /\ t[1] = 48)
  <2>1. x \in Nat OBVIOUS
  <2> QED BY <2>1, FirstDigit
<1>3. Unsigned(t, 255) = x
  <2> DEFINE m == 255
  <2>1. m \in Nat /\ x \in 0..m OBVIOUS
  <2> HIDE DEF m
  <2>2. Unsigned(Digits(x, 10), m) = x BY <2>1, UnsignedOfDigits
  <2> QED BY <2>2 DEF m
<1> HIDE DEF t
<1>4. ipv4_octet(t) = Unsigned(t, 255) BY <1>1, <1>2 DEF ipv4_octet
<1> QED BY <1>3, <1>4 DEF t

\* The digits of a group are read as the group.
LEMMA GroupOfDigits ==
  ASSUME NEW n \in Nat, Len(Digits(n, 16)) <= 4
  PROVE  ipv6_group(Digits(n, 16)) = n
<1> DEFINE b == 16  t == Digits(n, b)
<1>0. b \in Bases BY DEF Bases
<1>00. Len(t) <= 4 OBVIOUS
<1> HIDE DEF b
<1>1. PICK w, q : DigitsOf(n, b, w, q) BY <1>0, DigitsAre
<1>2. /\ w \in Nat \ {0} /\ q \in [0..w -> Nat] /\ q[0] = n /\ q[w] = 0
      /\ \A k \in 1..w : q[k] = q[k - 1] \div b
      /\ t = [i \in 1..w |-> Digit(q[w - i] % b)] /\ Len(t) = w
  BY <1>0, <1>1, DigitsUnfold
<1> HIDE DEF t
<1>3. ASSUME NEW k \in 1..w
      PROVE  q[k - 1] = 16 * q[k] + (q[k - 1] % b) /\ q[k - 1] % b \in 0..15
  <2> DEFINE x == q[k - 1]
  <2>1. x \in Nat /\ q[k] = x \div b BY <1>2
  <2> HIDE DEF x
  <2>2. x = b * (x \div b) + (x % b) /\ x % b \in 0..(b - 1) BY <1>0, <2>1, Quotients
  <2> QED BY <2>1, <2>2 DEF x, b
<1>4. ASSUME NEW i \in 1..w
      PROVE  /\ hex_value(t[i]) \in 0..15 /\ q[w - i] = q[w - (i - 1)] * 16 + hex_value(t[i])
  <2> DEFINE k == w - i + 1
             x == q[k - 1]
             y == q[k]
             r == x % b
  <2>1. k \in 1..w /\ k - 1 = w - i /\ k = w - (i - 1) BY <1>2
  <2>2. t[i] = Digit(r) /\ y \in Nat BY <1>2, <2>1
  <2>3. x = 16 * y + r /\ r \in 0..15 BY <1>3, <2>1
  <2>4. q[w - i] = x /\ q[w - (i - 1)] = y BY <2>1
  <2> HIDE DEF x, y, r
  <2>5. hex_value(t[i]) = r BY <2>2, <2>3, DigitFacts
  <2>6. x = y * 16 + r BY <2>2, <2>3
  <2> QED BY <2>3, <2>4, <2>5, <2>6
<1>5. Len(t) \in 1..4 /\ \A i \in 1..Len(t) : ~(hex_value(t[i]) < 0)
  <2>1. Len(t) \in 1..4 BY <1>00, <1>2
  <2>2. \A v \in 0..15 : ~(v < 0) OBVIOUS
  <2> QED BY <1>2, <1>4, <2>1, <2>2
<1> DEFINE At(h, i) == IF i = 0 THEN 0 ELSE h[i - 1] * 16 + hex_value(t[i])
           Counts(h) == h = [i \in 0..Len(t) |-> At(h, i)]
           value == CHOOSE h : Counts(h)
           g == [i \in 0..w |-> q[w - i]]
<1>6. ipv6_group(t) = value[Len(t)] BY <1>5 DEF ipv6_group
<1>7. g[0] = 0 /\ g[w] = n /\ \A i \in 1..w : g[i] = g[i - 1] * 16 + hex_value(t[i])
  <2>1. w - 0 = w /\ w - w = 0 /\ 0 \in 0..w /\ w \in 0..w BY <1>2
  <2>2. ASSUME NEW i \in 1..w PROVE g[i] = g[i - 1] * 16 + hex_value(t[i])
    <3>1. i \in 0..w /\ i - 1 \in 0..w BY <1>2
    <3>2. g[i] = q[w - i] /\ g[i - 1] = q[w - (i - 1)] BY <3>1
    <3> QED BY <1>4, <3>2
  <2> QED BY <1>2, <2>1, <2>2
<1>8. Counts(g)
  <2>1. \A i \in 0..w : g[i] = At(g, i)
    <3> HIDE DEF g
    <3> QED BY <1>2, <1>7
  <2>2. Len(t) = w BY <1>2
  <2> HIDE DEF At
  <2> QED BY <2>1, <2>2
<1>9. Counts(value)
  <2> HIDE DEF Counts
  <2> QED BY <1>8
<1> HIDE DEF value, g
<1>10. \A i \in 0..w : value[i] = At(value, i)
  <2> HIDE DEF At
  <2> QED BY <1>2, <1>9
<1> DEFINE S == {i \in 0..w : value[i] = g[i]}
<1>11. 0 \in S
  <2>1. 0 \in 0..w BY <1>2
  <2>2. value[0] = 0 BY <1>10, <2>1
  <2> QED BY <1>7, <2>1, <2>2
<1>12. ASSUME NEW i \in 1..w, i - 1 \in S PROVE i \in S
  <2>1. i \in 0..w /\ i # 0 BY <1>2
  <2>2. value[i] = value[i - 1] * 16 + hex_value(t[i]) BY <1>10, <2>1
  <2> QED BY <1>7, <1>12, <2>1, <2>2
<1>13. 0..w \subseteq S
  <2> HIDE DEF S
  <2> QED BY <1>2, <1>11, <1>12, BoundedInduction
<1>14. w \in 0..w BY <1>2
<1>15. value[w] = n BY <1>7, <1>13, <1>14
<1> QED BY <1>2, <1>6, <1>15 DEF t, b

\* Where there is room the position is where the text ends.
Output(t) == [at |-> Len(t), text |-> t]
Outputs == [at : Nat, text : Seq(Nat)]

LEMMA OutputTypes ==
  ASSUME NEW out \in Outputs, NEW buflen \in Nat, NEW d \in Seq(Nat), NEW c \in Nat
  PROVE  /\ Number(out, buflen, d) \in Outputs /\ Separator(out, buflen, c) \in Outputs
<1>1. out.at \in Nat /\ out.text \in Seq(Nat) BY DEF Outputs
<1>2. Number(out, buflen, d) \in Outputs
  <2> DEFINE n == Least(Len(d), Room(out, buflen))
  <2>1. n \in 0..Len(d) BY <1>1 DEF Least, Room, Most
  <2>2. SubSeq(d, 1, n) \in Seq(Nat) BY <2>1
  <2>3. Number(out, buflen, d) = [at |-> out.at + n, text |-> out.text \o SubSeq(d, 1, n)]
    BY DEF Number
  <2> HIDE DEF n
  <2>4. out.at + n \in Nat /\ out.text \o SubSeq(d, 1, n) \in Seq(Nat) BY <1>1, <2>1, <2>2
  <2> QED BY <2>3, <2>4 DEF Outputs
<1>3. Separator(out, buflen, c) \in Outputs
  <2>1. <<c>> \in Seq(Nat) OBVIOUS
  <2>2. out.text \o <<c>> \in Seq(Nat) /\ out.at + 1 \in Nat BY <1>1, <2>1
  <2> QED BY <1>1, <2>2 DEF Outputs, Separator
<1> QED BY <1>2, <1>3

LEMMA NumberFits ==
  ASSUME NEW t \in Seq(Nat), NEW d \in Seq(Nat), NEW buflen \in Nat, Len(t) + Len(d) < buflen
  PROVE  Number(Output(t), buflen, d) = Output(t \o d)
<1> DEFINE out == Output(t)
<1>1. out.at = Len(t) /\ out.text = t BY DEF Output
<1>2. Len(t) \in Nat /\ Len(d) \in Nat /\ Len(t \o d) = Len(t) + Len(d) OBVIOUS
<1> HIDE DEF out
<1>3. Room(out, buflen) >= Len(d) /\ Room(out, buflen) \in Nat BY <1>1, <1>2 DEF Room, Most
<1>4. Least(Len(d), Room(out, buflen)) = Len(d) BY <1>2, <1>3 DEF Least
<1>5. SubSeq(d, 1, Len(d)) = d BY SubSeqFull
<1>6. Number(out, buflen, d) = [at |-> Len(t) + Len(d), text |-> t \o d]
  BY <1>1, <1>4, <1>5 DEF Number
<1> QED BY <1>2, <1>6 DEF Output, out

LEMMA SeparatorFits ==
  ASSUME NEW t \in Seq(Nat), NEW c \in Nat, NEW buflen \in Nat, Len(t) + 1 < buflen
  PROVE  Separator(Output(t), buflen, c) = Output(t \o <<c>>)
<1> DEFINE out == Output(t)  e == <<c>>
<1>1. out.at = Len(t) /\ out.text = t BY DEF Output
<1>2. e \in Seq(Nat) /\ Len(e) = 1 /\ Len(t) \in Nat OBVIOUS
<1> HIDE DEF out, e
<1>3. Len(t \o e) = Len(t) + 1
  <2>1. Len(t \o e) = Len(t) + Len(e) BY <1>2, JoinedTwo
  <2> QED BY <1>2, <2>1
<1>4. Room(out, buflen) > 0 BY <1>1, <1>2 DEF Room, Most
<1>5. Separator(out, buflen, c) = [at |-> Len(t) + 1, text |-> t \o e]
  BY <1>1, <1>4 DEF Separator, e
<1> QED BY <1>3, <1>5 DEF Output, out, e

\* The steps of the IPv4 formatter.
Octet4(addr, buflen, out, i) ==
  Number(IF i = 1 THEN out ELSE Separator(out, buflen, DOT), buflen, Digits(addr[i], 10))

LEMMA V4Steps ==
  ASSUME NEW addr \in Addresses4, NEW buflen \in Nat
  PROVE  \E upto : /\ ipv4_format(addr, buflen) = upto[4] /\ upto[0] = Empty
                   /\ \A i \in 1..4 : upto[i] = Octet4(addr, buflen, upto[i - 1], i)
<1> DEFINE At(h, i) == IF i = 0 THEN Empty ELSE Octet4(addr, buflen, h[i - 1], i)
           Counts(h) == h = [i \in 0..4 |-> At(h, i)]
           upto == CHOOSE h : Counts(h)
<1>1. ipv4_format(addr, buflen) = upto[4] BY DEF ipv4_format, Octet4
<1> DEFINE n == 4
           step == [i \in 1..n |-> [out \in Outputs |-> Octet4(addr, buflen, out, i)]]
<1>2. n \in Nat /\ Empty \in Outputs /\ DOT \in Nat BY DEF Empty, Outputs, DOT
<1>3. \A i \in 1..n, out \in Outputs : Octet4(addr, buflen, out, i) \in Outputs
  <2> TAKE i \in 1..n, out \in Outputs
  <2> DEFINE d == Digits(addr[i], 10)  x == IF i = 1 THEN out ELSE Separator(out, buflen, DOT)
  <2>1. d \in Seq(Nat)
    <3> DEFINE b == 10  v == addr[i]
    <3>1. b \in Bases /\ v \in Nat BY OctetOf DEF Bases
    <3> HIDE DEF b, v
    <3>2. Digits(v, b) \in Seq(Nat) BY <3>1, DigitsText
    <3> QED BY <3>2 DEF b, v
  <2>2. x \in Outputs
    <3>1. Separator(out, buflen, DOT) \in Outputs BY <1>2, <2>1, OutputTypes
    <3> QED BY <3>1
  <2>3. Octet4(addr, buflen, out, i) = Number(x, buflen, d) BY DEF Octet4
  <2> HIDE DEF x, d
  <2>4. Number(x, buflen, d) \in Outputs BY <1>2, <2>1, <2>2, OutputTypes
  <2> QED BY <2>3, <2>4
<1>4. step \in Steps(n, Outputs) BY <1>3 DEF Steps
<1> HIDE DEF step
<1>5. PICK g : Solution(n, Outputs, Empty, step, g)
  <2> HIDE DEF n
  <2> QED BY <1>2, <1>4, Recursion
<1>6. /\ g \in [0..n -> Outputs] /\ g[0] = Empty
      /\ \A i \in 1..n : g[i] = Octet4(addr, buflen, g[i - 1], i)
  <2>1. g \in [0..n -> Outputs] /\ g[0] = Empty /\ \A i \in 1..n : g[i] = step[i][g[i - 1]]
    BY <1>5 DEF Solution
  <2>2. ASSUME NEW i \in 1..n PROVE g[i] = Octet4(addr, buflen, g[i - 1], i)
    <3>1. g[i - 1] \in Outputs BY <2>1
    <3> QED BY <2>1, <3>1 DEF step
  <2> QED BY <2>1, <2>2
<1>7. Counts(g)
  <2>1. \A i \in 0..n : g[i] = At(g, i) BY <1>6
  <2>2. g = [i \in 0..n |-> At(g, i)]
    <3> HIDE DEF At, n
    <3> QED BY <1>6, <2>1
  <2> QED BY <2>2
<1>8. Counts(upto)
  <2> HIDE DEF Counts
  <2> QED BY <1>7
<1> HIDE DEF upto
<1>9. \A i \in 0..4 : upto[i] = At(upto, i)
  <2> HIDE DEF At
  <2> QED BY <1>8
<1>10. upto[0] = Empty /\ \A i \in 1..4 : upto[i] = Octet4(addr, buflen, upto[i - 1], i)
  BY <1>9
<1> QED BY <1>1, <1>10

\* So far the text of an IPv4 address is that many octets.
Written4(addr, i, out) ==
  \E t \in Seq(Nat) :
    /\ out = Output(t) /\ Len(t) <= 4 * i
    /\ i > 0 => /\ Len(Fields(t, DOT)) = i
                /\ \A j \in 1..i : Fields(t, DOT)[j] = Digits(addr[j], 10)

LEMMA V4Step ==
  ASSUME NEW addr \in Addresses4, NEW buflen \in Nat, buflen >= 46,
         NEW i \in 1..4, NEW out, Written4(addr, i - 1, out)
  PROVE  Written4(addr, i, Octet4(addr, buflen, out, i))
<1> DEFINE d == Digits(addr[i], 10)
<1>1. d \in Seq(Nat) /\ Len(d) <= 3 /\ Len(d) \in Nat /\ Free(d, DOT)
  <2> DEFINE v == addr[i]  b == 10
  <2>1. v \in 0..255 /\ v \in Nat /\ b \in Bases BY OctetOf DEF Bases
  <2> HIDE DEF v, b
  <2>2. Digits(v, b) \in Seq(Nat) /\ \A k \in 1..Len(Digits(v, b)) : Digits(v, b)[k] \in 48..57 \cup 97..102
    BY <2>1, DigitsText
  <2>3. Len(Digits(v, 10)) <= 3 BY <2>1, ByteDigits
  <2>4. \A c \in 48..57 \cup 97..102 : c # DOT BY DEF DOT
  <2>5. Free(Digits(v, b), DOT) BY <2>2, <2>4 DEF Free
  <2>6. Len(Digits(v, b)) \in Nat BY <2>2
  <2> QED BY <2>2, <2>3, <2>5, <2>6 DEF v, b
<1>2. PICK t \in Seq(Nat) :
        /\ out = Output(t) /\ Len(t) <= 4 * (i - 1)
        /\ i - 1 > 0 => /\ Len(Fields(t, DOT)) = i - 1
                        /\ \A j \in 1..(i - 1) : Fields(t, DOT)[j] = Digits(addr[j], 10)
  BY DEF Written4
<1>3. Octet4(addr, buflen, out, i) = Number(IF i = 1 THEN out ELSE Separator(out, buflen, DOT), buflen, d)
  BY DEF Octet4
<1>4. DOT \in Nat /\ Len(t) \in Nat BY DEF DOT
<1> HIDE DEF d
<1>5. CASE i = 1
  <2>1. Len(t) = 0 /\ t = <<>> BY <1>2, <1>4, <1>5
  <2>2. Number(out, buflen, d) = Output(t \o d)
    <3>1. Len(t) + Len(d) < buflen BY <1>1, <2>1
    <3> QED BY <1>1, <1>2, <3>1, NumberFits
  <2>3. t \o d = d BY <1>1, <2>1, ConcatEmptySeq
  <2>4. Fields(d, DOT) = <<d>> BY <1>1, FirstField
  <2>5. Len(Fields(d, DOT)) = 1 /\ Fields(d, DOT)[1] = d BY <2>4
  <2>6. Octet4(addr, buflen, out, i) = Output(d) BY <1>3, <1>5, <2>2, <2>3
  <2>7. \A j \in 1..1 : Fields(d, DOT)[j] = Digits(addr[j], 10)
    <3>1. \A j \in 1..1 : j = 1 OBVIOUS
    <3> QED BY <1>5, <2>5, <3>1 DEF d
  <2>8. Len(d) <= 4 * 1 BY <1>1
  <2>9. Written4(addr, 1, Output(d)) BY <1>1, <2>5, <2>7, <2>8 DEF Written4
  <2> QED BY <1>5, <2>6, <2>9
<1>6. CASE i # 1
  <2> DEFINE e == <<DOT>>  u == t \o e  r == t \o e \o d
  <2>1. e \in Seq(Nat) /\ Len(e) = 1 BY <1>4
  <2>2. u \in Seq(Nat) /\ Len(u) = Len(t) + 1 /\ r \in Seq(Nat) /\ Len(r) = Len(t) + 1 + Len(d)
    <3>1. u \in Seq(Nat) /\ Len(u) = Len(t) + Len(e)
      <4> HIDE DEF e
      <4> QED BY <2>1, JoinedTwo
    <3> HIDE DEF u
    <3>2. u \o d \in Seq(Nat) /\ Len(u \o d) = Len(u) + Len(d) BY <1>1, <3>1, JoinedTwo
    <3>3. r = u \o d BY DEF u
    <3> HIDE DEF r
    <3> QED BY <2>1, <3>1, <3>2, <3>3
  <2>3. Separator(out, buflen, DOT) = Output(u)
    <3>1. Len(t) + 1 < buflen BY <1>2, <1>4
    <3> QED BY <1>2, <1>4, <3>1, SeparatorFits
  <2>4. Number(Output(u), buflen, d) = Output(u \o d)
    <3>1. Len(u) + Len(d) < buflen BY <1>1, <1>2, <1>4, <2>2
    <3> HIDE DEF u
    <3> QED BY <1>1, <2>2, <3>1, NumberFits
  <2>5. Octet4(addr, buflen, out, i) = Output(r) BY <1>3, <1>6, <2>3, <2>4
  <2> DEFINE F == Fields(t, DOT)  H == Fields(r, DOT)
  <2>6. H = Append(F, d) BY <1>1, <1>4, OneMoreField
  <2>7. F \in Seq(Seq(Nat)) BY FieldsType DEF FieldLists
  <2>8. Len(F) = i - 1 /\ \A j \in 1..(i - 1) : F[j] = Digits(addr[j], 10) BY <1>2, <1>6
  <2> HIDE DEF F, H
  <2>9. Len(H) = i /\ H[i] = d /\ \A j \in 1..(i - 1) : H[j] = F[j] BY <1>1, <2>6, <2>7, <2>8
  <2>10. \A j \in 1..i : H[j] = Digits(addr[j], 10)
    <3>1. \A j \in 1..i : j \in 1..(i - 1) \/ j = i OBVIOUS
    <3> QED BY <2>8, <2>9, <3>1 DEF d
  <2>11. Len(r) <= 4 * i BY <1>1, <1>2, <1>4, <2>2
  <2> HIDE DEF r
  <2>12. Written4(addr, i, Output(r)) BY <2>2, <2>9, <2>10, <2>11 DEF Written4, H
  <2> QED BY <2>5, <2>12
<1> QED BY <1>5, <1>6

\* An IPv4 address is read back from its text.
LEMMA V4IsItself ==
  ASSUME NEW addr \in Addresses4, NEW buflen \in Nat, buflen >= 46
  PROVE  \E t \in Seq(Nat) : /\ ipv4_format(addr, buflen) = Output(t) /\ Len(t) + 1 <= buflen
                             /\ parse_ip(t) = addr
<1>1. PICK upto : /\ ipv4_format(addr, buflen) = upto[4] /\ upto[0] = Empty
                  /\ \A i \in 1..4 : upto[i] = Octet4(addr, buflen, upto[i - 1], i)
  BY V4Steps
<1> DEFINE n == 4
           S == {i \in 0..n : Written4(addr, i, upto[i])}
<1>2. 0 \in S
  <2> DEFINE e == <<>>
  <2>1. e \in Seq(Nat) /\ Len(e) = 0 /\ Empty = Output(e) BY DEF Empty, Output
  <2> HIDE DEF e
  <2>2. Written4(addr, 0, Empty)
    <3>1. Len(e) <= 4 * 0 /\ ~(0 > 0) BY <2>1
    <3> QED BY <2>1, <3>1, Zenon DEF Written4
  <2> QED BY <1>1, <2>2
<1>3. ASSUME NEW i \in 1..n, i - 1 \in S PROVE i \in S
  <2>1. Written4(addr, i - 1, upto[i - 1]) /\ i \in 1..4 BY <1>3
  <2>2. Written4(addr, i, upto[i]) BY <1>1, <2>1, V4Step
  <2> QED BY <2>2
<1>4. n \in S
  <2>1. 0..n \subseteq S
    <3>1. n \in Nat OBVIOUS
    <3> HIDE DEF n, S
    <3> QED BY <1>2, <1>3, <3>1, BoundedInduction
  <2> QED BY <2>1
<1>5. Written4(addr, 4, upto[4]) BY <1>4
<1>6. PICK t \in Seq(Nat) :
        /\ upto[4] = Output(t) /\ Len(t) <= 4 * 4
        /\ Len(Fields(t, DOT)) = 4 /\ \A j \in 1..4 : Fields(t, DOT)[j] = Digits(addr[j], 10)
  BY <1>5 DEF Written4
<1> DEFINE f == Fields(t, DOT)  octet == [i \in 1..Len(f) |-> ipv4_octet(f[i])]
<1>7. \A i \in 1..4 : octet[i] = addr[i]
  <2> TAKE i \in 1..4
  <2> DEFINE x == addr[i]
  <2>1. x \in 0..255 /\ octet[i] = ipv4_octet(Digits(x, 10)) BY <1>6, OctetOf
  <2> HIDE DEF x, octet
  <2>2. ipv4_octet(Digits(x, 10)) = x BY <2>1, OctetOfDigits
  <2> QED BY <2>1, <2>2 DEF x
<1>8. octet = addr
  <2>1. DOMAIN octet = 1..4 /\ octet = [i \in 1..4 |-> octet[i]] BY <1>6
  <2>2. addr = [i \in 1..4 |-> addr[i]] BY OctetOf
  <2> HIDE DEF octet
  <2> QED BY <1>7, <2>1, <2>2
<1>9. ~(Len(f) # 4 \/ \E i \in 1..Len(f) : octet[i] = Refused)
  <2>1. \A i \in 1..4 : addr[i] # Refused BY OctetOf
  <2>2. Len(f) = 4 BY <1>6
  <2> HIDE DEF octet, f
  <2> QED BY <1>7, <2>1, <2>2
<1>10. ipv4_parse(t) = octet BY <1>9 DEF ipv4_parse
<1> HIDE DEF octet, f
<1>11. addr # <<>> BY OctetOf
<1>12. parse_ip(t) = addr BY <1>8, <1>10, <1>11 DEF parse_ip
<1>13. Len(t) + 1 <= buflen
  <2>1. Len(t) \in Nat OBVIOUS
  <2> QED BY <1>6, <2>1
<1> QED BY <1>1, <1>6, <1>12, <1>13

LEMMA MaxIs ==
  ASSUME NEW T, T \subseteq Int, NEW m \in T, \A k \in T : k <= m
  PROVE  Max(T) = m
<1>1. Max(T) \in T /\ \A k \in T : Max(T) >= k
  <2>1. \E x \in T : \A k \in T : x >= k
    <3>1. \A k \in T : m >= k OBVIOUS
    <3> QED BY <3>1
  <2> QED BY <2>1 DEF Max
<1>2. Max(T) <= m /\ m <= Max(T) /\ Max(T) \in Int /\ m \in Int BY <1>1
<1> QED BY <1>2

LEMMA MaxExists ==
  ASSUME NEW n \in Nat, NEW T, T \subseteq 0..n, T # {}
  PROVE  Max(T) \in T
<1> DEFINE U == {n - x : x \in T}
<1>1. U \subseteq Nat /\ U # {}
  <2>1. \A x \in T : n - x \in Nat
    <3>1. \A x \in 0..n : n - x \in Nat OBVIOUS
    <3> QED BY <3>1
  <2>2. \E x \in T : n - x \in U OBVIOUS
  <2> QED BY <2>1, <2>2
<1>2. PICK m \in U : \A x \in U : m <= x
  <2> HIDE DEF U
  <2> QED BY <1>1, NatHasLeast
<1>3. PICK b \in T : m = n - b BY <1>2
<1>4. ASSUME NEW x \in T PROVE x <= b
  <2>1. n - x \in U /\ x \in 0..n /\ b \in 0..n OBVIOUS
  <2>2. m <= n - x BY <1>2, <2>1
  <2> HIDE DEF U
  <2> QED BY <1>3, <2>1, <2>2
<1>5. T \subseteq Int OBVIOUS
<1>6. Max(T) = b BY <1>4, <1>5, MaxIs
<1> QED BY <1>6

\* The groups of an address; the run from a to b is zeros, and with none a
\* is past the groups.
GroupsOf(addr) == [k \in 1..8 |-> Word(High(addr, k), Low(addr, k))]

RunIs(group, run, a, b) ==
  /\ a \in 1..9 /\ b \in 1..9
  /\ (a = 9 /\ b = 9) \/ (a < b /\ b <= 8)
  /\ \A k \in 0..8 : k \in run <=> a <= k /\ k <= b
  /\ \A k \in 1..8 : k \in run => group[k] = 0

LEMMA ZeroRunIs ==
  ASSUME NEW group \in [1..8 -> Nat]
  PROVE  \E a, b : RunIs(group, ZeroRun(group), a, b)
<1> DEFINE Run(a, b) == a < b /\ \A k \in a..b : group[k] = 0
           lengths == {q[2] - q[1] : q \in {r \in (1..8) \X (1..8) : Run(r[1], r[2])}}
           m == Max(lengths)
           starts == {a \in 1..8 : a + m <= 8 /\ Run(a, a + m)}
           a == Min(starts)
<1>1. ZeroRun(group) = IF lengths = {} THEN 0..-1 ELSE a..(a + m) BY DEF ZeroRun
<1>2. CASE lengths = {}
  <2> DEFINE nine == 9
  <2>1. ZeroRun(group) = 0..-1
    <3> HIDE DEF lengths, a
    <3> QED BY <1>1, <1>2
  <2>2. \A k \in 0..8 : ~(k \in 0..-1) /\ ~(9 <= k) OBVIOUS
  <2>3. \A k \in 1..8 : k \in 0..8 OBVIOUS
  <2>4. RunIs(group, ZeroRun(group), 9, 9) BY <2>1, <2>2, <2>3 DEF RunIs
  <2> QED BY <2>4
<1>3. CASE lengths # {}
  <2>1. lengths \subseteq 0..8
    <3>1. ASSUME NEW l \in lengths PROVE l \in 0..8
      <4>1. PICK q \in (1..8) \X (1..8) : Run(q[1], q[2]) /\ l = q[2] - q[1] OBVIOUS
      <4>2. q[1] \in 1..8 /\ q[2] \in 1..8 /\ q[1] < q[2] BY <4>1
      <4> QED BY <4>1, <4>2
    <3> QED BY <3>1
  <2>2. m \in lengths
    <3> DEFINE n == 8
    <3>1. n \in Nat /\ lengths \subseteq 0..n BY <2>1
    <3> HIDE DEF n, lengths
    <3> QED BY <1>3, <3>1, MaxExists
  <2>3. PICK q \in (1..8) \X (1..8) : Run(q[1], q[2]) /\ m = q[2] - q[1]
    <3>1. \A l \in lengths : \E q \in (1..8) \X (1..8) : Run(q[1], q[2]) /\ l = q[2] - q[1] OBVIOUS
    <3> HIDE DEF lengths, m
    <3> QED BY <2>2, <3>1
  <2>4. q[1] \in 1..8 /\ q[2] \in 1..8 /\ q[1] < q[2] BY <2>3
  <2>5. q[1] \in starts
    <3>1. q[1] + m = q[2] BY <2>3, <2>4
    <3>2. q[1] + m <= 8 /\ Run(q[1], q[1] + m) BY <2>3, <2>4, <3>1
    <3> HIDE DEF m, Run
    <3> QED BY <2>4, <3>2
  <2>6. a \in starts
    <3>1. starts \subseteq Nat /\ starts # {}
      <4>1. \A x \in starts : x \in 1..8
        <5> HIDE DEF m, Run
        <5> QED OBVIOUS
      <4> HIDE DEF starts
      <4> QED BY <2>5, <4>1
    <3> HIDE DEF starts
    <3>2. PICK x \in starts : \A y \in starts : x <= y BY <3>1, NatHasLeast
    <3>3. starts \subseteq Int BY <3>1
    <3>4. Min(starts) = x BY <3>2, <3>3, MinIs
    <3> QED BY <3>2, <3>4
  <2>7. a \in 1..8 /\ a + m <= 8 /\ a < a + m /\ \A k \in a..(a + m) : group[k] = 0
    <3> DEFINE s == a
    <3>1. s \in starts BY <2>6
    <3> HIDE DEF s, m
    <3>2. s \in 1..8 /\ s + m <= 8 /\ s < s + m /\ \A k \in s..(s + m) : group[k] = 0 BY <3>1
    <3> QED BY <3>2 DEF s
  <2>8. ZeroRun(group) = a..(a + m)
    <3> HIDE DEF lengths, a
    <3> QED BY <1>1, <1>3
  <2>9. m \in Int BY <2>3, <2>4
  <2> HIDE DEF a, m, lengths
  <2> DEFINE b == a + m
  <2>10. b \in 1..9 /\ b <= 8 /\ a < b /\ a \in 1..9 BY <2>7, <2>9
  <2>11. \A k \in 0..8 : k \in a..b <=> a <= k /\ k <= b BY <2>7, <2>9
  <2>12. RunIs(group, ZeroRun(group), a, b)
    <3>1. ZeroRun(group) = a..b /\ \A k \in a..b : group[k] = 0 BY <2>7, <2>8
    <3> HIDE DEF b
    <3> QED BY <2>10, <2>11, <3>1 DEF RunIs
  <2> QED BY <2>12
<1> QED BY <1>2, <1>3

\* The steps of the IPv6 formatter.
Group6(group, run, buflen, out, k) ==
  IF k \in run THEN IF k - 1 \in run THEN out
                    ELSE Separator(Separator(out, buflen, COLON), buflen, COLON)
  ELSE Number(IF k = 1 \/ k - 1 \in run THEN out ELSE Separator(out, buflen, COLON),
              buflen, Digits(group[k], 16))

LEMMA GroupTypes ==
  ASSUME NEW addr \in Addresses6, NEW k \in 1..8
  PROVE  /\ High(addr, k) \in Octets /\ Low(addr, k) \in Octets
         /\ GroupsOf(addr)[k] = Word(High(addr, k), Low(addr, k))
         /\ GroupsOf(addr)[k] \in Nat
<1>1. 2 * k - 1 \in 1..16 /\ 2 * k \in 1..16 OBVIOUS
<1>2. High(addr, k) \in Octets /\ Low(addr, k) \in Octets BY <1>1 DEF Addresses6, High, Low
<1>3. GroupsOf(addr)[k] = Word(High(addr, k), Low(addr, k)) BY DEF GroupsOf
<1>4. GroupsOf(addr)[k] \in Nat BY <1>2, <1>3, WordIs
<1> QED BY <1>2, <1>3, <1>4

LEMMA V6Steps ==
  ASSUME NEW addr \in Addresses6, NEW buflen \in Nat
  PROVE  \E upto : /\ ipv6_format(addr, buflen) = upto[8] /\ upto[0] = Empty
                   /\ \A k \in 1..8 : upto[k] = Group6(GroupsOf(addr), ZeroRun(GroupsOf(addr)), buflen, upto[k - 1], k)
<1> DEFINE group == GroupsOf(addr)
           run == ZeroRun(group)
           At(h, k) == IF k = 0 THEN Empty ELSE Group6(group, run, buflen, h[k - 1], k)
           Counts(h) == h = [k \in 0..8 |-> At(h, k)]
           upto == CHOOSE h : Counts(h)
<1>1. ipv6_format(addr, buflen) = upto[8] BY DEF ipv6_format, Group6, GroupsOf, Word, High, Low
<1> DEFINE n == 8
           step == [k \in 1..n |-> [out \in Outputs |-> Group6(group, run, buflen, out, k)]]
<1>2. n \in Nat /\ Empty \in Outputs /\ COLON \in Nat BY DEF Empty, Outputs, COLON
<1>3. \A k \in 1..n, out \in Outputs : Group6(group, run, buflen, out, k) \in Outputs
  <2> TAKE k \in 1..n, out \in Outputs
  <2> DEFINE d == Digits(group[k], 16)  x == Separator(out, buflen, COLON)
  <2>1. d \in Seq(Nat)
    <3> DEFINE b == 16  v == group[k]
    <3>1. b \in Bases /\ v \in Nat BY GroupTypes DEF Bases
    <3> HIDE DEF b, v
    <3>2. Digits(v, b) \in Seq(Nat) BY <3>1, DigitsText
    <3> QED BY <3>2 DEF b, v
  <2>2. x \in Outputs BY <1>2, <2>1, OutputTypes
  <2>3. Group6(group, run, buflen, out, k) =
          IF k \in run THEN IF k - 1 \in run THEN out ELSE Separator(x, buflen, COLON)
          ELSE Number(IF k = 1 \/ k - 1 \in run THEN out ELSE x, buflen, d)
    BY DEF Group6
  <2> HIDE DEF x, d, run, group, n
  <2>4. Separator(x, buflen, COLON) \in Outputs BY <1>2, <2>1, <2>2, OutputTypes
  <2>5. Number(out, buflen, d) \in Outputs BY <1>2, <2>1, OutputTypes
  <2>6. Number(x, buflen, d) \in Outputs BY <1>2, <2>1, <2>2, OutputTypes
  <2> QED BY <2>3, <2>4, <2>5, <2>6
<1> HIDE DEF group, run
<1>4. step \in Steps(n, Outputs) BY <1>3 DEF Steps
<1> HIDE DEF step
<1>5. PICK g : Solution(n, Outputs, Empty, step, g)
  <2> HIDE DEF n
  <2> QED BY <1>2, <1>4, Recursion
<1>6. /\ g \in [0..n -> Outputs] /\ g[0] = Empty
      /\ \A k \in 1..n : g[k] = Group6(group, run, buflen, g[k - 1], k)
  <2>1. g \in [0..n -> Outputs] /\ g[0] = Empty /\ \A k \in 1..n : g[k] = step[k][g[k - 1]]
    BY <1>5 DEF Solution
  <2>2. ASSUME NEW k \in 1..n PROVE g[k] = Group6(group, run, buflen, g[k - 1], k)
    <3>1. g[k - 1] \in Outputs BY <2>1
    <3> QED BY <2>1, <3>1 DEF step
  <2> QED BY <2>1, <2>2
<1>7. Counts(g)
  <2>1. \A k \in 0..n : g[k] = At(g, k) BY <1>6
  <2>2. g = [k \in 0..n |-> At(g, k)]
    <3> HIDE DEF At, n
    <3> QED BY <1>6, <2>1
  <2> QED BY <2>2
<1>8. Counts(upto)
  <2> HIDE DEF Counts
  <2> QED BY <1>7
<1> HIDE DEF upto
<1>9. \A k \in 0..8 : upto[k] = At(upto, k)
  <2> HIDE DEF At
  <2> QED BY <1>8
<1>10. upto[0] = Empty /\ \A k \in 1..8 : upto[k] = Group6(group, run, buflen, upto[k - 1], k)
  BY <1>9
<1> QED BY <1>1, <1>10 DEF group, run

\* What the text of an IPv6 address is between its colons after k groups,
\* D being what the groups are written as: the groups, and for the run one
\* empty field, or two where the text begins with it, and one more while
\* nothing follows.
Past(a) == IF a = 1 THEN 2 ELSE a
RunBounds(a, b) == a \in 1..9 /\ b \in 1..9 /\ ((a = 9 /\ b = 9) \/ (a < b /\ b <= 8))

Laid6(D, a, b, k, F) ==
  /\ F \in Seq(Seq(Nat))
  /\ k < a => Len(F) = k
  /\ a <= k /\ k <= b => Len(F) = Past(a) + 1 /\ F[Past(a) + 1] = <<>>
  /\ b < k => Len(F) = Past(a) + (k - b)
  /\ \A j \in 1..k : j < a => F[j] = D[j]
  /\ a <= k => \A j \in a..Past(a) : F[j] = <<>>
  /\ \A j \in 1..k : b < j => F[Past(a) + (j - b)] = D[j]

LEMMA Appended ==
  ASSUME NEW F \in Seq(Seq(Nat)), NEW d \in Seq(Nat)
  PROVE  /\ Append(F, d) \in Seq(Seq(Nat)) /\ Len(Append(F, d)) = Len(F) + 1
         /\ Append(F, d)[Len(F) + 1] = d /\ \A j \in 1..Len(F) : Append(F, d)[j] = F[j]
OBVIOUS

LEMMA LaidFirst ==
  ASSUME NEW D \in [1..8 -> Seq(Nat)], NEW a, NEW b, RunBounds(a, b), 1 < a
  PROVE  Laid6(D, a, b, 1, <<D[1]>>)
<1> DEFINE F == <<D[1]>>
<1>1. D[1] \in Seq(Nat) OBVIOUS
<1>2. F \in Seq(Seq(Nat)) /\ Len(F) = 1 /\ F[1] = D[1] BY <1>1
<1> HIDE DEF F
<1>3. a \in Int /\ b \in Int /\ a <= b BY DEF RunBounds
<1>4. ~(a <= 1) /\ ~(b < 1) /\ \A j \in 1..1 : j = 1 /\ ~(b < j) BY <1>3
<1>5. Laid6(D, a, b, 1, F) BY <1>2, <1>4 DEF Laid6
<1> QED BY <1>5 DEF F

LEMMA LaidMore ==
  ASSUME NEW D \in [1..8 -> Seq(Nat)], NEW a, NEW b, RunBounds(a, b),
         NEW k \in 2..8, k < a \/ b < k - 1, NEW F, Laid6(D, a, b, k - 1, F)
  PROVE  Laid6(D, a, b, k, Append(F, D[k]))
<1> DEFINE H == Append(F, D[k])  p == Past(a)
<1>1. D[k] \in Seq(Nat) /\ F \in Seq(Seq(Nat)) BY DEF Laid6
<1>2. /\ H \in Seq(Seq(Nat)) /\ Len(H) = Len(F) + 1 /\ H[Len(F) + 1] = D[k] /\ Len(F) \in Nat
      /\ \A j \in 1..Len(F) : H[j] = F[j]
  BY <1>1, Appended
<1>3. a \in 1..9 /\ b \in 1..9 /\ p \in 1..9 /\ a <= p /\ a <= b BY DEF RunBounds, Past
<1> HIDE DEF H, p
<1>4. CASE k < a
  <2>1. Len(F) = k - 1 /\ (\A j \in 1..(k - 1) : F[j] = D[j]) /\ ~(a <= k) /\ \A j \in 1..k : ~(b < j) /\ j < a
    <3>1. k - 1 < a /\ \A j \in 1..(k - 1) : j < a BY <1>3, <1>4
    <3>2. \A j \in 1..k : ~(b < j) /\ j < a BY <1>3, <1>4
    <3>3. Len(F) = k - 1 /\ \A j \in 1..(k - 1) : F[j] = D[j] BY <3>1 DEF Laid6
    <3>4. ~(a <= k) BY <1>3, <1>4
    <3> QED BY <3>2, <3>3, <3>4
  <2>2. Len(H) = k /\ \A j \in 1..k : H[j] = D[j]
    <3>1. \A j \in 1..k : j = k \/ j \in 1..(k - 1) OBVIOUS
    <3>2. Len(F) = k - 1 BY <2>1
    <3>3. Len(H) = k /\ H[k] = D[k] BY <1>2, <3>2
    <3>4. \A j \in 1..(k - 1) : H[j] = D[j] BY <1>2, <2>1, <3>2
    <3> QED BY <3>1, <3>3, <3>4
  <2>3. ~(b < k) BY <1>3, <1>4
  <2>4. Laid6(D, a, b, k, H) BY <1>2, <2>1, <2>2, <2>3 DEF Laid6
  <2> QED BY <2>4 DEF H
<1>5. CASE b < k - 1
  <2>1. ~(k < a) /\ ~(k <= b) /\ b < k /\ a <= k - 1 /\ a <= k BY <1>3, <1>5
  <2>2. /\ Len(F) = p + ((k - 1) - b)
        /\ \A j \in 1..(k - 1) : j < a => F[j] = D[j]
        /\ \A j \in a..p : F[j] = <<>>
        /\ \A j \in 1..(k - 1) : b < j => F[p + (j - b)] = D[j]
    BY <1>5, <2>1 DEF Laid6, p
  <2>3. Len(F) + 1 = p + (k - b) /\ p < Len(F) /\ Len(F) = p + ((k - 1) - b)
    <3>1. Len(F) = p + ((k - 1) - b) BY <2>2
    <3>2. p \in 1..9 /\ b \in 1..9 /\ b < k - 1 BY <1>3, <1>5
    <3> QED BY <3>1, <3>2
  <2>4. \A j \in 1..k : j < a => H[j] = D[j]
    <3>1. \A j \in 1..k : j < a => j \in 1..(k - 1) /\ j \in 1..Len(F) BY <1>2, <1>3, <1>5, <2>3
    <3> QED BY <1>2, <2>2, <3>1
  <2>5. \A j \in a..p : H[j] = <<>>
    <3>1. \A j \in a..p : j \in 1..Len(F)
      <4>1. a \in 1..9 /\ p \in 1..9 /\ p < Len(F) /\ Len(F) \in Nat BY <1>2, <1>3, <2>3
      <4> DEFINE l == Len(F)
      <4> HIDE DEF l
      <4>2. a \in 1..9 /\ p \in 1..9 /\ p < l /\ l \in Nat BY <4>1 DEF l
      <4>3. \A j \in a..p : j \in 1..l BY <4>2
      <4> QED BY <4>3 DEF l
    <3> QED BY <1>2, <2>2, <3>1
  <2>6. \A j \in 1..k : b < j => H[p + (j - b)] = D[j]
    <3> TAKE j \in 1..k
    <3>1. CASE j = k BY <1>2, <2>3, <3>1
    <3>2. CASE j # k
      <4> SUFFICES ASSUME b < j PROVE H[p + (j - b)] = D[j] OBVIOUS
      <4>1. j \in 1..(k - 1) BY <3>2
      <4>2. p + (j - b) \in 1..Len(F)
        <5> DEFINE l == Len(F)
        <5> HIDE DEF l
        <5>1. l = p + ((k - 1) - b) BY <2>3 DEF l
        <5>2. p \in 1..9 /\ b \in 1..9 /\ j \in 1..(k - 1) /\ b < j BY <1>3, <4>1
        <5>3. p + (j - b) \in 1..l BY <5>1, <5>2
        <5> QED BY <5>3 DEF l
      <4> QED BY <1>2, <2>2, <4>1, <4>2
    <3> QED BY <3>1, <3>2
  <2>7. Laid6(D, a, b, k, H) BY <1>2, <2>1, <2>3, <2>4, <2>5, <2>6 DEF Laid6, p
  <2> QED BY <2>7 DEF H
<1> QED BY <1>4, <1>5

LEMMA LaidOpen ==
  ASSUME NEW D \in [1..8 -> Seq(Nat)], NEW a, NEW b, RunBounds(a, b), NEW k \in 1..8, k = a,
         NEW F, IF k = 1 THEN F = <<<<>>>> ELSE Laid6(D, a, b, k - 1, F)
  PROVE  Laid6(D, a, b, k, Append(Append(F, <<>>), <<>>))
<1> DEFINE e == <<>>  G == Append(F, e)  H == Append(G, e)  p == Past(a)
<1>1. e \in Seq(Nat) OBVIOUS
<1>2. F \in Seq(Seq(Nat)) /\ Len(F) = p - 1
      /\ (\A j \in 1..(a - 1) : F[j] = D[j]) /\ \A j \in a..(p - 1) : F[j] = e
  <2>1. CASE k = 1
    <3>1. F = <<e>> BY <2>1
    <3>2. F \in Seq(Seq(Nat)) /\ Len(F) = 1 /\ F[1] = e
      <4> HIDE DEF e
      <4> QED BY <1>1, <3>1
    <3>3. p = 2 BY <2>1 DEF Past
    <3>4. \A j \in 1..(a - 1) : FALSE BY <2>1
    <3>5. \A j \in a..(p - 1) : j = 1 BY <2>1, <3>3
    <3> HIDE DEF p, e
    <3>6. Len(F) = p - 1 BY <3>2, <3>3
    <3>7. \A j \in 1..(a - 1) : F[j] = D[j] BY <3>4
    <3>8. \A j \in a..(p - 1) : F[j] = e BY <3>2, <3>5
    <3> QED BY <3>2, <3>6, <3>7, <3>8
  <2>2. CASE k # 1
    <3>1. p = a /\ k - 1 < a BY <2>2 DEF Past
    <3>2. F \in Seq(Seq(Nat)) /\ Len(F) = k - 1 /\ \A j \in 1..(k - 1) : j < a => F[j] = D[j]
      BY <2>2, <3>1 DEF Laid6
    <3>3. \A j \in 1..(a - 1) : j \in 1..(k - 1) /\ j < a OBVIOUS
    <3>4. \A j \in a..(p - 1) : FALSE BY <3>1
    <3> HIDE DEF p, e
    <3> QED BY <3>1, <3>2, <3>3, <3>4
  <2> QED BY <2>1, <2>2
<1>3. a \in 1..8 /\ b \in 1..9 /\ p \in 1..9 /\ a <= p /\ p <= a + 1 /\ a < b BY DEF RunBounds, Past
<1> HIDE DEF e, p
<1>4. G \in Seq(Seq(Nat)) /\ Len(G) = p /\ G[p] = e /\ \A j \in 1..(p - 1) : G[j] = F[j]
  <2>1. /\ G \in Seq(Seq(Nat)) /\ Len(G) = Len(F) + 1 /\ G[Len(F) + 1] = e
        /\ \A j \in 1..Len(F) : G[j] = F[j]
    BY <1>1, <1>2, Appended
  <2> HIDE DEF G
  <2>2. Len(F) + 1 = p BY <1>2, <1>3
  <2> QED BY <1>2, <2>1, <2>2
<1> HIDE DEF G
<1>5. H \in Seq(Seq(Nat)) /\ Len(H) = p + 1 /\ H[p + 1] = e /\ \A j \in 1..p : H[j] = G[j]
  BY <1>1, <1>4, Appended
<1> HIDE DEF H
<1>6. \A j \in 1..k : j < a => H[j] = D[j]
  <2>1. \A j \in 1..k : j < a => j \in 1..(a - 1) /\ j \in 1..(p - 1) /\ j \in 1..p BY <1>3
  <2> QED BY <1>2, <1>4, <1>5, <2>1
<1>7. \A j \in a..p : H[j] = e
  <2>1. \A j \in a..p : j \in 1..p /\ (j = p \/ (j \in a..(p - 1) /\ j \in 1..(p - 1)))
    <3>1. a \in 1..8 /\ p \in 1..9 BY <1>3
    <3> QED BY <3>1
  <2> QED BY <1>2, <1>4, <1>5, <2>1
<1>8. ~(k < a) /\ k <= b /\ ~(b < k) /\ \A j \in 1..k : ~(b < j) BY <1>3
<1>9. Laid6(D, a, b, k, H) BY <1>5, <1>6, <1>7, <1>8 DEF Laid6, p, e
<1> QED BY <1>9 DEF H, G, e

LEMMA LaidStay ==
  ASSUME NEW D \in [1..8 -> Seq(Nat)], NEW a, NEW b, RunBounds(a, b), NEW k \in 2..8, a < k, k <= b,
         NEW F, Laid6(D, a, b, k - 1, F)
  PROVE  Laid6(D, a, b, k, F)
<1>1. a \in 1..9 /\ b \in 1..9 BY DEF RunBounds
<1>2. ~(k < a) /\ a <= k /\ ~(b < k) /\ a <= k - 1 /\ k - 1 <= b BY <1>1
<1>3. \A j \in 1..k : j < a => j \in 1..(k - 1) BY <1>1
<1>4. \A j \in 1..k : ~(b < j) BY <1>1
<1> QED BY <1>2, <1>3, <1>4 DEF Laid6

LEMMA LaidClose ==
  ASSUME NEW D \in [1..8 -> Seq(Nat)], NEW a, NEW b, RunBounds(a, b), NEW k \in 2..8, k = b + 1,
         NEW F, Laid6(D, a, b, k - 1, F)
  PROVE  \E G \in Seq(Seq(Nat)) : F = Append(G, <<>>) /\ Laid6(D, a, b, k, Append(G, D[k]))
<1> DEFINE p == Past(a)  e == <<>>  G == SubSeq(F, 1, p)  H == Append(G, D[k])
<1>1. a \in 1..9 /\ b \in 1..9 /\ p \in 1..9 /\ a <= p /\ p <= a + 1 /\ a < b /\ a <= k - 1 /\ k - 1 <= b
  BY DEF RunBounds, Past
<1>2. /\ F \in Seq(Seq(Nat)) /\ Len(F) = p + 1 /\ F[p + 1] = e
      /\ \A j \in 1..(k - 1) : j < a => F[j] = D[j]
      /\ \A j \in a..p : F[j] = e
  BY <1>1 DEF Laid6
<1>3. e \in Seq(Nat) /\ D[k] \in Seq(Nat) OBVIOUS
<1> HIDE DEF p, e
<1>4. G \in Seq(Seq(Nat)) /\ Len(G) = p /\ \A j \in 1..p : G[j] = F[j]
  <2> DEFINE T == Seq(Nat)  o == 1
  <2>1. \A i \in o..p : F[i] \in T
    <3>1. \A i \in o..p : i \in 1..Len(F) BY <1>1, <1>2
    <3> HIDE DEF T, o
    <3>2. F \in Seq(T) BY <1>2 DEF T
    <3> QED BY <3>1, <3>2
  <2>2. o \in Int /\ p \in Int /\ o <= p /\ p - o + 1 = p /\ \A j \in o..p : o + j - 1 = j BY <1>1
  <2> HIDE DEF T, o
  <2>3. /\ SubSeq(F, o, p) \in Seq(T)
        /\ Len(SubSeq(F, o, p)) = IF o <= p THEN p - o + 1 ELSE 0
        /\ \A j \in 1..(p - o + 1) : SubSeq(F, o, p)[j] = F[o + j - 1]
    BY <2>1, <2>2, SubSeqProperties
  <2>4. Len(SubSeq(F, o, p)) = p /\ \A j \in o..p : SubSeq(F, o, p)[j] = F[j]
    BY <2>2, <2>3 DEF o
  <2> QED BY <2>3, <2>4 DEF T, o
<1> HIDE DEF G
<1>5. F = Append(G, e)
  <2> DEFINE K == Append(G, e)
  <2>1. K \in Seq(Seq(Nat)) /\ Len(K) = p + 1 /\ K[p + 1] = e /\ \A j \in 1..p : K[j] = G[j]
    BY <1>3, <1>4, Appended
  <2> HIDE DEF K
  <2>2. \A j \in 1..(p + 1) : j = p + 1 \/ j \in 1..p BY <1>1
  <2>3. \A j \in 1..Len(F) : F[j] = K[j] BY <1>2, <1>4, <2>1, <2>2
  <2>4. F = K BY <1>2, <2>1, <2>3, SeqEqual
  <2> QED BY <2>4 DEF K
<1>6. H \in Seq(Seq(Nat)) /\ Len(H) = p + 1 /\ H[p + 1] = D[k] /\ \A j \in 1..p : H[j] = G[j]
  BY <1>3, <1>4, Appended
<1> HIDE DEF H
<1>7. \A j \in 1..k : j < a => H[j] = D[j]
  <2>1. \A j \in 1..k : j < a => j \in 1..(k - 1) /\ j \in 1..p BY <1>1
  <2> QED BY <1>2, <1>4, <1>6, <2>1
<1>8. \A j \in a..p : H[j] = e
  <2>1. \A j \in a..p : j \in 1..p BY <1>1
  <2> QED BY <1>2, <1>4, <1>6, <2>1
<1>9. \A j \in 1..k : b < j => H[p + (j - b)] = D[j]
  <2>1. \A j \in 1..k : b < j => j = k /\ p + (j - b) = p + 1 BY <1>1
  <2> QED BY <1>6, <2>1
<1>10. ~(k < a) /\ ~(k <= b) /\ p + (k - b) = p + 1 BY <1>1
<1>11. Laid6(D, a, b, k, H) BY <1>6, <1>7, <1>8, <1>9, <1>10 DEF Laid6, p, e
<1> QED BY <1>4, <1>5, <1>11 DEF H, e

Texts(addr) == [k \in 1..8 |-> Digits(GroupsOf(addr)[k], 16)]

LEMMA GroupText ==
  ASSUME NEW addr \in Addresses6, NEW k \in 1..8
  PROVE  LET d == Texts(addr)[k]
         IN  /\ d \in Seq(Nat) /\ d # <<>> /\ Len(d) \in 1..4 /\ Free(d, DOT) /\ Free(d, COLON)
             /\ ipv6_group(d) = GroupsOf(addr)[k]
<1>1. PICK hi \in Octets, lo \in Octets : GroupsOf(addr)[k] = Word(hi, lo)
  BY GroupTypes, Zenon
<1>2. PICK v \in Nat : v = GroupsOf(addr)[k] BY GroupTypes, Zenon
<1>3. PICK b \in Bases : b = 16 BY DEF Bases
<1>4. PICK d : d = Digits(v, b) OBVIOUS
<1>5. Texts(addr)[k] = d BY <1>2, <1>3, <1>4 DEF Texts
<1>6. Len(d) <= 4
  <2>1. Len(Digits(Word(hi, lo), 16)) <= 4 BY WordIs
  <2>2. d = Digits(Word(hi, lo), 16) BY <1>1, <1>2, <1>3, <1>4, Zenon
  <2> QED BY <2>1, <2>2, Zenon
<1>7. d \in Seq(Nat) /\ d # <<>> /\ Len(d) >= 1 /\ \A i \in 1..Len(d) : d[i] \in 48..57 \cup 97..102
  BY <1>4, DigitsText, Zenon
<1>8. ipv6_group(d) = v
  <2>1. d = Digits(v, 16) BY <1>3, <1>4, Zenon
  <2>2. Len(Digits(v, 16)) <= 4 BY <1>6, <2>1, Zenon
  <2>3. ipv6_group(Digits(v, 16)) = v BY <2>2, GroupOfDigits
  <2> QED BY <2>1, <2>3, Zenon
<1>9. \A c \in 48..57 \cup 97..102 : c # DOT /\ c # COLON BY DEF DOT, COLON
<1>10. Free(d, DOT) /\ Free(d, COLON) BY <1>7, <1>9, Zenon DEF Free
<1>11. Len(d) \in 1..4
  <2>1. PICK l \in Nat : l = Len(d) BY <1>7
  <2>2. l <= 4 /\ l >= 1 BY <1>6, <1>7, <2>1, Zenon
  <2>3. l \in 1..4 BY <2>2
  <2> QED BY <2>1, <2>3
<1> QED BY <1>2, <1>5, <1>7, <1>8, <1>10, <1>11, Zenon

LEMMA FreeJoins ==
  ASSUME NEW s \in Seq(Nat), NEW t \in Seq(Nat), NEW c, Free(s, c), Free(t, c)
  PROVE  Free(s \o t, c)
<1> DEFINE u == s \o t
<1>1. /\ u \in Seq(Nat) /\ Len(u) = Len(s) + Len(t)
      /\ (\A i \in 1..Len(s) : u[i] = s[i]) /\ \A i \in 1..Len(t) : u[Len(s) + i] = t[i]
  BY JoinedTwo
<1>2. Len(s) \in Nat /\ Len(t) \in Nat OBVIOUS
<1> HIDE DEF u
<1>3. ASSUME NEW i \in 1..Len(u) PROVE u[i] # c
  <2>1. CASE i <= Len(s)
    <3>1. i \in 1..Len(s) BY <1>1, <1>2, <2>1
    <3> QED BY <1>1, <3>1 DEF Free
  <2>2. CASE ~(i <= Len(s))
    <3> DEFINE j == i - Len(s)
    <3>1. j \in 1..Len(t) /\ Len(s) + j = i BY <1>1, <1>2, <2>2
    <3> HIDE DEF j
    <3>2. u[Len(s) + j] = t[j] BY <1>1, <3>1
    <3> QED BY <3>1, <3>2 DEF Free
  <2> QED BY <2>1, <2>2
<1>4. Free(u, c) BY <1>3 DEF Free
<1> QED BY <1>4 DEF u

\* One colon more: the text, and its fields.
LEMMA ColonAdded ==
  ASSUME NEW t \in Seq(Nat), Free(t, DOT)
  PROVE  /\ t \o <<COLON>> \in Seq(Nat) /\ Len(t \o <<COLON>>) = Len(t) + 1
         /\ Free(t \o <<COLON>>, DOT)
         /\ Fields(t \o <<COLON>>, COLON) = Append(Fields(t, COLON), <<>>)
<1> DEFINE e == <<COLON>>  u == t \o e
<1>1. e \in Seq(Nat) /\ Len(e) = 1 /\ e[1] = COLON /\ COLON \in Nat /\ COLON # DOT BY DEF COLON, DOT
<1>2. Free(e, DOT)
  <2>1. \A i \in 1..1 : i = 1 OBVIOUS
  <2> HIDE DEF e
  <2> QED BY <1>1, <2>1 DEF Free
<1>3. u = Append(t, COLON) BY <1>1, AppendIsConcat
<1>4. Fields(Append(t, COLON), COLON) = Append(Fields(t, COLON), <<>>) BY <1>1, FieldsGrow DEF NextField
<1> HIDE DEF e
<1>5. u \in Seq(Nat) /\ Len(u) = Len(t) + Len(e) BY <1>1, JoinedTwo
<1>6. Free(u, DOT) BY <1>1, <1>2, FreeJoins
<1> HIDE DEF u
<1>7. Len(u) = Len(t) + 1 BY <1>1, <1>5
<1> QED BY <1>3, <1>4, <1>5, <1>6, <1>7 DEF u, e

\* So far the text of an IPv6 address is laid out as its groups.
Written6(D, a, b, k, out) ==
  \E t \in Seq(Nat) :
    /\ out = Output(t) /\ Len(t) <= 5 * k /\ Free(t, DOT)
    /\ IF k = 0 THEN t = <<>> ELSE Laid6(D, a, b, k, Fields(t, COLON))

LEMMA RoomLeft ==
  ASSUME NEW k \in 1..8, NEW m \in Nat, m <= 5 * (k - 1), NEW l \in 1..4, NEW buflen \in Nat, buflen >= 46
  PROVE  /\ m + l < buflen /\ (m + 1) + l < buflen /\ m + 1 < buflen /\ (m + 1) + 1 < buflen
         /\ m <= 5 * k /\ m + l <= 5 * k /\ (m + 1) + l <= 5 * k /\ (m + 1) + 1 <= 5 * k
         /\ l <= 5
OBVIOUS

LEMMA V6Step ==
  ASSUME NEW addr \in Addresses6, NEW buflen \in Nat, buflen >= 46,
         NEW run, NEW a, NEW b, RunIs(GroupsOf(addr), run, a, b), NEW k \in 1..8,
         NEW out, Written6(Texts(addr), a, b, k - 1, out)
  PROVE  Written6(Texts(addr), a, b, k, Group6(GroupsOf(addr), run, buflen, out, k))
<1> DEFINE D == Texts(addr)  d == D[k]  next == Group6(GroupsOf(addr), run, buflen, out, k)
<1>1. D \in [1..8 -> Seq(Nat)]
  <2>1. \A j \in 1..8 : D[j] \in Seq(Nat) BY GroupText
  <2>2. D = [j \in 1..8 |-> D[j]] BY DEF Texts
  <2> HIDE DEF D
  <2> QED BY <2>1, <2>2
<1>2. d \in Seq(Nat) /\ Len(d) \in 1..4 /\ Free(d, DOT) /\ Free(d, COLON) BY GroupText
<1>3. RunBounds(a, b) /\ (k \in run <=> a <= k /\ k <= b) /\ (k - 1 \in run <=> a <= k - 1 /\ k - 1 <= b)
  <2>1. k \in 0..8 /\ k - 1 \in 0..8 OBVIOUS
  <2> QED BY <2>1 DEF RunIs, RunBounds
<1>4. a \in 1..9 /\ b \in 2..9 /\ a <= b /\ (a = 9 \/ a < b) BY <1>3 DEF RunBounds
<1>5. PICK t \in Seq(Nat) :
        /\ out = Output(t) /\ Len(t) <= 5 * (k - 1) /\ Free(t, DOT)
        /\ IF k - 1 = 0 THEN t = <<>> ELSE Laid6(D, a, b, k - 1, Fields(t, COLON))
  BY DEF Written6
<1>6. Len(t) \in Nat /\ COLON \in Nat /\ k - 1 \in 0..7 BY DEF COLON
<1> DEFINE F == Fields(t, COLON)  u == t \o <<COLON>>
<1>7. F \in Seq(Seq(Nat)) BY FieldsType DEF FieldLists
<1>8. u \in Seq(Nat) /\ Len(u) = Len(t) + 1 /\ Free(u, DOT) /\ Fields(u, COLON) = Append(F, <<>>)
  BY <1>5, ColonAdded
<1>9. Separator(out, buflen, COLON) = Output(u)
  <2>1. Len(t) + 1 < buflen BY <1>5, <1>6
  <2> QED BY <1>5, <1>6, <2>1, SeparatorFits
<1>10. next = IF k \in run THEN IF k - 1 \in run THEN out ELSE Separator(Output(u), buflen, COLON)
              ELSE Number(IF k = 1 \/ k - 1 \in run THEN out ELSE Output(u), buflen, d)
  BY <1>9 DEF Group6, Texts
<1> HIDE DEF D, d, next, F, u
<1>16. /\ Len(t) + Len(d) < buflen /\ (Len(t) + 1) + Len(d) < buflen /\ (Len(t) + 1) + 1 < buflen
       /\ Len(t) <= 5 * k /\ Len(t) + Len(d) <= 5 * k /\ (Len(t) + 1) + Len(d) <= 5 * k
       /\ (Len(t) + 1) + 1 <= 5 * k /\ Len(d) <= 5
  <2>1. Len(t) <= 5 * (k - 1) /\ Len(d) \in 1..4 BY <1>2, <1>5
  <2> DEFINE m == Len(t)  l == Len(d)
  <2>2. m \in Nat /\ m <= 5 * (k - 1) /\ l \in 1..4 BY <1>6, <2>1
  <2> HIDE DEF m, l
  <2>3. /\ m + l < buflen /\ (m + 1) + l < buflen /\ (m + 1) + 1 < buflen
        /\ m <= 5 * k /\ m + l <= 5 * k /\ (m + 1) + l <= 5 * k /\ (m + 1) + 1 <= 5 * k
        /\ l <= 5
    BY <2>2, RoomLeft
  <2> QED BY <2>3 DEF m, l
<1>11. CASE k \notin run /\ k = 1
  <2>1. 1 < a BY <1>3, <1>4, <1>11
  <2>2. t = <<>> /\ Len(t) = 0 BY <1>5, <1>11
  <2>3. t \o d = d BY <1>2, <2>2, ConcatEmptySeq
  <2>4. Len(t) + Len(d) < buflen BY <1>16
  <2>5. next = Output(d) BY <1>2, <1>5, <1>10, <1>11, <2>3, <2>4, NumberFits
  <2>6. Fields(d, COLON) = <<D[1]>> BY <1>2, <1>11, FirstField DEF d
  <2>7. Laid6(D, a, b, 1, <<D[1]>>) BY <1>1, <1>3, <2>1, LaidFirst
  <2>8. Len(d) <= 5 * 1 /\ 1 # 0
    <3>1. 5 * 1 = 5 OBVIOUS
    <3> QED BY <1>16, <3>1
  <2>9. Written6(D, a, b, 1, Output(d)) BY <1>2, <2>6, <2>7, <2>8 DEF Written6
  <2> QED BY <1>11, <2>5, <2>9 DEF D, next
<1>12. CASE k \notin run /\ k # 1 /\ k - 1 \notin run
  <2> DEFINE r == u \o d
  <2>1. (k < a \/ b < k - 1) /\ k \in 2..8 /\ k - 1 # 0 /\ k # 0 BY <1>3, <1>4, <1>12
  <2>2. r \in Seq(Nat) /\ Len(r) = Len(u) + Len(d) BY <1>2, <1>8, JoinedTwo
  <2>3. Free(r, DOT) BY <1>2, <1>8, FreeJoins
  <2>4. next = Output(r)
    <3>1. Len(u) + Len(d) < buflen BY <1>8, <1>16, Zenon
    <3>2. Number(Output(u), buflen, d) = Output(r) BY <1>2, <1>8, <3>1, NumberFits
    <3> QED BY <1>10, <1>12, <3>2
  <2>5. Fields(r, COLON) = Append(F, D[k]) BY <1>2, <1>6, OneMoreField DEF u, d, F
  <2>6. Laid6(D, a, b, k, Append(F, D[k]))
    <3>1. Laid6(D, a, b, k - 1, F) BY <1>5, <2>1 DEF F
    <3> QED BY <1>1, <1>3, <2>1, <3>1, LaidMore
  <2>7. Len(r) <= 5 * k BY <1>8, <1>16, <2>2, Zenon
  <2> HIDE DEF r
  <2>8. Written6(D, a, b, k, Output(r)) BY <2>1, <2>2, <2>3, <2>5, <2>6, <2>7 DEF Written6
  <2> QED BY <2>4, <2>8 DEF D, next
<1>13. CASE k \notin run /\ k # 1 /\ k - 1 \in run
  <2> DEFINE r == t \o d
  <2>1. k = b + 1 /\ k \in 2..8 /\ k - 1 # 0 /\ k # 0 BY <1>3, <1>4, <1>13
  <2>2. r \in Seq(Nat) /\ Len(r) = Len(t) + Len(d) BY <1>2, JoinedTwo
  <2>3. Free(r, DOT) BY <1>2, <1>5, FreeJoins
  <2>4. next = Output(r)
    <3>1. Len(t) + Len(d) < buflen BY <1>16
    <3>2. Number(out, buflen, d) = Output(r) BY <1>2, <1>5, <3>1, NumberFits
    <3> QED BY <1>10, <1>13, <3>2
  <2>5. Laid6(D, a, b, k - 1, F) BY <1>5, <2>1 DEF F
  <2>6. PICK G \in Seq(Seq(Nat)) : F = Append(G, <<>>) /\ Laid6(D, a, b, k, Append(G, D[k]))
    BY <1>1, <1>3, <2>1, <2>5, LaidClose
  <2>7. Fields(r, COLON) = Append(G, D[k])
    <3> DEFINE e == <<>>
    <3>1. e \in Seq(Nat) /\ e \o d = d BY <1>2, ConcatEmptySeq
    <3>2. LastGrows(t, d, COLON) BY <1>2, LastFieldGrows
    <3>3. Fields(t, COLON) = Append(G, e) BY <2>6 DEF F
    <3> HIDE DEF e
    <3>4. Fields(r, COLON) = Append(G, e \o d) BY <3>1, <3>2, <3>3 DEF LastGrows
    <3> QED BY <3>1, <3>4 DEF d
  <2>8. Len(r) <= 5 * k BY <1>16, <2>2, Zenon
  <2> HIDE DEF r
  <2>9. Written6(D, a, b, k, Output(r)) BY <2>1, <2>2, <2>3, <2>6, <2>7, <2>8 DEF Written6
  <2> QED BY <2>4, <2>9 DEF D, next
<1>14. CASE k \in run /\ k - 1 \notin run
  <2> DEFINE r == u \o <<COLON>>
  <2>1. k = a /\ k # 0 BY <1>3, <1>4, <1>14
  <2>2. /\ r \in Seq(Nat) /\ Len(r) = Len(u) + 1 /\ Free(r, DOT)
        /\ Fields(r, COLON) = Append(Fields(u, COLON), <<>>)
    BY <1>8, ColonAdded
  <2>3. next = Output(r)
    <3>1. Len(u) + 1 < buflen BY <1>8, <1>16, Zenon
    <3>2. Separator(Output(u), buflen, COLON) = Output(r) BY <1>6, <1>8, <3>1, SeparatorFits
    <3> QED BY <1>10, <1>14, <3>2
  <2>4. Laid6(D, a, b, k, Append(Append(F, <<>>), <<>>))
    <3>1. IF k = 1 THEN F = <<<<>>>> ELSE Laid6(D, a, b, k - 1, F)
      <4>1. k = 1 => F = <<<<>>>> BY <1>5, FieldsOfNothing DEF F
      <4>2. k # 1 => k - 1 # 0 OBVIOUS
      <4>3. k # 1 => Laid6(D, a, b, k - 1, F) BY <1>5, <4>2 DEF F
      <4> QED BY <4>1, <4>3
    <3> QED BY <1>1, <1>3, <2>1, <3>1, LaidOpen
  <2>5. Fields(r, COLON) = Append(Append(F, <<>>), <<>>) BY <1>8, <2>2
  <2>6. Len(r) <= 5 * k BY <1>8, <1>16, <2>2, Zenon
  <2> HIDE DEF r
  <2>7. Laid6(D, a, b, k, Fields(r, COLON)) BY <2>4, <2>5
  <2>8. Written6(D, a, b, k, Output(r)) BY <2>1, <2>2, <2>6, <2>7 DEF Written6
  <2> QED BY <2>3, <2>8 DEF D, next
<1>15. CASE k \in run /\ k - 1 \in run
  <2>1. k \in 2..8 /\ a < k /\ k <= b /\ k - 1 # 0 /\ k # 0 BY <1>3, <1>4, <1>15
  <2>2. next = Output(t) BY <1>5, <1>10, <1>15
  <2>3. Laid6(D, a, b, k - 1, F) BY <1>5, <2>1 DEF F
  <2>4. Laid6(D, a, b, k, F) BY <1>1, <1>3, <2>1, <2>3, LaidStay
  <2>5. Len(t) <= 5 * k BY <1>16
  <2>6. Written6(D, a, b, k, Output(t)) BY <1>5, <2>1, <2>4, <2>5 DEF Written6, F
  <2> QED BY <2>2, <2>6 DEF D, next
<1> QED BY <1>11, <1>12, <1>13, <1>14, <1>15

\* The text of an IPv6 address: its fields are laid out as its groups.
LEMMA V6Laid ==
  ASSUME NEW addr \in Addresses6, NEW buflen \in Nat, buflen >= 46
  PROVE  \E t \in Seq(Nat), a \in 1..9, b \in 1..9 :
           /\ ipv6_format(addr, buflen) = Output(t) /\ Len(t) + 1 <= buflen /\ Free(t, DOT)
           /\ RunIs(GroupsOf(addr), ZeroRun(GroupsOf(addr)), a, b)
           /\ Laid6(Texts(addr), a, b, 8, Fields(t, COLON))
<1> DEFINE group == GroupsOf(addr)  run == ZeroRun(group)  D == Texts(addr)
<1>1. PICK upto : /\ ipv6_format(addr, buflen) = upto[8] /\ upto[0] = Empty
                  /\ \A k \in 1..8 : upto[k] = Group6(group, run, buflen, upto[k - 1], k)
  BY V6Steps
<1>2. group \in [1..8 -> Nat]
  <2>1. \A k \in 1..8 : group[k] \in Nat BY GroupTypes
  <2>2. group = [k \in 1..8 |-> group[k]] BY DEF GroupsOf
  <2> HIDE DEF group
  <2> QED BY <2>1, <2>2
<1>3. PICK a \in 1..9, b \in 1..9 : RunIs(group, run, a, b) BY <1>2, ZeroRunIs DEF RunIs
<1> HIDE DEF run
<1> DEFINE n == 8
           S == {k \in 0..n : Written6(D, a, b, k, upto[k])}
<1>4. 0 \in S
  <2> DEFINE e == <<>>
  <2>1. e \in Seq(Nat) /\ Len(e) = 0 /\ Empty = Output(e) BY DEF Empty, Output
  <2>2. Free(e, DOT) BY DEF Free
  <2>3. Written6(D, a, b, 0, Empty)
    <3>1. Len(e) <= 5 * 0 BY <2>1
    <3> HIDE DEF D
    <3>2. IF 0 = 0 THEN e = <<>> ELSE Laid6(D, a, b, 0, Fields(e, COLON)) OBVIOUS
    <3> HIDE DEF e
    <3> QED BY <2>1, <2>2, <3>1, <3>2, Zenon DEF Written6
  <2> QED BY <1>1, <2>3
<1>5. ASSUME NEW k \in 1..n, k - 1 \in S PROVE k \in S
  <2>1. Written6(D, a, b, k - 1, upto[k - 1]) /\ k \in 1..8 BY <1>5
  <2>2. Written6(D, a, b, k, Group6(group, run, buflen, upto[k - 1], k))
    <3>1. RunIs(GroupsOf(addr), run, a, b) /\ Written6(Texts(addr), a, b, k - 1, upto[k - 1]) BY <1>3, <2>1
    <3> QED BY <2>1, <3>1, V6Step
  <2>3. Written6(D, a, b, k, upto[k])
    <3> HIDE DEF D, group
    <3> QED BY <1>1, <2>1, <2>2
  <2> QED BY <2>1, <2>3
<1>6. n \in S
  <2>1. 0..n \subseteq S
    <3>1. n \in Nat OBVIOUS
    <3> HIDE DEF n, S
    <3> QED BY <1>4, <1>5, <3>1, BoundedInduction
  <2> QED BY <2>1
<1>7. Written6(D, a, b, 8, upto[8]) BY <1>6
<1>8. PICK t \in Seq(Nat) : /\ upto[8] = Output(t) /\ Len(t) <= 5 * 8 /\ Free(t, DOT)
                            /\ Laid6(D, a, b, 8, Fields(t, COLON))
  BY <1>7 DEF Written6
<1>9. Len(t) + 1 <= buflen
  <2>1. Len(t) \in Nat OBVIOUS
  <2> QED BY <1>8, <2>1
<1> QED BY <1>1, <1>3, <1>8, <1>9 DEF run

\* What the parser looks at.
Empties(f) == {i \in 1..Len(f) : f[i] = <<>>}
Whole6(f)  == Empties(f) = {} /\ Len(f) = 8
Run6(f) ==
  /\ \/ Len(f) = 3 /\ Empties(f) = 1..3
     \/ Len(f) > 2 /\ Empties(f) \in {{1, 2}, {Len(f) - 1, Len(f)}}
     \/ \E i \in 2..(Len(f) - 1) : Empties(f) = {i}
  /\ Len(f) - Cardinality(Empties(f)) < 8
Read6(f) == \A i \in (1..Len(f)) \ Empties(f) : ipv6_group(f[i]) # Refused
Value6(f, k) ==
  IF Whole6(f) \/ k < Min(Empties(f)) THEN ipv6_group(f[k])
  ELSE IF k > 8 - (Len(f) - Max(Empties(f))) THEN ipv6_group(f[Len(f) - (8 - k)]) ELSE 0

LEMMA ParsedIs ==
  ASSUME NEW s \in Seq(Nat), NEW G \in [1..8 -> Nat], NEW f, f = Fields(s, COLON),
         Whole6(f) \/ Run6(f), Read6(f), \A k \in 1..8 : Value6(f, k) = G[k],
         \A k \in 1..8 : k <= Len(f) \/ ~Whole6(f),
         Whole6(f) \/ \A k \in 1..8 : k < Min(Empties(f)) => k \in 1..Len(f),
         Whole6(f) \/ \A k \in 1..8 : k > 8 - (Len(f) - Max(Empties(f))) => Len(f) - (8 - k) \in 1..Len(f)
  PROVE  ipv6_parse(s) =
           [i \in 1..16 |-> IF i % 2 = 1 THEN G[(i + 1) \div 2] \div 256 ELSE G[i \div 2] % 256]
<1> DEFINE g     == Fields(s, COLON)
           n     == Len(g)
           empty == {i \in 1..n : g[i] = <<>>}
           group == [i \in 1..n |-> ipv6_group(g[i])]
           whole == empty = {} /\ n = 8
           run   == /\ \/ n = 3 /\ empty = 1..3
                       \/ n > 2 /\ empty \in {{1, 2}, {n - 1, n}}
                       \/ \E i \in 2..(n - 1) : empty = {i}
                    /\ n - Cardinality(empty) < 8
           value(k) == IF whole \/ k < Min(empty) THEN group[k]
                       ELSE IF k > 8 - (n - Max(empty)) THEN group[n - (8 - k)] ELSE 0
           byte(i) == IF i % 2 = 1 THEN value((i + 1) \div 2) \div 256 ELSE value(i \div 2) % 256
           bad == (~whole /\ ~run) \/ \E i \in (1..n) \ empty : group[i] = Refused
<1>1. ipv6_parse(s) = IF bad THEN <<>> ELSE [i \in 1..16 |-> byte(i)] BY DEF ipv6_parse
<1>2. g = f /\ n = Len(f) /\ empty = Empties(f) BY DEF Empties
<1>3. whole <=> Whole6(f)
  <2> HIDE DEF empty, n
  <2> QED BY <1>2 DEF Whole6
<1>4. run <=> Run6(f)
  <2> HIDE DEF empty, n
  <2> QED BY <1>2 DEF Run6
<1>5. \A i \in 1..n : group[i] = ipv6_group(f[i])
  <2> HIDE DEF n
  <2>1. g = f BY <1>2
  <2> QED BY <2>1
<1>6. ~bad
  <2>1. \A i \in (1..n) \ empty : group[i] # Refused
    <3> HIDE DEF empty, n, group, g
    <3> QED BY <1>2, <1>5 DEF Read6
  <2> HIDE DEF empty, n, group, g, whole, run
  <2> QED BY <1>3, <1>4, <2>1
<1>7. ASSUME NEW k \in 1..8 PROVE value(k) = G[k]
  <2>1. whole \/ k < Min(empty) => k \in 1..n
    <3>1. whole => k \in 1..n
      <4>1. whole => n = 8 OBVIOUS
      <4> HIDE DEF whole, n
      <4> QED BY <4>1
    <3> HIDE DEF empty, n, group, g, whole
    <3> QED BY <1>2, <1>3, <3>1
  <2>2. ~whole /\ k > 8 - (n - Max(empty)) => n - (8 - k) \in 1..n
    <3> HIDE DEF empty, n, group, g, whole
    <3> QED BY <1>2, <1>3
  <2>3. value(k) = Value6(f, k)
    <3> HIDE DEF empty, n, group, g, whole
    <3>1. CASE whole \/ k < Min(empty)
      <4>1. value(k) = group[k] BY <3>1
      <4>2. Value6(f, k) = ipv6_group(f[k]) BY <1>2, <1>3, <3>1 DEF Value6
      <4> HIDE DEF value
      <4> QED BY <1>5, <2>1, <3>1, <4>1, <4>2
    <3>2. CASE ~(whole \/ k < Min(empty)) /\ k > 8 - (n - Max(empty))
      <4>1. value(k) = group[n - (8 - k)] BY <3>2
      <4>2. Value6(f, k) = ipv6_group(f[n - (8 - k)]) BY <1>2, <1>3, <3>2 DEF Value6
      <4> DEFINE j == n - (8 - k)
      <4>3. j \in 1..n BY <2>2, <3>2
      <4>4. group[j] = ipv6_group(f[j])
        <5> HIDE DEF j
        <5> QED BY <1>5, <4>3
      <4> HIDE DEF value
      <4> QED BY <4>1, <4>2, <4>4
    <3>3. CASE ~(whole \/ k < Min(empty)) /\ ~(k > 8 - (n - Max(empty)))
      <4>1. value(k) = 0 BY <3>3
      <4>2. Value6(f, k) = 0 BY <1>2, <1>3, <3>3 DEF Value6
      <4> HIDE DEF value
      <4> QED BY <4>1, <4>2
    <3> HIDE DEF value
    <3> QED BY <3>1, <3>2, <3>3
  <2> HIDE DEF value
  <2> QED BY <2>3
<1>8. ASSUME NEW i \in 1..16
      PROVE  byte(i) = IF i % 2 = 1 THEN G[(i + 1) \div 2] \div 256 ELSE G[i \div 2] % 256
  <2>1. CASE i % 2 = 1
    <3> DEFINE k == (i + 1) \div 2
    <3>1. k \in 1..8 BY <2>1
    <3>2. byte(i) = value(k) \div 256
      <4> HIDE DEF value
      <4> QED BY <2>1
    <3>3. value(k) = G[k]
      <4> HIDE DEF value, k
      <4> QED BY <1>7, <3>1
    <3> HIDE DEF value, byte
    <3> QED BY <2>1, <3>2, <3>3
  <2>2. CASE i % 2 # 1
    <3> DEFINE k == i \div 2
    <3>1. k \in 1..8 BY <2>2
    <3>2. byte(i) = value(k) % 256
      <4> HIDE DEF value
      <4> QED BY <2>2
    <3>3. value(k) = G[k]
      <4> HIDE DEF value, k
      <4> QED BY <1>7, <3>1
    <3> HIDE DEF value, byte
    <3> QED BY <2>2, <3>2, <3>3
  <2> HIDE DEF byte
  <2> QED BY <2>1, <2>2
<1>9. ipv6_parse(s) = [i \in 1..16 |-> byte(i)]
  <2> HIDE DEF bad, byte
  <2> QED BY <1>1, <1>6
<1> HIDE DEF byte
<1> QED BY <1>8, <1>9

\* How far the empty fields of a run reach, where it begins at a and ends at
\* b, and how many fields there are.
Reach(a, b) == IF b = 8 THEN Past(a) + 1 ELSE Past(a)
Total6(a, b) == Reach(a, b) + (8 - b)

LEMMA ReachIs ==
  ASSUME NEW a \in 1..8, NEW b \in 1..8, a < b
  PROVE  /\ Past(a) \in 1..8 /\ a <= Past(a) /\ Past(a) <= b
         /\ Reach(a, b) \in 1..9 /\ Total6(a, b) \in 1..9 /\ Reach(a, b) <= Total6(a, b)
         /\ Past(a) <= Reach(a, b) /\ a <= Reach(a, b) /\ Total6(a, b) = Reach(a, b) + (8 - b)
         /\ a = 1 => Reach(a, b) = IF b = 8 THEN 3 ELSE 2
         /\ a # 1 => Reach(a, b) = IF b = 8 THEN a + 1 ELSE a
         /\ b = 8 => Total6(a, b) = Past(a) + 1
         /\ b # 8 => Total6(a, b) = Past(a) + (8 - b) /\ Reach(a, b) = Past(a)
         /\ b = 8 => Reach(a, b) = Past(a) + 1
BY DEF Reach, Total6, Past

LEMMA AfterRun ==
  ASSUME NEW b \in 1..8, NEW p \in 1..8, p <= b, NEW k \in 1..8, b < k
  PROVE  LET n == p + (8 - b) IN b # 8 /\ n - (8 - k) = p + (k - b) /\ n - (8 - k) \in 1..n
OBVIOUS

LEMMA EightIs ==
  ASSUME NEW a \in 1..8, NEW b \in 1..8
  PROVE  a <= 8 /\ (8 <= b <=> b = 8) /\ (b < 8 <=> b # 8)
OBVIOUS

LEMMA BeforeRun ==
  ASSUME NEW n \in 1..9, NEW a \in 1..8, NEW j \in 1..n, j < a
  PROVE  j \in 1..8
OBVIOUS

LEMMA WithinTotal ==
  ASSUME NEW n \in 1..9, NEW a \in 1..8, NEW e \in 1..9, e <= n
  PROVE  a..e \subseteq 1..n
OBVIOUS

LEMMA BehindRun ==
  ASSUME NEW b \in 1..8, NEW e \in 1..9, NEW n \in 1..9, n = e + (8 - b),
         NEW j \in 1..n, e < j
  PROVE  8 - (n - j) \in 1..8 /\ b < 8 - (n - j) /\ n - (8 - (8 - (n - j))) = j
OBVIOUS

\* Where the fields of what is laid out with a run are.
Spread(D, a, b, f) ==
  /\ Len(f) = Total6(a, b) /\ Empties(f) = a..Reach(a, b)
  /\ \A k \in 1..8 : k < a => f[k] = D[k]
  /\ \A k \in 1..8 : b < k => Len(f) - (8 - k) \in 1..Len(f) /\ f[Len(f) - (8 - k)] = D[k]

LEMMA LaidWithRun ==
  ASSUME NEW D \in [1..8 -> Seq(Nat)], \A k \in 1..8 : D[k] # <<>>,
         NEW a \in 1..8, NEW b \in 1..8, a < b, NEW f, Laid6(D, a, b, 8, f)
  PROVE  Spread(D, a, b, f)
<1> DEFINE p == Past(a)  e == Reach(a, b)  n == Total6(a, b)
<1>1. /\ p \in 1..8 /\ a <= p /\ p <= b /\ e \in 1..9 /\ n \in 1..9 /\ e <= n /\ p <= e /\ a <= e
      /\ n = e + (8 - b)
      /\ (b = 8 => n = p + 1 /\ e = p + 1) /\ (b # 8 => n = p + (8 - b) /\ e = p)
  BY ReachIs
<1>2. /\ b = 8 => Len(f) = p + 1 /\ f[p + 1] = <<>>
      /\ b # 8 => Len(f) = p + (8 - b)
      /\ \A j \in 1..8 : j < a => f[j] = D[j]
      /\ \A j \in a..p : f[j] = <<>>
      /\ \A j \in 1..8 : b < j => f[p + (j - b)] = D[j]
  <2>1. a <= 8 /\ (8 <= b <=> b = 8) /\ (b < 8 <=> b # 8)
    <3> HIDE DEF p
    <3> QED BY EightIs
  <2>2. /\ a <= 8 /\ 8 <= b => Len(f) = p + 1 /\ f[p + 1] = <<>>
        /\ b < 8 => Len(f) = p + (8 - b)
        /\ \A j \in 1..8 : j < a => f[j] = D[j]
        /\ a <= 8 => \A j \in a..p : f[j] = <<>>
        /\ \A j \in 1..8 : b < j => f[p + (j - b)] = D[j]
    <3> HIDE DEF p
    <3> QED BY DEF Laid6, p
  <2> HIDE DEF p
  <2> QED BY <2>1, <2>2, Zenon
<1> HIDE DEF p, e, n
<1>3. n = Len(f) BY <1>1, <1>2, Zenon
<1>4. ASSUME NEW k \in 1..8, b < k PROVE n - (8 - k) \in 1..n /\ f[n - (8 - k)] = D[k]
  <2>1. LET m == p + (8 - b) IN b # 8 /\ m - (8 - k) = p + (k - b) /\ m - (8 - k) \in 1..m
    BY <1>1, <1>4, AfterRun
  <2>2. n = p + (8 - b) BY <1>1, <2>1
  <2>3. f[p + (k - b)] = D[k] BY <1>2, <1>4
  <2> QED BY <2>1, <2>2, <2>3, Zenon
<1>5. ASSUME NEW j \in a..e PROVE f[j] = <<>>
  <2>1. j \in a..p \/ (b = 8 /\ j = p + 1) BY <1>1
  <2> QED BY <1>2, <2>1
<1>6. ASSUME NEW j \in 1..n, j \notin a..e PROVE f[j] # <<>>
  <2>1. CASE j < a
    <3>1. j \in 1..8 BY <1>1, <2>1, BeforeRun
    <3> QED BY <1>2, <2>1, <3>1
  <2>2. CASE ~(j < a)
    <3>1. j \in Int /\ e < j BY <1>1, <1>6, <2>2
    <3> DEFINE k == 8 - (n - j)
    <3>2. k \in 1..8 /\ b < k /\ n - (8 - k) = j BY <1>1, <3>1, BehindRun
    <3> HIDE DEF k
    <3> QED BY <1>4, <3>2
  <2> QED BY <2>1, <2>2
<1>7. Empties(f) = a..e
  <2>1. a..e \subseteq 1..n BY <1>1, WithinTotal
  <2>2. Empties(f) = {j \in 1..n : f[j] = <<>>} BY <1>3 DEF Empties
  <2> QED BY <1>5, <1>6, <2>1, <2>2
<1> QED BY <1>2, <1>3, <1>4, <1>7 DEF e, n, Spread

\* Such a run is one the parser accepts, and the groups it stands for.
LEMMA RunRead ==
  ASSUME NEW a \in 1..8, NEW b \in 1..8, a < b, NEW f,
         Len(f) = Total6(a, b), Empties(f) = a..Reach(a, b)
  PROVE  /\ Run6(f) /\ ~Whole6(f)
         /\ Min(Empties(f)) = a /\ 8 - (Len(f) - Max(Empties(f))) = b
<1> DEFINE e == Reach(a, b)  n == Total6(a, b)
<1>1. /\ e \in 1..9 /\ n \in 1..9 /\ e <= n /\ a <= e /\ n = e + (8 - b)
      /\ (a = 1 => e = IF b = 8 THEN 3 ELSE 2) /\ (a # 1 => e = IF b = 8 THEN a + 1 ELSE a)
  BY ReachIs
<1>2. Len(f) = n /\ Empties(f) = a..e OBVIOUS
<1> HIDE DEF e, n
<1>3. a..e # {} /\ a \in a..e /\ e \in a..e /\ a..e \subseteq Int
  <2>1. a \in 1..8 /\ e \in 1..9 /\ a <= e BY <1>1
  <2>2. a \in a..e /\ e \in a..e BY <2>1
  <2>3. a..e \subseteq Int OBVIOUS
  <2> QED BY <2>2, <2>3
<1>4. Min(a..e) = a
  <2>1. \A k \in a..e : a <= k OBVIOUS
  <2> QED BY <1>3, <2>1, MinIs
<1>5. Max(a..e) = e
  <2>1. \A k \in a..e : k <= e OBVIOUS
  <2> QED BY <1>3, <2>1, MaxIs
<1>6. 8 - (n - e) = b BY <1>1
<1>7. n - Cardinality(a..e) < 8
  <2>1. Cardinality(a..e) = IF a > e THEN 0 ELSE e - a + 1 BY <1>1, FS_Interval
  <2>2. ~(a > e) BY <1>1
  <2>3. n - (e - a + 1) < 8 BY <1>1
  <2>4. Cardinality(a..e) = e - a + 1 BY <2>1, <2>2
  <2> QED BY <2>3, <2>4
<1>8. \/ n = 3 /\ a..e = 1..3
      \/ n > 2 /\ a..e \in {{1, 2}, {n - 1, n}}
      \/ \E i \in 2..(n - 1) : a..e = {i}
  <2>1. CASE a = 1 /\ b = 8
    <3>1. e = 3 /\ n = 3 BY <1>1, <2>1
    <3> QED BY <2>1, <3>1
  <2>2. CASE a = 1 /\ b # 8
    <3>1. e = 2 /\ n > 2 BY <1>1, <2>2
    <3>2. 1..2 = {1, 2} OBVIOUS
    <3> QED BY <2>2, <3>1, <3>2
  <2>3. CASE a # 1 /\ b = 8
    <3>1. e = a + 1 /\ n = e BY <1>1, <2>3
    <3>2. n - 1 = a /\ n > 2 BY <2>3, <3>1
    <3>3. a..(a + 1) = {a, a + 1} OBVIOUS
    <3>4. a..e = {n - 1, n} BY <3>1, <3>2, <3>3, Zenon
    <3> QED BY <3>2, <3>4
  <2>4. CASE a # 1 /\ b # 8
    <3>1. e = a BY <1>1, <2>4
    <3>2. a \in 2..(n - 1) BY <1>1, <2>4, <3>1
    <3>3. a..a = {a} OBVIOUS
    <3>4. a..e = {a} BY <3>1, <3>3, Zenon
    <3> QED BY <3>2, <3>4
  <2> QED BY <2>1, <2>2, <2>3, <2>4
<1>9. Run6(f) BY <1>2, <1>7, <1>8 DEF Run6
<1>10. ~Whole6(f) BY <1>2, <1>3 DEF Whole6
<1> QED BY <1>2, <1>4, <1>5, <1>6, <1>9, <1>10

\* Laid out as the groups of an address, the fields are read as its groups.
LEMMA LaidIsRead ==
  ASSUME NEW addr \in Addresses6, NEW f, NEW a, NEW b,
         RunIs(GroupsOf(addr), ZeroRun(GroupsOf(addr)), a, b),
         Laid6(Texts(addr), a, b, 8, f)
  PROVE  /\ Whole6(f) \/ Run6(f)
         /\ Read6(f)
         /\ \A k \in 1..8 : Value6(f, k) = GroupsOf(addr)[k]
         /\ \A k \in 1..8 : k <= Len(f) \/ ~Whole6(f)
         /\ Whole6(f) \/ \A k \in 1..8 : k < Min(Empties(f)) => k \in 1..Len(f)
         /\ Whole6(f) \/ \A k \in 1..8 :
              k > 8 - (Len(f) - Max(Empties(f))) => Len(f) - (8 - k) \in 1..Len(f)
<1> DEFINE G == GroupsOf(addr)  D == Texts(addr)  run == ZeroRun(G)
<1>1. /\ D \in [1..8 -> Seq(Nat)]
      /\ \A k \in 1..8 : D[k] # <<>> /\ ipv6_group(D[k]) = G[k] /\ G[k] \in Nat
  <2>1. \A k \in 1..8 : D[k] \in Seq(Nat) /\ D[k] # <<>> /\ ipv6_group(D[k]) = G[k] BY GroupText
  <2>2. \A k \in 1..8 : G[k] \in Nat BY GroupTypes
  <2>3. D = [k \in 1..8 |-> D[k]] BY DEF Texts
  <2> HIDE DEF D, G
  <2> QED BY <2>1, <2>2, <2>3
<1>2. RunIs(G, run, a, b) /\ Laid6(D, a, b, 8, f) OBVIOUS
<1> HIDE DEF G, D, run
<1>3. \A x \in Nat : x # Refused BY DEF Refused
<1>4. CASE a = 9
  <2>1. Len(f) = 8 /\ \A j \in 1..8 : f[j] = D[j]
    <3>1. /\ 8 < a => Len(f) = 8
          /\ \A j \in 1..8 : j < a => f[j] = D[j]
      BY <1>2 DEF Laid6
    <3>2. 8 < a /\ \A j \in 1..8 : j < a BY <1>4
    <3> QED BY <3>1, <3>2
  <2>2. Empties(f) = {} BY <1>1, <2>1 DEF Empties
  <2>3. Whole6(f) BY <2>1, <2>2 DEF Whole6
  <2>4. \A k \in 1..8 : Value6(f, k) = G[k] BY <1>1, <2>1, <2>3 DEF Value6
  <2>5. Read6(f) BY <1>1, <1>3, <2>1 DEF Read6
  <2>6. \A k \in 1..8 : k <= 8 OBVIOUS
  <2> QED BY <2>1, <2>3, <2>4, <2>5, <2>6 DEF G
<1>5. CASE a # 9
  <2>1. a \in 1..8 /\ b \in 1..8 /\ a < b BY <1>2, <1>5 DEF RunIs
  <2> DEFINE e == Reach(a, b)  n == Total6(a, b)
  <2>2. /\ Len(f) = n /\ Empties(f) = a..e
        /\ \A k \in 1..8 : k < a => f[k] = D[k]
        /\ \A k \in 1..8 : b < k => Len(f) - (8 - k) \in 1..Len(f) /\ f[Len(f) - (8 - k)] = D[k]
    <3>1. D \in [1..8 -> Seq(Nat)] /\ (\A k \in 1..8 : D[k] # <<>>) /\ Laid6(D, a, b, 8, f) BY <1>1, <1>2
    <3>2. Spread(D, a, b, f) BY <2>1, <3>1, LaidWithRun
    <3> QED BY <3>2 DEF Spread
  <2>3. Run6(f) /\ ~Whole6(f) /\ Min(Empties(f)) = a /\ 8 - (Len(f) - Max(Empties(f))) = b
    BY <2>1, <2>2, RunRead
  <2>4. e \in 1..9 /\ n \in 1..9 /\ a <= e /\ e <= n /\ n = e + (8 - b) BY <2>1, ReachIs
  <2> HIDE DEF e, n
  <2>5. \A k \in 1..8 : k < a => k \in 1..n BY <2>1, <2>4
  <2>6. ASSUME NEW k \in 1..8 PROVE Value6(f, k) = G[k]
    <3> DEFINE m == Len(f) - (8 - k)
    <3>1. Value6(f, k) = IF k < a THEN ipv6_group(f[k]) ELSE IF k > b THEN ipv6_group(f[m]) ELSE 0
      BY <2>3 DEF Value6
    <3> HIDE DEF m
    <3>2. CASE k < a
      <4>1. f[k] = D[k] BY <2>2, <3>2
      <4> QED BY <1>1, <3>1, <3>2, <4>1
    <3>3. CASE ~(k < a) /\ k > b
      <4>1. f[m] = D[k] BY <2>1, <2>2, <3>3 DEF m
      <4> QED BY <1>1, <3>1, <3>3, <4>1
    <3>4. CASE ~(k < a) /\ ~(k > b)
      <4>1. a <= k /\ k <= b /\ k \in 0..8 BY <2>1, <3>4
      <4>2. k \in run BY <1>2, <4>1 DEF RunIs
      <4>3. G[k] = 0 BY <1>2, <4>2 DEF RunIs
      <4> QED BY <3>1, <3>4, <4>3
    <3> QED BY <3>2, <3>3, <3>4
  <2>7. Read6(f)
    <3>1. ASSUME NEW j \in 1..n, j \notin a..e PROVE ipv6_group(f[j]) # Refused
      <4>1. CASE j < a
        <5>1. j \in 1..8 BY <2>1, <2>4, <4>1, BeforeRun
        <5>2. f[j] = D[j] BY <2>2, <4>1, <5>1
        <5> QED BY <1>1, <1>3, <5>1, <5>2
      <4>2. CASE ~(j < a)
        <5>1. j \in Int /\ e < j BY <2>1, <2>4, <3>1, <4>2
        <5> DEFINE k == 8 - (n - j)
        <5>2. k \in 1..8 /\ b < k /\ n - (8 - k) = j BY <2>1, <2>4, <5>1, BehindRun
        <5> HIDE DEF k
        <5>3. f[j] = D[k] BY <2>2, <5>2
        <5> QED BY <1>1, <1>3, <5>2, <5>3
      <4> QED BY <4>1, <4>2
    <3> QED BY <2>2, <3>1 DEF Read6
  <2>8. \A k \in 1..8 : k > b => Len(f) - (8 - k) \in 1..Len(f)
    <3>1. \A k \in 1..8 : k > b => b < k BY <2>1
    <3> QED BY <2>2, <3>1
  <2>9. \A k \in 1..8 : k < a => k \in 1..Len(f) BY <2>2, <2>5
  <2> QED BY <2>3, <2>6, <2>7, <2>8, <2>9 DEF G
<1> QED BY <1>4, <1>5

LEMMA HalfOf ==
  ASSUME NEW i \in 1..16
  PROVE  /\ i % 2 = 1 => (i + 1) \div 2 \in 1..8 /\ 2 * ((i + 1) \div 2) - 1 = i
         /\ i % 2 # 1 => i \div 2 \in 1..8 /\ 2 * (i \div 2) = i
OBVIOUS

\* The bytes of an address are those of its groups.
LEMMA ByteOfGroups ==
  ASSUME NEW addr \in Addresses6, NEW i \in 1..16
  PROVE  addr[i] = IF i % 2 = 1 THEN GroupsOf(addr)[(i + 1) \div 2] \div 256
                   ELSE GroupsOf(addr)[i \div 2] % 256
<1>1. CASE i % 2 = 1
  <2>1. PICK k \in 1..8 : k = (i + 1) \div 2 /\ 2 * k - 1 = i BY <1>1, HalfOf
  <2>2. GroupsOf(addr)[k] \div 256 = High(addr, k)
    <3>1. PICK hi \in Octets, lo \in Octets : hi = High(addr, k) /\ lo = Low(addr, k)
      BY GroupTypes, Zenon
    <3>2. PICK w : w = Word(hi, lo) OBVIOUS
    <3>3. w \div 256 = hi BY <3>2, WordIs
    <3>4. GroupsOf(addr)[k] = w BY <3>1, <3>2, GroupTypes, Zenon
    <3> QED BY <3>1, <3>3, <3>4
  <2>3. GroupsOf(addr)[(i + 1) \div 2] \div 256 = addr[i] BY <2>1, <2>2 DEF High
  <2> QED BY <1>1, <2>3
<1>2. CASE i % 2 # 1
  <2>1. PICK k \in 1..8 : k = i \div 2 /\ 2 * k = i BY <1>2, HalfOf
  <2>2. GroupsOf(addr)[k] % 256 = Low(addr, k)
    <3>1. PICK hi \in Octets, lo \in Octets : hi = High(addr, k) /\ lo = Low(addr, k)
      BY GroupTypes, Zenon
    <3>2. PICK w : w = Word(hi, lo) OBVIOUS
    <3>3. w % 256 = lo BY <3>2, WordIs
    <3>4. GroupsOf(addr)[k] = w BY <3>1, <3>2, GroupTypes, Zenon
    <3> QED BY <3>1, <3>3, <3>4
  <2>3. GroupsOf(addr)[i \div 2] % 256 = addr[i] BY <2>1, <2>2 DEF Low
  <2> QED BY <1>2, <2>3
<1> QED BY <1>1, <1>2

\* An IPv6 address is read back from its text.
LEMMA V6IsItself ==
  ASSUME NEW addr \in Addresses6, NEW buflen \in Nat, buflen >= 46
  PROVE  \E t \in Seq(Nat) : /\ ipv6_format(addr, buflen) = Output(t) /\ Len(t) + 1 <= buflen
                             /\ parse_ip(t) = addr
<1>1. PICK t \in Seq(Nat), a \in 1..9, b \in 1..9 :
        /\ ipv6_format(addr, buflen) = Output(t) /\ Len(t) + 1 <= buflen /\ Free(t, DOT)
        /\ RunIs(GroupsOf(addr), ZeroRun(GroupsOf(addr)), a, b)
        /\ Laid6(Texts(addr), a, b, 8, Fields(t, COLON))
  BY V6Laid
<1> DEFINE G == GroupsOf(addr)  f == Fields(t, COLON)
<1>2. G \in [1..8 -> Nat]
  <2>1. \A k \in 1..8 : G[k] \in Nat BY GroupTypes
  <2>2. G = [k \in 1..8 |-> G[k]] BY DEF GroupsOf
  <2> HIDE DEF G
  <2> QED BY <2>1, <2>2
<1>3. ipv6_parse(t) =
        [i \in 1..16 |-> IF i % 2 = 1 THEN G[(i + 1) \div 2] \div 256 ELSE G[i \div 2] % 256]
  <2>1. /\ Whole6(f) \/ Run6(f)
        /\ Read6(f)
        /\ \A k \in 1..8 : Value6(f, k) = G[k]
        /\ \A k \in 1..8 : k <= Len(f) \/ ~Whole6(f)
        /\ Whole6(f) \/ \A k \in 1..8 : k < Min(Empties(f)) => k \in 1..Len(f)
        /\ Whole6(f) \/ \A k \in 1..8 :
             k > 8 - (Len(f) - Max(Empties(f))) => Len(f) - (8 - k) \in 1..Len(f)
    BY <1>1, LaidIsRead
  <2> HIDE DEF G
  <2> QED BY <1>2, <2>1, ParsedIs
<1>4. ipv6_parse(t) = addr
  <2>1. addr = [i \in 1..16 |-> addr[i]] BY DEF Addresses6
  <2>2. \A i \in 1..16 :
          addr[i] = IF i % 2 = 1 THEN G[(i + 1) \div 2] \div 256 ELSE G[i \div 2] % 256
    BY ByteOfGroups
  <2> HIDE DEF G
  <2> QED BY <1>3, <2>1, <2>2
<1>5. ipv4_parse(t) = <<>>
  <2>1. Fields(t, DOT) = <<t>> BY <1>1, FirstField
  <2>2. Len(Fields(t, DOT)) # 4
    <3>1. Len(<<t>>) # 4 OBVIOUS
    <3> QED BY <2>1, <3>1
  <2> QED BY <2>2 DEF ipv4_parse
<1>6. parse_ip(t) = addr BY <1>4, <1>5 DEF parse_ip
<1> QED BY <1>1, <1>6

IpAddresses == Addresses4 \cup Addresses6

LEMMA AddressLength ==
  ASSUME NEW addr \in IpAddresses
  PROVE  /\ addr \in Seq(Nat) /\ addr # <<>>
         /\ addr \in Addresses4 => Len(addr) = 4 /\ FamilyOf(addr) = INET
         /\ addr \in Addresses6 => Len(addr) = 16 /\ FamilyOf(addr) = INET6
<1>1. CASE addr \in Addresses4
  <2> DEFINE n == 4
  <2>1. n \in Nat /\ addr \in [1..n -> Nat]
    <3>1. \A x \in Octets : x \in Nat BY OctetIs
    <3>2. \A i \in 1..4 : addr[i] \in Nat BY <1>1, <3>1 DEF Addresses4
    <3> QED BY <1>1, <3>2 DEF Addresses4
  <2>2. addr \in Seq(Nat) /\ Len(addr) = n
    <3> HIDE DEF n
    <3> QED BY <2>1
  <2>3. FamilyOf(addr) = INET BY <2>2 DEF FamilyOf
  <2>4. ~(addr \in Addresses6)
    <3>1. DOMAIN addr = 1..4 BY <1>1 DEF Addresses4
    <3>2. 5 \in 1..16 /\ 5 \notin 1..4 OBVIOUS
    <3>3. addr \in Addresses6 => DOMAIN addr = 1..16 BY DEF Addresses6
    <3> QED BY <3>1, <3>2, <3>3
  <2>5. addr # <<>>
    <3>1. addr = <<>> => Len(addr) = 0 OBVIOUS
    <3> QED BY <2>2, <3>1
  <2> QED BY <2>2, <2>3, <2>4, <2>5
<1>2. CASE addr \in Addresses6
  <2> DEFINE n == 16
  <2>1. n \in Nat /\ addr \in [1..n -> Nat]
    <3>1. \A x \in Octets : x \in Nat BY OctetIs
    <3>2. \A i \in 1..16 : addr[i] \in Nat BY <1>2, <3>1 DEF Addresses6
    <3> QED BY <1>2, <3>2 DEF Addresses6
  <2>2. addr \in Seq(Nat) /\ Len(addr) = n
    <3> HIDE DEF n
    <3> QED BY <2>1
  <2>3. FamilyOf(addr) = INET6 BY <2>2 DEF FamilyOf
  <2>4. ~(addr \in Addresses4)
    <3>1. DOMAIN addr = 1..16 BY <1>2 DEF Addresses6
    <3>2. 5 \in 1..16 /\ 5 \notin 1..4 OBVIOUS
    <3>3. addr \in Addresses4 => DOMAIN addr = 1..4 BY DEF Addresses4
    <3> QED BY <3>1, <3>2, <3>3
  <2>5. addr # <<>>
    <3>1. addr = <<>> => Len(addr) = 0 OBVIOUS
    <3> QED BY <2>2, <3>1
  <2> QED BY <2>2, <2>3, <2>4, <2>5
<1> QED BY <1>1, <1>2 DEF IpAddresses

\* What is formatted in the family of an address is read back as the address
\* (format_ip and parse_ip): of the buffer only its least length is needed,
\* XURY_ENDPOINT_IP_MAX or more.
THEOREM FormattedIsReadBack ==
  ASSUME NEW addr \in IpAddresses, NEW buflen \in Nat, buflen >= 46
  PROVE  LET out == format_ip(FamilyOf(addr), addr, buflen)
         IN  out.rc = "OK" /\ out.text \in Seq(Nat) /\ Len(out.text) < buflen
             /\ parse_ip(out.text) = addr
<1> DEFINE out == format_ip(FamilyOf(addr), addr, buflen)
<1>1. buflen # 0 OBVIOUS
<1>2. CASE addr \in Addresses4
  <2>1. Len(addr) = 4 /\ FamilyOf(addr) = INET BY <1>2, AddressLength
  <2>2. PICK t \in Seq(Nat) : /\ ipv4_format(addr, buflen) = Output(t) /\ Len(t) + 1 <= buflen
                              /\ parse_ip(t) = addr
    BY <1>2, V4IsItself
  <2>3. Output(t).at = Len(t) /\ Output(t).text = t /\ Len(t) \in Nat BY DEF Output
  <2>4. INET # UNSPEC /\ family_addr_len[INET] = 4 BY DEF INET, UNSPEC, family_addr_len
  <2>5. ~(Len(t) + 1 > buflen) /\ Len(t) < buflen BY <2>2, <2>3
  <2>6. out = [rc |-> "OK", text |-> t]
    <3>1. out = [rc   |-> IF Output(t).at + 1 > buflen THEN "BUFFER_TOO_SMALL" ELSE "OK",
                 text |-> Output(t).text]
      BY <1>1, <2>1, <2>2, <2>4 DEF format_ip
    <3> HIDE DEF out
    <3> QED BY <2>3, <2>5, <3>1
  <2> HIDE DEF out
  <2>7. out.rc = "OK" /\ out.text = t BY <2>6
  <2> QED BY <2>2, <2>5, <2>7 DEF out
<1>3. CASE addr \in Addresses6
  <2>1. Len(addr) = 16 /\ FamilyOf(addr) = INET6 BY <1>3, AddressLength
  <2>2. PICK t \in Seq(Nat) : /\ ipv6_format(addr, buflen) = Output(t) /\ Len(t) + 1 <= buflen
                              /\ parse_ip(t) = addr
    BY <1>3, V6IsItself
  <2>3. Output(t).at = Len(t) /\ Output(t).text = t /\ Len(t) \in Nat BY DEF Output
  <2>4. INET6 # UNSPEC /\ INET6 # INET /\ family_addr_len[INET6] = 16
    BY DEF INET, INET6, UNSPEC, family_addr_len
  <2>5. ~(Len(t) + 1 > buflen) /\ Len(t) < buflen BY <2>2, <2>3
  <2>6. out = [rc |-> "OK", text |-> t]
    <3>1. out = [rc   |-> IF Output(t).at + 1 > buflen THEN "BUFFER_TOO_SMALL" ELSE "OK",
                 text |-> Output(t).text]
      BY <1>1, <2>1, <2>2, <2>4 DEF format_ip
    <3> HIDE DEF out
    <3> QED BY <2>3, <2>5, <3>1
  <2> HIDE DEF out
  <2>7. out.rc = "OK" /\ out.text = t BY <2>6
  <2> QED BY <2>2, <2>5, <2>7 DEF out
<1> QED BY <1>2, <1>3 DEF IpAddresses

\* A text is read as four bytes, as sixteen, or as none.
LEMMA AddressBytes ==
  ASSUME NEW s \in Seq(Nat), parse_ip(s) # <<>>
  PROVE  parse_ip(s) \in IpAddresses
<1>1. CASE ipv4_parse(s) # <<>>
  <2>1. ipv4_parse(s) \in Addresses4 BY <1>1, V4Text DEF Octets, Addresses4
  <2> QED BY <1>1, <2>1 DEF parse_ip, IpAddresses
<1>2. CASE ipv4_parse(s) = <<>>
  <2>1. ipv6_parse(s) # <<>> /\ parse_ip(s) = ipv6_parse(s) BY <1>2 DEF parse_ip
  <2>2. ipv6_parse(s) \in Addresses6 BY <2>1, V6Text DEF Octets, Addresses6
  <2> QED BY <2>1, <2>2 DEF IpAddresses
<1> QED BY <1>1, <1>2

\* endpoint_canonicalize rewrites the text of an endpoint and nothing else:
\* its family, its port and the bytes it stands for stay, endpoint_compare
\* finds the two equal, and a second call changes nothing.
THEOREM CanonicalIsSame ==
  ASSUME NEW ep \in [family : {UNSPEC, INET, INET6}, ip : Seq(Nat), port : Nat]
  PROVE  LET canonical == endpoint_canonicalize(ep)
         IN  /\ canonical \in [family : {UNSPEC, INET, INET6}, ip : Seq(Nat), port : Nat]
             /\ canonical.family = ep.family /\ canonical.port = ep.port
             /\ endpoint_to_bytes(canonical) = endpoint_to_bytes(ep)
             /\ endpoint_canonicalize(canonical) = canonical
             /\ endpoint_compare(ep, canonical) = 0
<1> DEFINE Endpoints == [family : {UNSPEC, INET, INET6}, ip : Seq(Nat), port : Nat]
           c == endpoint_canonicalize(ep)
           addr == parse_ip(ep.ip)
<1>1. ep.ip \in Seq(Nat) /\ ep.port \in Nat /\ ep.family \in {UNSPEC, INET, INET6} OBVIOUS
<1>2. addr \in Seq(Nat) BY <1>1, AddressText
<1>3. \A x \in Endpoints :
        x.family = ep.family /\ x.port = ep.port /\ endpoint_to_bytes(x) = endpoint_to_bytes(ep)
        /\ (x.ip = ep.ip \/ (addr # <<>> /\ ep.family # UNSPEC)) => endpoint_compare(ep, x) = 0
  <2> TAKE x \in Endpoints
  <2> SUFFICES ASSUME x.family = ep.family, x.port = ep.port,
                      endpoint_to_bytes(x) = endpoint_to_bytes(ep),
                      x.ip = ep.ip \/ (addr # <<>> /\ ep.family # UNSPEC)
               PROVE  endpoint_compare(ep, x) = 0
    OBVIOUS
  <2> DEFINE b == endpoint_to_bytes(ep)  p == <<ep.port>>
             a == IF b # <<>> /\ Len(b) = Len(b) THEN Compared(b, b) ELSE Compared(ep.ip, x.ip)
  <2>1. b \in Seq(Nat) /\ p \in Seq(Nat) /\ x.ip \in Seq(Nat)
    <3>1. <<>> \in Seq(Nat) OBVIOUS
    <3>2. b \in Seq(Nat) BY <1>2, <3>1 DEF endpoint_to_bytes
    <3> QED BY <1>1, <3>2
  <2>2. (addr # <<>> /\ ep.family # UNSPEC) => b # <<>> BY DEF endpoint_to_bytes
  <2>3. \A s \in Seq(Nat) : Compared(s, s) = 0 BY ComparedIsOrder
  <2>4. endpoint_compare(ep, x) = IF a # 0 THEN a ELSE Compared(p, p) BY DEF endpoint_compare
  <2> HIDE DEF b, p
  <2>5. a = 0
    <3>1. CASE b # <<>> BY <2>1, <2>3, <3>1
    <3>2. CASE b = <<>>
      <4>1. x.ip = ep.ip BY <2>2, <3>2
      <4> QED BY <1>1, <2>3, <3>2, <4>1
    <3> QED BY <3>1, <3>2
  <2>6. Compared(p, p) = 0 BY <2>1, <2>3
  <2> HIDE DEF a
  <2> QED BY <2>4, <2>5, <2>6
<1>4. CASE ep.family = UNSPEC \/ addr = <<>> \/ FamilyOf(addr) # ep.family
  <2>1. c = ep BY <1>4 DEF endpoint_canonicalize
  <2>2. endpoint_compare(ep, ep) = 0 BY <1>3
  <2>3. endpoint_canonicalize(ep) = ep BY <2>1
  <2> HIDE DEF c
  <2> QED BY <2>1, <2>2, <2>3 DEF c
<1>5. CASE ~(ep.family = UNSPEC \/ addr = <<>> \/ FamilyOf(addr) # ep.family)
  <2> DEFINE t == format_ip(FamilyOf(addr), addr, ENDPOINT_IP_MAX).text
  <2>1. ep.family # UNSPEC /\ addr # <<>> /\ FamilyOf(addr) = ep.family BY <1>5
  <2>2. t \in Seq(Nat) /\ parse_ip(t) = addr
    <3>1. addr \in IpAddresses BY <1>1, <2>1, AddressBytes
    <3>2. ENDPOINT_IP_MAX \in Nat /\ ENDPOINT_IP_MAX >= 46 BY AddressAssumption
    <3> HIDE DEF addr
    <3> QED BY <3>1, <3>2, FormattedIsReadBack
  <2> DEFINE d == [ep EXCEPT !.ip = t, !.family = FamilyOf(addr)]
  <2>3. c = d BY <1>5 DEF endpoint_canonicalize, endpoint_set_ip
  <2>4. d \in Endpoints /\ d.ip = t /\ d.family = ep.family /\ d.port = ep.port
    <3> HIDE DEF t, addr
    <3> QED BY <1>1, <2>1, <2>2
  <2>5. parse_ip(d.ip) = addr
    <3> HIDE DEF d, t, addr
    <3> QED BY <2>2, <2>4
  <2>6. endpoint_to_bytes(d) = endpoint_to_bytes(ep)
    <3> HIDE DEF d
    <3> QED BY <2>4, <2>5 DEF endpoint_to_bytes
  <2>7. endpoint_compare(ep, d) = 0
    <3> HIDE DEF d, addr
    <3> QED BY <1>3, <2>1, <2>4, <2>6
  <2>8. endpoint_canonicalize(d) = d
    <3>1. endpoint_canonicalize(d) = [d EXCEPT !.ip = t, !.family = FamilyOf(addr)]
      <4> HIDE DEF d
      <4> QED BY <2>1, <2>4, <2>5 DEF endpoint_canonicalize, endpoint_set_ip
    <3>2. [d EXCEPT !.ip = t, !.family = FamilyOf(addr)] = d
      <4> HIDE DEF t, addr
      <4> QED BY <1>1
    <3> QED BY <3>1, <3>2
  <2> HIDE DEF d, c
  <2> QED BY <2>3, <2>4, <2>6, <2>7, <2>8 DEF c
<1> QED BY <1>4, <1>5

\* Endpoints with an address of their family compare equal just when they are
\* one once canonical: canonicalizing depends on the bytes of the address and
\* keeps them.
LEMMA EqualOnceCanonical ==
  ASSUME NEW a \in Compareds, NEW b \in Compareds, Proper(a), Proper(b)
  PROVE  endpoint_compare(a, b) = 0 <=>
           endpoint_equal(endpoint_canonicalize(a), endpoint_canonicalize(b))
<1> DEFINE c == endpoint_canonicalize(a)
           d == endpoint_canonicalize(b)
           x == parse_ip(a.ip)
           y == parse_ip(b.ip)
<1>1. /\ a \in [family : {UNSPEC, INET, INET6}, ip : Seq(Nat), port : Nat]
      /\ b \in [family : {UNSPEC, INET, INET6}, ip : Seq(Nat), port : Nat]
  BY ApiAssumption
<1>2. ASSUME endpoint_compare(a, b) = 0 PROVE c = d
  <2>1. a.family = b.family /\ AddressOrder(a, b) = 0 /\ a.port = b.port
    BY <1>2, OrderOfParts, FamilyIsOrder, AddressIsOrder, PortIsOrder
  <2>2. CASE a.ip = b.ip
    <3>1. a = b BY <1>1, <2>1, <2>2
    <3> QED BY <3>1
  <2>3. CASE a.ip # b.ip
    <3>1. endpoint_to_bytes(a) # <<>> /\ endpoint_to_bytes(a) = endpoint_to_bytes(b)
      BY <2>1, <2>3, AddressIsOrder
    <3>2. a.family # UNSPEC /\ x = y /\ x # <<>> BY <2>1, <3>1 DEF endpoint_to_bytes
    <3>3. FamilyOf(x) = a.family /\ FamilyOf(y) = b.family BY DEF Proper
    <3> DEFINE t == format_ip(FamilyOf(x), x, ENDPOINT_IP_MAX).text
    <3>4. c = [a EXCEPT !.ip = t, !.family = FamilyOf(x)]
      BY <3>2, <3>3 DEF endpoint_canonicalize, endpoint_set_ip
    <3>5. d = [b EXCEPT !.ip = t, !.family = FamilyOf(x)]
      BY <2>1, <3>2, <3>3 DEF endpoint_canonicalize, endpoint_set_ip
    <3> HIDE DEF c, d, t, x, y
    <3> QED BY <1>1, <2>1, <3>4, <3>5
  <2> QED BY <2>2, <2>3
<1>3. ASSUME c = d PROVE endpoint_compare(a, b) = 0
  <2>1. /\ c.family = a.family /\ c.port = a.port
        /\ endpoint_to_bytes(c) = endpoint_to_bytes(a)
        /\ d.family = b.family /\ d.port = b.port
        /\ endpoint_to_bytes(d) = endpoint_to_bytes(b)
    BY <1>1, CanonicalIsSame
  <2>2. /\ a.family = b.family /\ a.port = b.port
        /\ endpoint_to_bytes(a) = endpoint_to_bytes(b)
    BY <1>3, <2>1
  <2>3. AddressOrder(a, b) = 0
    <3>1. AddressOrder(a, b) = Compared(Key(a), Key(b)) BY <2>2, ProperAddress
    <3>2. Key(a) = Key(b)
      <4>1. CASE a.family # UNSPEC BY <2>2, <4>1 DEF Key
      <4>2. CASE a.family = UNSPEC
        <5>1. c = a /\ d = b BY <2>2, <4>2 DEF endpoint_canonicalize
        <5> QED BY <1>3, <2>2, <4>2, <5>1 DEF Key
      <4> QED BY <4>1, <4>2
    <3> QED BY <3>1, <3>2, KeyType, ComparedIsOrder
  <2> QED BY <2>2, <2>3, OrderOfParts, FamilyIsOrder, AddressIsOrder, PortIsOrder
<1> QED BY <1>2, <1>3 DEF endpoint_equal

(* Comparing endpoints, whatever text a host has put into them, has        *)
(* opposite directions and agrees with the hash; where the text is an      *)
(* address of its family it is transitive, and agrees with the equality of *)
(* the canonical endpoints (types.c: xury_endpoint_compare,                *)
(* xury_endpoint_hash, xury_endpoint_equal).                                *)
THEOREM CompareAgreesWithHash == Session => []OrderAgreesWithHash
<1>1. SessionInit => OrderInv BY DEF SessionInit, OrderInv
<1>2. OrderInv => OrderAgreesWithHash
  <2> SUFFICES ASSUME OrderInv, tool = "order", phase = "answered" PROVE OrderAgreesWithHash
    BY DEF OrderAgreesWithHash
  <2>1. \A i \in 1..3 : given[i] \in Compareds BY DEF OrderInv
  <2>2. \A i, j \in 1..3 : told[i][j] = endpoint_compare(given[i], given[j]) BY DEF OrderInv
  <2>3. ASSUME NEW i \in 1..3, NEW j \in 1..3
        PROVE  /\ told[i][j] = -told[j][i]
               /\ told[i][j] = 0 => endpoint_hash(given[i]) = endpoint_hash(given[j])
               /\ Proper(given[i]) /\ Proper(given[j]) =>
                    (told[i][j] = 0 <=> endpoint_equal(endpoint_canonicalize(given[i]),
                                                       endpoint_canonicalize(given[j])))
    <3>1. given[i] \in Compareds /\ given[j] \in Compareds BY <2>1
    <3>2. /\ told[i][j] = endpoint_compare(given[i], given[j])
          /\ told[j][i] = endpoint_compare(given[j], given[i])
      BY <2>2
    <3>3. told[i][j] = -told[j][i] BY <3>1, <3>2, CompareIsAntisymmetric
    <3>4. told[i][j] = 0 => endpoint_hash(given[i]) = endpoint_hash(given[j])
      BY <3>1, <3>2, EqualsHashAlike
    <3>5. Proper(given[i]) /\ Proper(given[j]) =>
            (told[i][j] = 0 <=> endpoint_equal(endpoint_canonicalize(given[i]),
                                               endpoint_canonicalize(given[j])))
      BY <3>1, <3>2, EqualOnceCanonical
    <3> QED BY <3>3, <3>4, <3>5
  <2>4. (\A i \in 1..3 : Proper(given[i])) /\ told[1][2] <= 0 /\ told[2][3] <= 0
          => told[1][3] <= 0 /\ (told[1][3] = 0 => told[1][2] = 0 /\ told[2][3] = 0)
    <3>1. given[1] \in Compareds /\ given[2] \in Compareds /\ given[3] \in Compareds BY <2>1
    <3>2. /\ told[1][2] = endpoint_compare(given[1], given[2])
          /\ told[2][3] = endpoint_compare(given[2], given[3])
          /\ told[1][3] = endpoint_compare(given[1], given[3])
      BY <2>2
    <3> QED BY <3>1, <3>2, CompareIsTransitive DEF Composes
  <2> QED BY <2>3, <2>4 DEF OrderAgreesWithHash
<1> QED BY <1>1, <1>2, NextOrder, PTL DEF Session
=============================================================================

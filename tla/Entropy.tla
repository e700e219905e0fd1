------------------------------ MODULE Entropy ------------------------------
(***************************************************************************)
(* Secure random bytes (src/platform/posix/rand.c): threads that call      *)
(* xury_platform_rand_secure at the same time.  With getrandom each works  *)
(* on its own; without it they share one descriptor of /dev/urandom, which *)
(* the first to need it opens, without a lock: each read and each write of *)
(* the shared variable is a step.                                          *)
(*                                                                         *)
(* The kernel is external.  A read may be short or fail; an interrupted    *)
(* one is tried again and changes nothing.                                 *)
(***************************************************************************)
EXTENDS Integers, FiniteSets

CONSTANTS Threads,
          Fds,           \* the descriptors the kernel has to give
          MaxSize        \* the largest buffer asked for

NoFd == -1

ASSUME EntropyAssumption == NoFd \notin Fds /\ MaxSize \in Nat /\ IsFiniteSet(Threads)

VARIABLES
  kernel,    \* is there a getrandom: linked, and not ENOSYS
  shared,    \* g_urandom_fd
  open,      \* the open descriptors of the device
  pc,        \* per thread: "idle", "ask", "look", "open", "again", "yield", "take", "publish", "read"
  fd,        \* per thread: the local fd
  size, off, \* per thread: n and off
  buf,       \* per thread: where each byte of the buffer came from
  rc         \* per thread: what the last call returned

vars == <<kernel, shared, open, pc, fd, size, off, buf, rc>>

Bytes == 1..MaxSize
Untouched == [i \in Bytes |-> "nowhere"]

Init ==
  /\ kernel \in BOOLEAN
  /\ shared = NoFd /\ open = {}
  /\ pc = [t \in Threads |-> "idle"]
  /\ fd = [t \in Threads |-> NoFd]
  /\ size = [t \in Threads |-> 0] /\ off = [t \in Threads |-> 0]
  /\ buf = [t \in Threads |-> Untouched]
  /\ rc = [t \in Threads |-> "NONE"]

GoTo(t, label) == pc' = [pc EXCEPT ![t] = label]
Return(t, code) == GoTo(t, "idle") /\ rc' = [rc EXCEPT ![t] = code]

\* A call for no bytes or without a buffer returns at once and is left out.
Call(t) ==
  /\ pc[t] = "idle"
  /\ \E n \in Bytes : size' = [size EXCEPT ![t] = n]
  /\ off' = [off EXCEPT ![t] = 0]
  /\ buf' = [buf EXCEPT ![t] = Untouched]
  /\ rc' = [rc EXCEPT ![t] = "NONE"]
  /\ GoTo(t, "ask")
  /\ UNCHANGED <<kernel, shared, open, fd>>

\* The two fill loops: some of the missing bytes arrive.
\* Fault: a short read is taken for all.
AnyRead(t, k) == TRUE
Filled(t, k) == off[t] + k = size[t]
Missing(t) == 1..(size[t] - off[t])

Receive(t, source) ==
  /\ \E k \in Missing(t) :
       /\ buf' = [buf EXCEPT ![t] =
                   [i \in Bytes |-> IF i \in (off[t] + 1)..(off[t] + k) THEN source ELSE @[i]]]
       /\ off' = [off EXCEPT ![t] = @ + k]
       /\ IF Filled(t, k) THEN Return(t, "OK") ELSE UNCHANGED <<pc, rc>>
  /\ UNCHANGED <<kernel, shared, open, fd, size>>

Fail(t) ==
  /\ Return(t, "IO")
  /\ UNCHANGED <<kernel, shared, open, fd, size, off, buf>>

GetRandom(t) ==
  /\ pc[t] = "ask" /\ kernel
  /\ Receive(t, "getrandom") \/ Fail(t)

\* Only a kernel without getrandom sends the caller to the device.
NoGetRandom(t) ==
  /\ pc[t] = "ask" /\ ~kernel
  /\ GoTo(t, "look")
  /\ UNCHANGED <<kernel, shared, open, fd, size, off, buf, rc>>

\* urandom_get.  Fault: the variable is not looked at.
NeverOpen == FALSE
IsOpen == shared # NoFd

Look(t) ==
  /\ pc[t] = "look"
  /\ IF IsOpen THEN fd' = [fd EXCEPT ![t] = shared] /\ GoTo(t, "read")
               ELSE fd' = fd /\ GoTo(t, "open")
  /\ UNCHANGED <<kernel, shared, open, size, off, buf, rc>>

OpenDevice(t) ==
  /\ pc[t] = "open"
  /\ \/ Fail(t)
     \/ /\ \E f \in Fds \ open : open' = open \cup {f} /\ fd' = [fd EXCEPT ![t] = f]
        /\ GoTo(t, "again")
        /\ UNCHANGED <<kernel, shared, size, off, buf, rc>>

\* Has another thread been first?
LookAgain(t) ==
  /\ pc[t] = "again"
  /\ GoTo(t, IF shared # NoFd THEN "yield" ELSE "publish")
  /\ UNCHANGED <<kernel, shared, open, fd, size, off, buf, rc>>

\* Fault: the loser closes the descriptor of the winner.
Winners(t) == shared
Own(t) == fd[t]

Yield(t) ==
  /\ pc[t] = "yield"
  /\ open' = open \ {Own(t)}
  /\ GoTo(t, "take")
  /\ UNCHANGED <<kernel, shared, fd, size, off, buf, rc>>

Take(t) ==
  /\ pc[t] = "take"
  /\ fd' = [fd EXCEPT ![t] = shared]
  /\ GoTo(t, "read")
  /\ UNCHANGED <<kernel, shared, open, size, off, buf, rc>>

Publish(t) ==
  /\ pc[t] = "publish"
  /\ shared' = fd[t]
  /\ GoTo(t, "read")
  /\ UNCHANGED <<kernel, open, fd, size, off, buf, rc>>

ReadDevice(t) ==
  /\ pc[t] = "read"
  /\ Receive(t, "device") \/ Fail(t)

Step(t) == \/ Call(t) \/ GetRandom(t) \/ NoGetRandom(t)
           \/ Look(t) \/ OpenDevice(t) \/ LookAgain(t) \/ Yield(t) \/ Take(t) \/ Publish(t)
           \/ ReadDevice(t)

Next == \E t \in Threads : Step(t)

Spec == Init /\ [][Next]_vars
-----------------------------------------------------------------------------
Pcs == {"idle", "ask", "look", "open", "again", "yield", "take", "publish", "read"}
Sources == {"nowhere", "getrandom", "device"}

TypeOK ==
  /\ kernel \in BOOLEAN
  /\ shared \in Fds \cup {NoFd} /\ open \subseteq Fds
  /\ pc \in [Threads -> Pcs]
  /\ fd \in [Threads -> Fds \cup {NoFd}]
  /\ size \in [Threads -> 0..MaxSize] /\ off \in [Threads -> 0..MaxSize]
  /\ \A t \in Threads : off[t] <= size[t]
  /\ buf \in [Threads -> [Bytes -> Sources]]
  /\ rc \in [Threads -> {"NONE", "OK", "IO"}]

\* Whoever reads the device reads an open descriptor, whatever the other
\* threads open, publish and close meanwhile (rand.c:106-109 call the race
\* benign).
ReadsAreOpen ==
  \A t \in Threads : pc[t] = "read" => fd[t] \in open

\* rand.h: "Every call either fills the buffer completely or returns an
\* error", and the bytes are never from a weaker source than the kernel has.
AnswersAreWhole ==
  \A t \in Threads :
    pc[t] = "idle" /\ rc[t] = "OK" =>
      \A i \in 1..size[t] : buf[t][i] = IF kernel THEN "getrandom" ELSE "device"

\* The race may lose descriptors, but only one per thread for good.
DescriptorsBounded == Cardinality(open) <= Cardinality(Threads)

-----------------------------------------------------------------------------
(* The inductive invariant of the proofs.                                  *)

\* A thread that has opened the device and not yet published or closed it.
HasOwn(t) == pc[t] \in {"again", "yield", "publish"}

SharedIsOpen == shared # NoFd => shared \in open

OwnIsPrivate ==
  \A t \in Threads : HasOwn(t) =>
    /\ fd[t] \in open /\ fd[t] # shared
    /\ \A u \in Threads \ {t} : HasOwn(u) \/ pc[u] = "read" => fd[u] # fd[t]

Losers == \A t \in Threads : pc[t] \in {"yield", "take"} => shared # NoFd

\* What has been received is a prefix from one source.
Prefix ==
  \A t \in Threads :
    /\ pc[t] \notin {"idle", "ask"} => ~kernel
    /\ pc[t] \notin {"idle", "read"} /\ ~kernel => off[t] = 0
    /\ \A i \in 1..off[t] : buf[t][i] = IF kernel THEN "getrandom" ELSE "device"
    /\ pc[t] = "idle" /\ rc[t] = "OK" => off[t] = size[t]

\* While nothing is published every descriptor has its owner; a thread that may
\* still open one has none yet.
Opening == {t \in Threads : pc[t] = "open"}
Owners  == {t \in Threads : HasOwn(t)}

Counted ==
  /\ IsFiniteSet(open)
  /\ Cardinality(open) + Cardinality(Opening) <= Cardinality(Threads)
  /\ shared = NoFd => Cardinality(open) = Cardinality(Owners)

IInv == TypeOK /\ ReadsAreOpen /\ SharedIsOpen /\ OwnIsPrivate /\ Losers /\ Prefix
=============================================================================

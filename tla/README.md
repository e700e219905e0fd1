# Xury: a verification development

TLA+ models, TLC configurations and TLAPS proofs for Xury, a C11 library that
connects two peers behind NATs without a server of its own.

## 1. Inventory

Xury is layered: `core/` and `platform/` (sockets, time, random numbers,
memory, log), `src/api` (types, errors, configuration, hooks, the weapon
catalog), `scan/` and `analysis/` (what is the network like), `smart/` (cache,
early termination, learning), `weapons/` and `peer/` (the traversal
techniques), `blitz/` (the race that runs them). There are no threads of its
own yet; the comments plan BLITZ worker threads, and the hook dispatcher, the
random source and the global reference count are written for several threads.

| component | state it keeps | operations | interacts with | what is hard | what makes it correct |
|---|---|---|---|---|---|
| BLITZ race (`blitz/race.c`) | step, deadline, bounded history | `xury_blitz_race` | calls the advisor once, then the weapons one by one | budget shared by weapons that may ignore it; late answers; skips and failures in any order | no weapon gets "wait for ever"; nothing applicable is skipped; a working weapon wins; the overrun is bounded; the call returns |
| Weapon catalog (`api/weapon.c`) | static tables | priority, applicability, mask iteration, parsing | asked by the race and the scan | table and strategy must agree | strategies follow the priority table; applicability is what the flags say |
| Hooks (`api/hooks.c`) | hook set, shared reentrancy flag | enter, leave, fire x4 | host code, which may fire again; workers | test-then-set by several threads; host code re-entering | the flag is never stuck; the guard prevents nesting |
| Scan pipeline (`scan/scan.c`) | scan result | run, quick | sensing, cache, early termination, probing, math, classify, analysis | which partial results are kept and reused | a cached answer is one the network gave |
| Cache (`smart/cache.c`) | one slot in memory, its encoded form, a monotonic clock | load, store, invalidate | scan | clock reset, other network's slot | a fresh answer is young and for the same key |
| Early termination, learning (`smart/`) | counters per NAT type and weapon | decide; record, get | scan; race advisor | rules overlap | rule precedence; counts match outcomes |
| Sensing, math, classification, score (`scan/`, `analysis/`) | none | pure | scan | arithmetic edges | agree with their definitions |
| Probing (`scan/probing.c`) | socket, nonce, deadline | exchange, two phases | peers over UDP | late, lost, duplicated answers; byte layout | answers match requests; terminates within its budget |
| Hole punch, predict, ipv6, mirror (`weapons/`, `peer/mirror.c`) | socket, deadline | try/query | the peer over UDP through two NATs | loss, one-sided success, other senders | success only after a datagram of the peer |
| NAT-PMP, PCP, UPnP (`weapons/`) | socket, nonce, buffer | try | the gateway | lost answers leave mappings; byte layout; TCP segmentation | success only if the gateway mapped the port |
| Sockets (`core/sock.c`, `platform/posix/sock.c`) | descriptors | create, bind, connect, send, recv, poll | all of the above | sentinels 0 and 2^32-1; partial connect | timeouts mean what the header says |
| Random numbers (`core/rand.c`, `platform/posix/rand.c`) | cached descriptor, thread-local seed | secure, fast, below | nonces | two threads open the device at once; short reads | a filled buffer is filled; no read on a closed descriptor |
| Memory, log, time, bytes, endian (`core/`) | counters, sink, cursor | allocate, put, get, convert, write a line | everything | sizes that overflow; a put that fails half way | a failed put writes nothing; an array is granted whole |
| Errors, types, version, texts (`api/{err,types,version,xury}.c`) | the thread's stack of error frames; the reference count | translate, push, pop; parse, compare, hash, format | everything | truncation; a full stack; text and bytes of one address | what was written whole is read back; order, equality and hash agree |
| Config (`api/config.c`) | none | validate, defaults, normalize, fingerprint | engine, cache key | invariants between fields; the order they are enforced in | prepared means valid, and stays as it is when prepared again |
| Engine, peer relay/upgrade, `blitz/{cancel,winner}.c`, `smart/adaptive.c` | none | one-line files | nothing yet | nothing yet | not written yet |

How they talk. The race calls the advisor and the weapons synchronously; a
weapon owns one socket for the length of its call and talks to the world
outside by datagrams (UPnP also by TCP). The scan calls sensing, cache,
probing, classification and analysis in a fixed order and hands one result
record from one to the next; the cache calls back into the host for storage.
Hooks call into the host from whatever thread fires them, and the host may call
back into the library. Nothing else is shared between threads but the hook
flag, the global reference count, the allocator's counters and the descriptor
of the random device.

## 2. Modules

| module | models | form |
|---|---|---|
| `Weapon` | the catalog: weapons, priorities, the context fields each needs | operators |
| `RacePromise` | what a caller of the race is promised | abstract specification |
| `Race` | `xury_blitz_race`, step by step | state machine; implements `RacePromise` |
| `Hooks` | enter, leave and fire of the hook dispatcher, on several threads | state machine |
| `Cache` | load and the stored entry | operators |
| `ScanRules` | sensing, early termination, analysis, cache key | operators |
| `Scan` | `xury_scan_run` and `xury_scan_run_quick`, with the host's storage, clock, restarts and networks | state machine over `ScanRules` and `Cache` |
| `WeaponPromise` | what a caller of a weapon is promised | abstract specification |
| `Hole` | `xury_weapon_hole_try` on both peers, and the NATs and network between them | state machine, two processes and a world; each implements `WeaponPromise` |
| `Gateway` | `xury_weapon_natpmp_try`, `xury_weapon_pcp_try` and a gateway | state machine and a world; implements `WeaponPromise` |
| `Probing` | `xury_scan_probing` and the peers it asks | state machine and a world |
| `Sock` | the socket layer: what a call makes of the system's answer | operators |
| `Direct` | calls of the IPv6 and prediction weapons and of the mirror query, and the peer's side | state machine over `Sock`; implements `WeaponPromise` |
| `UpnpXml`, `UpnpHttp` | the readers of XML and of HTTP | operators |
| `Upnp` | `xury_weapon_upnp_try`, the SSDP answers and the gateway's streams | state machine over `UpnpHttp` and `Sock`; implements `WeaponPromise` |
| `Text`, `Version`, `Address`, `Errors`, `Bytes`, `NatMath`, `WeaponMask`, `Memory` | formatters and parsers; versions; addresses and endpoints; error codes and context; byte orders and the cursor; the NAT's numbers; sets of weapons; sizes, allocation statistics, bounded draws | operators |
| `Config` | validate, apply_defaults, normalize, fingerprint | operators |
| `Api` | a program using these tools call by call | state machine over the operators |
| `Entropy` | `xury_platform_rand_secure` on several threads, and the kernel's descriptors | state machine |
| `MC*` | contexts, networks, configurations for TLC | instances |
| `EngineProofs` | the theorems about `Race` and `Hooks` | proofs |
| `LibraryProofs` | the theorems about `Entropy`, `Config`, `Api` and `Address` | proofs |
| other `*Proofs` | the theorems of the module they are named after | proofs |

### State and actions against the code

**Race.** `pc` is the place in the function, `step` the index `step_index`
(from 1), `history` the array with its count, `actx` the attempt context given
to the weapon, `wres` what it returned. `Validate`, `SelectStrategy`,
`SkipStep`, `OutOfBudget`, `CallWeapon`, `Record` and `Exhausted` are the parts
of the loop body between two of its `continue`s or `goto`s. A weapon is its
contract: it runs up to its limit (`WeaponLimit`: the given timeout for those
that honour it, a limit of its own for the three that do not, none for the five
entries without an implementation) and returns any of the answers the
contract lists. Time passes only in weapon and advisor.

**Hooks.** A fire is a frame on its thread's stack. `xury_hooks_enter` is two
steps, test and set, because the flag is a plain `int` shared by engine and
workers; `xury_hooks_leave` clears, looks at the time, and possibly calls the log
hook. Host code (frames in `user` or `warn`) may fire further hooks.

**Scan.** One request at a time; `pc` walks sensing, memory load, the two takes of
early termination, probing, and store. `slot` is the host's storage (absent,
empty, garbage or an entry), `origin` is a history variable with the scan that
wrote it. The world may tick, roam, restart (the monotonic clock starts again,
the slot stays), damage or empty the slot.

**Hole.** Per peer the attempt's `pc`, deadline, wake time and socket. A round is
`SendPunch`, one of the `Check` actions (one datagram at most), then `GiveUp`
or `GoToSleep`, `WakeUp`, and send again, in the order of the code. A thread that is awake
may be held up for `Held`, between the poll and the look at the clock as well. The NAT maps
the socket at the first punch, to the port the peer was told or elsewhere. Addresses are
compared as text: `sockaddr_to_ep` spells a source as the system does, `given` is how
the caller has spelled the peer.

**Gateway.** One weapon attempt after another: `Begin` (the refusals before any
socket), `Open`, `Send`, then the receive loop `GiveUp`/`StartWait`,
`WaitEnds`/`Ignore`/`Accept`. Answers are byte positions: `NatpmpBytes` and
`PcpBytes` place header, result and nonce as the files' comments document,
`Matches` reads them where the code reads them. A wait returns up to `Slop` after there is
a datagram (`ready` is when) or its timeout is over, so the deadline may have passed
when a stray has been read and the next datagram is still in the queue. `Direct` and
`Probing` let time pass in the same way.

**Probing.** `turn` counts the exchanges: the first `PeerCount` are phase 1, the
others phase 2. An exchange is the same receive loop. What follows an exchange
(`Proceed`) is one step with it, as it is in the code without a wait between.
The two packet layouts, documented and as written by the code, are byte
functions; a peer understands one of them.

**Entropy.** `pc` is a thread's place in `getrandom_fill`, `urandom_get` and
`urandom_fill`; each read and write of `g_urandom_fd` (`shared`) is a step of its own
(`Look`, `OpenDevice`, `LookAgain`, then `Publish`, or `Yield` and `Take`), because nothing
orders them. The variable is a plain `int`: the model takes its accesses one at a
time, as machines do with aligned words, and grants no more. `Receive` is a turn of
either fill loop.

**Direct.** One call after another: `Begin` with its refusals, `Open`, the sends, then
the test of the deadline and the wait (`Listen`, `Receive`, `WaitTimesOut`,
`WaitFails`), for the three call kinds with what each one checks. The socket calls go through
`Sock`, sentinels included: 0 polls, `UINT32_MAX` waits for ever. Sources are compared as text,
as in `Hole` (`ntop`, `FromPeer`). The peer, its NAT, ours and other hosts answer, copy, delay and forge. A socket number may be
handed out again.

**Upnp.** `pc` walks the search (every answer restarts its wait), the two exchanges
over TCP (connect, send in pieces, headers, body) and what lies between them. The
gateway decides on a whole response; `stream` holds what of it is still to come, and
each `Receive` takes a piece of any length, or finds the stream stalled, closed or reset.
A document is a sequence of tags and texts; what is longer than a buffer is cut where
the code cuts it. A gateway that takes the mapping says so; one that does not answers
with one of `Denials`: a fault, one in an envelope that may be longer than the buffer, one that
breaks off, or nothing, with status 200 or 500 and a length declared rightly or not. The reading of a response is compared with `Meant`, the response
as the server meant it.

**Api.** A behaviour is a session with one tool. `Write` formats a value into a buffer
of some length and reads the text back; `Compare` takes two endpoints; `Push`, `Pop`
and `Clear` work the context stack; `Put`, `Rewind` and `Get` the cursor; `Prepare` runs
validate, apply_defaults and normalize; `Observe` hands in one more port. The operators are
those of the tool modules; `given` and `told` remember what went in and came out.

### How they compose

The race's weapons are contracts, and `WeaponPromise` is what they come to with sockets,
packets and the network forgotten. Its state is whether a call is running, how long it
may still take, and whether it has something to show. A call is refused, or it is given
one of the weapon's budgets (-1 for no limit); while it works, that only shrinks and what it has to
show is not lost; time passes only while some is left; it ends in a success only when it has something to show.
`Hole`, `Gateway`, `Direct` and `Upnp` each say in `Promise` what these are in their terms:

| module | budget of a call | evidence of a success |
|---|---|---|
| `Hole`, each peer | the timeout, one late wake-up and the round it wakes to; none for 0 | a punch from the other's address was heard |
| `Gateway` | the weapon's own timeout and one late wake-up | a mapping granted to this protocol and socket number |
| `Direct` | the timeout and one late wake-up; none for 0 and `UINT32_MAX` | a probe of this call was answered; for ipv6, a datagram has come |
| `Upnp` | the search and two exchanges, each one receive timeout per unit its buffers hold | an answer to this call's post, of status 200 and without a fault that can be read |

`Upnp`'s bound (`Left`) is the one nothing in the code writes down: each receive starts its
timeout again, so what bounds a call is that every receive that brings something leaves less room to receive into.
`Direct` and `Upnp` are built over `Sock`, `Upnp` over both its readers. `Scan` takes from
`Probing` its status and flags (`ProbingResult` lists the outcomes of
`FinalStatus`). The weapon sets of `Config`, `WeaponMask` and `Race` are those of
`Weapon`.

## 3. Runs

| run | instance | shows |
|---|---|---|
| `race` | five contexts, timeouts 0..2, with and without advisor | the race's invariants, that it returns, that it implements `RacePromise` |
| `hooks` | engine and one worker, depth 3, twelve hook sets | the flag never stuck; what the guard still prevents |
| `scan` | four networks, three configurations and none, clock 0..4 in half seconds, two boots | what is stored and reused |
| `hole` | one attempt each, clock 0..5, one stray datagram, one open NAT and one that filters, the peer spelled either way | success is contact; a punctual punch is seen; the budget holds; each peer implements `WeaponPromise` |
| `gateway` | two attempts, two socket numbers, one stray, two datagrams queued, clock 0..4 | success is a mapping; NAT-PMP hears an answer in time; implements `WeaponPromise` |
| `probing` | two peers, two samples, two ports, one repeat, two datagrams queued, both layouts | samples line up; budgets per exchange |
| `probing_wire` | the same | a disagreement (section 6) |
| `direct` | two calls of the three kinds, one socket number, two external ports, one stray or copy, two datagrams queued, the peer spelled either way, clock 0..4, timeouts none and 2 | success answers this call; an answer in time is not missed; the budget holds; implements `WeaponPromise` |
| `upnp` | two calls, three kinds of description, streams cut anywhere, lengths short and long, two statuses, four kinds of refusal | a response is read as it was meant; success is an answer to this call that no readable fault denies; the call ends; implements `WeaponPromise` |
| `upnp_control` | gateways that describe another service first | a disagreement (section 6) |
| `api` | see below | the tools' six invariants |
| `entropy` | three threads, four descriptors, buffers of one and two bytes, kernels with and without getrandom | no read on a closed descriptor; whole answers; bounded loss |

Why the bounds suffice. *Race*: the strategy lists and the catalog are the real
ones; timeouts 0..2 with weapons of limits 1 and 2 give a budget that ends
before, at and after each weapon; the theorems hold for every timeout and
limit. *Hooks*: the guard concerns pairs of frames; depth 3 and two threads
contain all pairs on one thread and on two, with a third below them. *Scan*: two
networks whose keys differ in one part only, an unidentified and a loopback-only
host are the classes the key and the sensing rules tell apart; four half-second
ticks pass a ttl of one second and the truncation of ages. *Hole*: the interval
is as long as the timeout, so that a nap begun late is cut; a queue of one makes a
stray keep the punch out until it is read; both peers may be punctual or late, a round may take
up a unit, and the clock runs past the latest end of an attempt with a budget. *Gateway*: two attempts that may get one socket number
are what a stale answer needs; a queue of two holds an answer behind a stray, and a timeout of two
with wake-ups one late lets that answer be reached or lost. *Probing*: two peers, one of them on IPv6, and two samples give first
and later exchanges in either phase on sockets of both families; a slice of two leaves time for a stray in
its middle. *Direct*: two calls on the one socket number
are what an answer to an earlier call needs; the queue and the wake-ups are those of
*Gateway*; with `UINT32_MAX` at 3 the timeout of 2 is the longest short of the sentinel. *Upnp*: a buffer of 6 header units holds a response with one
optional header and a unit of its body, and not one with both; the SOAP buffer of two units cuts the longer
answer, and a fault inside an envelope; two calls let an answer of the first come in the second. *Api*: `UINT_MAX` is
131071, so that a duration of minutes overflows; buffers from none to longer than every text;
frames to two past the depth; every sequence of up to four ports 0..12, which holds
rising, falling and repeating ones; the configurations put each number just inside
and outside its bounds and combine the weapons and features that normalize relates.
*Entropy*: two threads race and a third comes
before, between or after; two bytes make one read short; with one descriptor more than
threads a bound on the lost ones is not the kernel's.

Fairness. *Race*: weak fairness of the whole next step: one thread that is
scheduled, and every wait in it bounded. *Hole*: each peer's thread and the clock.
*Gateway*, *Probing*, *Direct* and *Upnp*: the calling thread's steps other than transport
errors, and the clock. Nothing is assumed of the network: it may lose
everything, and no liveness property relies on a failure to happen. *Hooks*, *Scan*, *Entropy* and *Api* have safety properties only and no fairness.

Deadlock is checked in every run but `api`, whose sessions end; the states where a model is over (`Done`,
`Stop`) have an explicit stuttering step.

## 4. Properties

* **Race**. `BudgetHandedDown`: no weapon ever gets 0, which ipv6, hole and predict
  read as "wait for ever", nor more than is left. `NoneSkipped`: the loop
  detector, the history limit and a long run of failures never skip a usable
  weapon. `WinIsKept`: a weapon that worked ends the race even after the deadline.
  `OverrunBounded`: one weapon's limit. `Termination`, `KeepsPromise`.
* **Hooks**. `FlagHasHolder`: whatever threads interleave, a raised flag has somebody
  inside who will lower it; otherwise every later hook would be dropped.
  `GuardHoldsAlone`: on an engine without workers host code runs inside host
  code only below the slow-hook warning.
* **Scan**. `ReuseIsEarned`: an entry used was measured for this configuration and
  this network, and within a boot not longer than ttl plus a second ago.
  `OnlyIdentifiedNetworks`, `JudgesAgree` (two copies of the IPv6 rule in two
  files agree).
* **Hole**. `SuccessIsHeard`, `PunctualPunchWins`, `Terminates`. The second is the order of a round: the
  poll after the last sleep comes before the clock. It has three conditions, each of which
  the code needs: the punch comes before the deadline by as much as a thread may be held up between
  poll and clock; no one else writes to the socket, because a round reads one datagram; and the
  caller has spelled the peer as the system does.
* **Gateway**. `SuccessIsMapped` (and, with a fresh socket number, for this very
  request), `NatpmpAnswerIsHeard`, `Terminates`. "Heard" is an answer that came early enough:
  the deadline is tested before every receive, so each datagram ahead of the answer may cost a
  late wake-up (`Reachable`). With none ahead, before the deadline is early enough. What comes behind
  the answer, or how much, does not matter.
* **Probing**. `SamplesAnswerTheirRequests`: sample i is the port the NAT used for
  request i, never a late answer's: the NAT analysis reads samples as a sequence.
  `TargetHasAnswered`, `SlicesAreKept`, `Terminates`.
* **Direct**. `SuccessIsAnswered`: a success of predict or mirror is due to one of this call's
  own probes, and mirror reports the port the peer saw for it; `PunctualAnswerWins`:
  an answer that came early enough for what lay before it in the queue (`Reachable`, as in
  *Gateway*) is not missed; `Terminates`.
* **Upnp**. `ResponseIsRead`: whatever the segmentation, an exchange that succeeds has the
  status and the body the server meant, as far as the buffer goes. `SuccessIsUndenied`: success
  stands on an answer to this very call's post in which no fault can be read; none that
  the buffer holds is lost to the way the stream came in pieces. Behind it is a mapping made in this call for the caller's
  port, or a refusal in which no fault can be read; that it is a mapping is more than the code ensures (section 6). `Terminates`: although each receive starts its
  timeout again.
* **All four weapons**. `KeepsPromise`: every execution is one of `WeaponPromise`. It relates what a
  call may still take to each of its steps. It implies that a call ends on time (`EndsOnTime` of
  `Hole`, `Gateway` and `Direct`, which is proved and has no run of its own) and says more:
  that no step gives time back, that before the first wait none passes, and that a call of `Upnp`, which
  ignores the budget it is given, is bounded however a gateway draws it out.
* **Api**. `WrittenIsReadBack`: a text that was said to be whole parses to the value
  it was made of. `OrderAgreesWithHash`: endpoints that compare equal have one hash, and those with an
  address of their family compare equal just when `xury_endpoint_equal` finds them equal once
  canonical; as given they need not be, since it compares texts ("0::1" is not "::1").
  `StackHoldsInnermost`, `BufferIsReadBack`, `PreparedIsValid`, `LinearIsPredicted`: what
  survives a stack that overflowed, a put that failed half way, a normalization in the
  wrong order, a NAT that counts down.
* **Entropy**. `ReadsAreOpen`: the loser of the race closes its own descriptor and never
  one that another thread reads. `AnswersAreWhole`: success means that every byte was
  filled, by getrandom if there is one. `DescriptorsBounded`: the comment at
  rand.c:106-109 calls the race benign because the loser closes its own; a thread that
  passed the second test too early does not, so the first published descriptor is
  lost. The loss is at most one per thread over the life of the process.

`MCApi` also asserts, over all small inputs and as `ASSUME`s that TLC evaluates, what the
pure helpers promise: bounded draws are uniform, an array is granted whole, a
mask is walked once and parsed back, the catalog's tables agree, an errno survives its two translations,
versions and durations parse, a log line fits, address scopes are disjoint.

Each property has a mutant in `PROJECT.json`: an operator marked `Fault:` beside the
definition it replaces, with which the run finds the property violated.

## 5. Theorems

For all values of the constants, under the named assumptions of the modules. These are
types of the constants, but for:

* `RaceAssumption`: the history has room for the longest strategy, as it has;
* `EntropyAssumption`: the threads are finitely many;
* `UpnpAssumption` and `UpnpHttpAssumption`: the buffers and the timeouts are not empty;
* `ApiAssumption`: a field said to be zero bytes is; the values a program writes are values of
  their types, an endpoint's text being an address of its family that fits its field
  (`Writable`); a NAT gives no more ports than the classifier keeps, and a line is not drawn through fewer than
  two of them;
* `AddressAssumption`: an endpoint's field has room for the longest IPv6 text, 46 with its NUL;
  `DigitsAssumption`: the largest `uint32_t` has no more than the ten digits that the formatters' scratch
  buffers hold, as 4294967295 has.

| module | invariant | theorems |
|---|---|---|
| `EngineProofs`, race | `IInv`: types, which phase sets which variable (`Phase`), the history mirrors the steps walked (`Position`), the clock is within the running weapon's limit (`Clock`) | `TypeCorrect`, `BudgetIsHandedDown`, `NothingSkipped`, `OverrunIsBounded`, `WorkingPathIsKept`, `Refinement` |
| `EngineProofs`, hooks | `FlagInv`: types, and a raised flag has a frame that holds it; the frames below the top never change; `Alone`, for an engine without workers: what may lie below what on its stack | `StacksAreTyped`, `FlagNeverStuck`, `GuardIsEnough` |
| `ScanProofs` | `IInv`: a key is the identity of what was sensed (`KeyIsSensed`), the entry is what its origin stored (`SlotHasOrigin`), a gateway implies sensing OK (`Sensed`) | `TypeCorrect`, `IdentifiedOnly`, `JudgesNeverDisagree`, `ReuseIsAlwaysEarned` |
| `HoleProofs` | `IInv`: per peer, `Queued` (what waits has been heard), `Punched`, `OnTime`, `Noticed` (a punctual punch is in the queue, and a round that has polled without it began early enough to sleep once more) | `TypeCorrect`, `BudgetIsKept`, `SuccessIsContact`, `PunctualPunchIsSeen`, `Refinement` |
| `GatewayProofs` | `IInv`: every answer in flight or queued stands for a mapping or a denial (`AllBacked`), is addressed to this socket (`Addressed`), and an answer that came early enough is queued, with time left for the late wake-ups before it (`Heard`) | `TypeCorrect`, `TimeoutIsKept`, `SuccessMeansMapped`, `NatpmpAnswerDecides`, `PcpIsDeaf`, `Refinement` |
| `ProbingProofs` | `IInv`: types, what is under way stands for a request that was sent (`UnderWay`), how many samples there are at each turn (`Sampled`), the slices spent so far (`Timed`), when a verdict is given (`Verdict`) | `TypeCorrect`, `SamplesAreInOrder`, `TargetIsAlive`, `EachKeepsItsSlice` |
| `DirectProofs` | `IInv`: types, the call under way (`CallType`), what is on its way and queued (`Contents`), the deadline is where the budget ends and no wait goes past it (`Timing`), what came early enough is queued, with time left for the late wake-ups before it (`Noticed`), every response queued or on its way that carries the call's nonce tells what one of its own probes was seen as (`Origin`) | `TypeCorrect`, `BudgetIsKept`, `SuccessAnswersThisCall`, `PunctualAnswerIsHeard`, `Refinement` |
| `UpnpProofs` | `IInv`: types, no response outside an exchange (`Quiet`), the clock of a receive (`Timing`), what is in the buffer followed by what is to come is the response (`Headers`) or its body (`Body`), an answer to a post is a refusal, readable or not, or comes with the mapping (`Answered`); `Timely`: no wait's clock is past its limit, and no mapping is of a later call | `TypeCorrect`, `ResponseIsUnderstood`, `SuccessMeansUndenied`, `Refinement` |
| `LibraryProofs`, random device | `IInv`: types, the shared descriptor is open (`SharedIsOpen`), what a thread has opened and not yet published is its alone (`OwnIsPrivate`), who yields has somebody to yield to (`Losers`), what was received is a prefix from one source (`Prefix`); `Counted`: the open descriptors and the threads that may still open one are no more than the threads | `TypeCorrect`, `NoReadAfterClose`, `NoPartialFill`, `LossIsBounded` |
| `LibraryProofs`, sessions | `ConfigInv`, `ContextInv` (what is held is the end of what was pushed, cut), `OrderInv`, `BufferInv` (there is a layout of the fields that went in, one after the other, and the cursor is at the next one) | `PreparedIsSound`, `PreparedIsStable`, `EveryPreparedIsValid`, `ContextIsInnermost`, `CompareAgreesWithHash`, `BufferReturnsWhatWentIn` |
| `LibraryProofs`, texts | `TextInv` (what was kept of a value's text is what the formatter made of it, and what was told is what the parser made of that) | `WrittenReadsBack` |
| `LibraryProofs`, ports | `PortsInv` (what is held and told is what the classifier and the regression make of the ports given) | `EqualStepsArePredicted` |
| `LibraryProofs`, addresses | none: they are about the functions of `Address` | `FormattedIsReadBack`, `CanonicalIsSame` |

The invariants the runs check are not inductive by themselves. `NoneSkipped`, for
instance, needs to know that the history never holds a later step than the
current one, which is what makes the loop detector silent; `OverrunBounded`
needs the running attempt's start to lie before the deadline. `PcpIsDeaf` has no
run: it says of every instance that no PCP attempt takes an answer in the documented layout.

*Answers behind strays*: `NatpmpAnswerDecides` and `PunctualAnswerIsHeard` rest on `TestedBy`: with i datagrams
ahead, the deadline is tested for the last time before the answer is read i late wake-ups from
now, or from when the wait had nothing more to wait for. Reading a stray takes one datagram off and starts
one more wait, which leaves that time where it was; so an answer stays within reach however many
datagrams arrive behind it.

*Hole*: the clock may move between poll and test, by `Held` in all while the thread is awake. `Noticed` therefore
speaks of when the round began (`wake`): a punch that arrives after the poll, early enough, finds a
round that will sleep once more, and the next one polls it.

*Direct*: a socket number may be handed out again, so the socket says nothing of whom a
datagram is for; `Origin` rests on the nonce, which grows with the calls, and on the
responses on their way never carrying a later one.

*Upnp*: `ResponseIsUnderstood` is a statement about streams of any length, cut anywhere, and
buffers of any size. `FrontOrder` says where line ends stand next to one another in a
response: at the end of its headers and nowhere before. So `HeadersAreSeen`: however much is in,
the end is seen when it is in, and where it is; `HeadersAreUnderstood` and `BodyIsFound`
say what is then known and how much of the body came along. `Taken` says that a
receive moves a piece from what is to come to what is in and leaves the whole alone; that is
`Headers` and `Body` for every reading step. A receive that brings nothing either finds the
exchange spoilt, or the stream at its end: then by `Headers` and `Body` the response
itself breaks off.

*The weapons' refinements* all go the same way: one lemma for a step after which the call goes
on (`GoesOn`: no time given back, no evidence lost), one for a step that ends it, one per
action that applies them, and the tick. `Hole`, `Gateway` and `Direct` need no more than
their inductive invariant: a wait is within the deadline, the deadline within the budget. `Upnp` needs
arithmetic as well. `WaitsAddUp` says that room for one unit less is at least one timeout less; `CallProceeds`
sums up each action of the call in three shapes (`Over`, `Posts`, `Proceeds`), the reading
ones with less room left (`Grown`); `LessIsLeft` goes through these shapes, where the clock a
receive gives back by starting again is at most the timeout it has used up in room (`Timely`).

*Sessions*: a buffer is read back because fields are laid one after the other and `Takes`
writes at the cursor or not at all, so that a layout survives every put, and a get reads
where the layout says. Comparing endpoints is a comparison of keys (family, then bytes or
text, then port), each an order; that they compose is `LexicographicComposes`.

*Texts and ports* need induction over data. The library's induction theorems take an operator,
which the provers cannot supply; `LibraryProofs` takes from it only that the order of `Nat` is well founded
and states induction for sets (`SetInduction`, `BoundedInduction`, `SequenceInduction`): the set
of the lengths, or texts, for which a fact holds. What is defined step by step is a recursive function in the
models, and `Recursion` says that such a function exists; so its definition can be unfolded (`DigitsAre`,
`UnsignedIs`, `FieldsGrow`, `TotalIsSum`). The rest is about the code. `UnsignedOfDigits`: reading
the digits of a number gives the number and never trips the overflow test. `AddressText`: a text that parses
has only the characters of its family, so the separators an endpoint's text is cut at are the ones it was
written with. `FormattedIsReadBack`: an IPv6 text with a run of zeros is the groups before the longest, `::`, and the
groups after it, and the parser fills the gap with as many zeros as were left out; so `endpoint_canonicalize`
changes the spelling and not the address (`CanonicalIsSame`). `TaggedFields`: the fields of a mask's text are the tags that went in, and no tag contains a comma.
`SlopeOfSteps`, `MedianConstant`, `VarianceConstant`, `DirectionOfSteps`: of equal steps every statistic is the
step itself, with no remainder. Fractions are exact in the model where the code has doubles.

The types of every state machine but `Api` are a theorem; `Api`'s variables have a type per tool.

Only model-checked:

* the liveness properties, whose proofs need ENABLED;
* the assertions of `MCApi` on the pure helpers, which say of single calls what the tools' invariants
  do not (but for `CanonicalIsStable`, which `CanonicalIsSame` states of every endpoint);
* the two violations (`RequestsAreUnderstood`, `ControlOfTheService`), which a counterexample settles.

The refinements of `RacePromise` and of `WeaponPromise` are checked and proved, but for
what fairness promises.

## 6. Where the code and its documents disagree

Shown by a run that expects the violation:

* `probing_wire`: the probe's type is written as two bytes where the header has one
  (`probing.c:139`, `internal/probing.h:60`); the mirror and the predictor write one.
* `upnp_control`: the control URL taken is the first of the document, not the one of the
  service that matched (`upnp.c:716`, against `upnp.c:666-672`).

Proved: `PcpIsDeaf`: the PCP decoder looks for the nonce one byte early (`pcp.c:378`,
against the layout at `pcp.c:64-67`), so no answer in that layout is accepted.

Visible in the models, without a run of their own:

* Punches of a peer whose IPv6 address the caller has spelled otherwise than `inet_ntop` does are discarded as
  another host's and the attempt times out (`hole.c:323`, against `hole.c:286-287`; `types.h:97` asks for "a textual
  address"). `predict.c:567` and `mirror.c:567` compare in the same way.
* A refusal with status 200 whose fault is past the buffer's end, breaks off or is missing is a success without a
  mapping (`upnp.c:929-937`, against "never a fake mapping", `internal/upnp.h:48`, and `upnp.c:947`); the flag
  for a cut body, which `internal/upnp_http.h:91-93` has callers check, is not looked at.
* `natpmp.c:323-325` gives a timeout when "no matching datagram" has come; after late wake-ups one may lie
  unread behind strays (`natpmp.c:357-359`; so in pcp, predict, mirror and probing).
* `xury_endpoint_equal` compares texts (`types.c:927`), where `xury_endpoint_compare` and the hash compare addresses.
* `race.h:174-175` promises to block for at most the timeout and a small overhead;
  natpmp, pcp and upnp ignore `ctx->timeout_ms` (`OverrunBounded` states what does hold).
* The slow-hook warning runs after the flag is lowered, so a log hook that logs nests,
  which the header excludes (`GuardHoldsAlone` names the exception).
* A cached result is said to be a measurement reused (`early_term.h:52-55`); a scan whose
  probing failed is stored as well and stops the next one before it probes.
* `weapon_ops.h:89-90` has the IPv6 weapon succeed when the peer replies; any datagram will do.
* `config.c:586` excludes the interface from the fingerprint; the code feeds it.
* `xury_config_apply_defaults` clears `out` before it reads `cfg` (`config.c:286`), so
  that preparing in place loses the input; and a configuration that normalize leaves without a weapon has
  the default ones once it is prepared again.
* `xury_endpoint_format_ip` says OK although the text was cut
  (`src/src/api/internal/types.h:149`).
* `xury_endpoint_compare` is said to order for sorting (same file, 184-191); with endpoints
  known by text only among others of both families it is not transitive.
* `fmt_pointer` loses the last of 16 digits; a version part above 255 runs into the next one.
* `XURY_ERR_PLATFORM_NOT_READY` is both retryable and fatal.
* `xury_rand_fast_bytes` does not seed the generator as the other calls do: on a thread that
  made no other call it hands out zeros (`core/rand.c:207`).

## 7. Plan

1. `LifeCycle`: the reference count of `xury.c`, with reads and writes of the plain counter as
   steps. `Learning`: counters against a log of what was recorded.
2. A budget of 0 in `Probing`, against the timeout its header promises.

## 8. Not modelled, and why

Names, messages and descriptions are left out; the clock and the log's level test have
no state that several steps relate. Learning's two tables of counters have each one writer and no relation between them. The
generator of fast random numbers is arithmetic on 64 bits, beyond TLC's integers. The Linux and Android
backends are system calls; what they report is an input. The engine, peer,
cancel, winner and adaptive files and three platforms hold one line each. Round-trip times in probing do not
influence any control the models have. `PROJECT.json` lists every component with its reason.

------------------------------ MODULE Gateway ------------------------------
(***************************************************************************)
(* The weapons that ask the gateway for a port mapping over UDP, NAT-PMP   *)
(* (src/weapons/natpmp.c) and PCP (src/weapons/pcp.c).  Attempts follow    *)
(* one another; each opens a socket, sends one request and waits for the   *)
(* matching answer until a fixed timeout.  The two differ in how an answer *)
(* is laid out and in PCP's nonce.                                         *)
(*                                                                         *)
(* The gateway and the network are external: a request may be granted,     *)
(* refused, answered in another protocol version, or lost; requests and    *)
(* answers may be delayed past their attempt and duplicated; and the       *)
(* system may hand a port number out again.  A wait returns up to Slop     *)
(* after there is a datagram or its timeout is over.                       *)
(***************************************************************************)
EXTENDS Integers, Sequences

CONSTANTS Sockets,       \* the local port numbers the system hands out
          Timeout,       \* NATPMP_TIMEOUT_MS, PCP_TIMEOUT_MS
          Slop,          \* how late a wait may return
          QueueCap, MaxNow, MaxAttempts, MaxNoise      \* bounds of the model

ASSUME GatewayAssumption ==
  /\ Timeout \in Nat \ {0} /\ Slop \in Nat
  /\ QueueCap \in Nat /\ MaxNow \in Nat /\ MaxAttempts \in Nat /\ MaxNoise \in Nat

Protocols == {"NATPMP", "PCP"}
Requests == [proto : Protocols, attempt : 1..MaxAttempts, socket : Sockets]
Answers == [to : Requests, from : {"gateway", "other"}, version : {0, 2}, result : {0, 1}]

VARIABLES
  now,       \* xury_platform_time_ms()
  pc,        \* "idle", "open", "send", "test", "wait"
  request,   \* the attempt's request
  deadline,  \* when the attempt gives up
  wake,      \* when the wait for a datagram is over
  ready,     \* since when the wait has had nothing more to wait for
  queue,     \* the datagrams waiting at the socket
  end,       \* how the last attempt ended, "none" while one runs
  attempts,  \* how many attempts have begun
  asked,     \* requests in flight
  answers,   \* answers in flight
  mapped,    \* the requests the gateway has granted
  noise,     \* how many datagrams others have sent or the network has copied
  used,      \* history: the sockets of earlier attempts
  early      \* history: has the answer arrived in time to be reached

attempt == <<request, deadline, wake, ready, queue, early>>
outside == <<asked, answers, mapped, noise>>
vars == <<now, pc, attempt, end, attempts, outside, used>>

NoRequest == [proto |-> "none"]

Init ==
  /\ now = 0 /\ pc = "idle" /\ end = "none" /\ attempts = 0
  /\ request = NoRequest /\ deadline = 0 /\ wake = 0 /\ ready = 0 /\ queue = <<>> /\ early = FALSE
  /\ asked = {} /\ answers = {} /\ mapped = {} /\ noise = 0 /\ used = {}
-----------------------------------------------------------------------------
(* Answers as bytes.  Only the fields the decoders look at carry data.     *)

Version(proto) == IF proto = "NATPMP" THEN 0 ELSE 2
MapResponse == 129       \* opcode 1 with the response bit, in both protocols

Nonce(r) == [i \in 1..12 |-> 16 * r.attempt + i]

\* RFC 6886: version, opcode, result, epoch, ports, lifetime.
NatpmpBytes(a) ==
  [i \in 1..16 |-> CASE i = 1 -> a.version
                     [] i = 2 -> MapResponse
                     [] i = 4 -> a.result
                     [] OTHER -> 0]

\* pcp.c:64-72: a header of 24 bytes, then the nonce.
PcpBytes(a) ==
  [i \in 1..60 |-> CASE i = 1 -> a.version
                     [] i = 2 -> MapResponse
                     [] i = 4 -> a.result
                     [] i \in 25..36 -> Nonce(a.to)[i - 24]
                     [] OTHER -> 0]

\* "Unsupported version" comes without a body.
Refusal(a) == <<a.version, MapResponse, 0, a.result>>

Bytes(a) ==
  IF a.version # Version(a.to.proto) THEN Refusal(a)
  ELSE IF a.to.proto = "NATPMP" THEN NatpmpBytes(a) ELSE PcpBytes(a)

Field(b, at, n) == [i \in 1..n |-> b[at + i]]

\* What decode_map_response reads, field after field, before the nonce.
PcpNonceAt == 1 + 1 + 1 + 4 + 4 + 12
PcpResultAt == 1 + 1

\* Fault: both protocols are held to the longer one.
AnswerLengthPcp(proto) == 60
AnswerLength(proto) == IF proto = "NATPMP" THEN 16 ELSE 60

\* exchange_once: from the gateway, long enough, of our version, a map
\* response, and for PCP with our nonce.
Matches(a, r) ==
  LET b == Bytes(a)
  IN /\ a.from = "gateway"
     /\ Len(b) >= AnswerLength(r.proto)
     /\ b[1] = Version(r.proto)
     /\ b[2] = MapResponse
     /\ r.proto = "PCP" => Field(b, PcpNonceAt, 12) = Nonce(r)

\* The result code is 0.
\* Fault: any matching answer will do.
AnyResult(a, proto) == TRUE
Granted(a, proto) ==
  LET b == Bytes(a)
  IN IF proto = "NATPMP" THEN Field(b, 2, 2) = <<0, 0>> ELSE b[PcpResultAt + 1] = 0
-----------------------------------------------------------------------------
(* The attempt.                                                            *)

\* The call begins.  A bad peer, a protocol the scan has not found or no
\* local port: no socket is opened.
Begin ==
  /\ pc = "idle" /\ attempts < MaxAttempts
  /\ attempts' = attempts + 1
  /\ \/ end' = "refused" /\ UNCHANGED <<pc, request>>
     \/ /\ now + Timeout + Slop <= MaxNow
        /\ end' = "none" /\ pc' = "open"
        /\ \E proto \in Protocols : request' = [proto |-> proto]
  /\ UNCHANGED <<now, deadline, wake, ready, queue, early, outside, used>>

\* Every way out closes the socket.
Finish(verdict) ==
  /\ pc' = "idle" /\ end' = verdict
  /\ request' = NoRequest /\ deadline' = 0 /\ wake' = 0 /\ ready' = 0
  /\ queue' = <<>> /\ early' = FALSE

\* Gateway, own address and nonce (PCP), socket: any may be missing.
Open ==
  /\ pc = "open"
  /\ \/ Finish("error") /\ UNCHANGED used
     \/ \E socket \in Sockets :
          /\ request' = [proto |-> request.proto, attempt |-> attempts, socket |-> socket]
          /\ pc' = "send"
          /\ UNCHANGED <<deadline, wake, ready, queue, early, end, used>>
  /\ UNCHANGED <<now, attempts, outside>>

Close(verdict) ==
  /\ Finish(verdict)
  /\ used' = used \cup {request.socket}
  /\ UNCHANGED <<now, attempts, outside>>

SendFails == pc = "send" /\ Close("error")

Send ==
  /\ pc = "send"
  /\ asked' = asked \cup {request}
  /\ deadline' = now + Timeout
  /\ pc' = "test"
  /\ UNCHANGED <<now, request, wake, ready, queue, early, end, attempts, answers, mapped, noise,
                 used>>

\* Fault: a deadline slept past is missed.
EqualOnly == now = deadline
TimedOut == now >= deadline

GiveUp ==
  /\ pc = "test"
  /\ TimedOut
  /\ Close("timeout")

\* The wait is what is left of the timeout.
\* Fault: each datagram gets the whole timeout.
WholeWait == Timeout
Wait == IF deadline - now < 1 THEN 1 ELSE deadline - now

StartWait ==
  /\ pc = "test"
  /\ ~TimedOut
  /\ wake' = now + Wait /\ ready' = now
  /\ pc' = "wait"
  /\ UNCHANGED <<now, request, deadline, queue, early, end, attempts, outside, used>>

\* A wait does not time out on a datagram that is there.
WaitEnds ==
  /\ pc = "wait" /\ queue = <<>>
  /\ now >= wake
  /\ pc' = "test"
  /\ UNCHANGED <<now, attempt, end, attempts, outside, used>>

ReceiveFails == pc = "wait" /\ Close("error")

\* A datagram that does not match is passed over.
Ignore ==
  /\ pc = "wait" /\ queue # <<>>
  /\ ~Matches(Head(queue), request)
  /\ queue' = Tail(queue)
  /\ pc' = "test"
  /\ UNCHANGED <<now, request, deadline, wake, ready, early, end, attempts, outside, used>>

Accept ==
  /\ pc = "wait" /\ queue # <<>>
  /\ Matches(Head(queue), request)
  /\ Close(IF Granted(Head(queue), request.proto) THEN "success" ELSE "denied")
-----------------------------------------------------------------------------
(* The gateway, the network, the clock.                                    *)

\* What is received may stay in flight, to be received again.
Passes(keep) ==
  /\ keep => noise < MaxNoise
  /\ noise' = IF keep THEN noise + 1 ELSE noise

\* The gateway grants or denies a request it understands; one of the other
\* protocol's making answers in its own version.
Serve ==
  /\ \E r \in asked, keep \in BOOLEAN, result \in {0, 1}, version \in {0, 2} :
       LET grants == version = Version(r.proto) /\ result = 0
       IN /\ version # Version(r.proto) => result = 1
          /\ Passes(keep)
          /\ asked' = IF keep THEN asked ELSE asked \ {r}
          /\ mapped' = IF grants THEN mapped \cup {r} ELSE mapped
          /\ answers' = answers \cup
               {[to |-> r, from |-> "gateway", version |-> version, result |-> result]}
  /\ UNCHANGED <<now, pc, attempt, end, attempts, used>>

Lose ==
  /\ \/ \E r \in asked : asked' = asked \ {r} /\ UNCHANGED answers
     \/ \E a \in answers : answers' = answers \ {a} /\ UNCHANGED asked
  /\ UNCHANGED <<now, pc, attempt, end, attempts, mapped, noise, used>>

Listening == pc \in {"send", "test", "wait"}

Arrives(a) ==
  /\ Listening /\ Len(queue) < QueueCap
  /\ request.socket = a.to.socket
  /\ queue' = Append(queue, a)
  /\ ready' = IF pc = "wait" /\ queue = <<>> THEN now ELSE ready

\* Is it the answer to this very request, from the gateway, in its version?
Proper(a) == a.to = request /\ a.from = "gateway" /\ a.version = Version(request.proto)

\* The datagrams ahead of an answer cost a late wake-up each, and the
\* deadline is tested again after every one of them.
Reachable(a) == Proper(a) /\ now + Len(queue) * Slop < deadline

Deliver ==
  /\ \E a \in answers, keep \in BOOLEAN :
       /\ Arrives(a)
       /\ Passes(keep)
       /\ early' = (early \/ Reachable(a))
       /\ answers' = IF keep THEN answers ELSE answers \ {a}
  /\ UNCHANGED <<now, pc, request, deadline, wake, end, attempts, asked, mapped, used>>

Noise ==
  /\ noise < MaxNoise /\ Listening
  /\ Arrives([to |-> request, from |-> "other", version |-> Version(request.proto), result |-> 0])
  /\ noise' = noise + 1
  /\ UNCHANGED <<now, pc, request, deadline, wake, early, end, attempts, asked, answers, mapped,
                 used>>

\* The clock moves while nothing runs or while the attempt waits; whatever
\* holds it up between two waits counts with the wait before.
Tick ==
  /\ now < MaxNow
  /\ pc = "idle" \/ (pc = "wait" /\ now < wake + Slop)
  /\ pc = "wait" /\ queue # <<>> => now < ready + Slop
  /\ now' = now + 1
  /\ UNCHANGED <<pc, attempt, end, attempts, outside, used>>

\* The model's clock has run out.
Stop == now = MaxNow /\ UNCHANGED vars

Work == Open \/ Send \/ GiveUp \/ StartWait \/ WaitEnds \/ Ignore \/ Accept
Run == Work \/ SendFails \/ ReceiveFails
World == Serve \/ Lose \/ Deliver \/ Noise

Next == Begin \/ Run \/ World \/ Tick \/ Stop

\* A running thread runs on, without a transport error to help it, and time
\* passes.
Spec == Init /\ [][Next]_vars /\ WF_vars(Work) /\ WF_vars(Tick)
-----------------------------------------------------------------------------
Ends(verdict) == end = "none" /\ end' = verdict

TypeOK ==
  /\ now \in 0..MaxNow
  /\ pc \in {"idle", "open", "send", "test", "wait"}
  /\ end \in {"none", "refused", "error", "timeout", "denied", "success"}
  /\ attempts \in 0..MaxAttempts /\ noise \in Nat
  /\ pc # "idle" => attempts > 0
  /\ pc = "idle" => request = NoRequest /\ queue = <<>>
  /\ pc = "open" => request \in [proto : Protocols] /\ queue = <<>>
  /\ Listening => request \in Requests /\ request.attempt = attempts
  /\ deadline \in Nat /\ wake \in Nat /\ ready \in Nat /\ early \in BOOLEAN
  /\ queue \in Seq(Answers)
  /\ asked \subseteq Requests /\ answers \subseteq Answers /\ mapped \subseteq Requests
  /\ used \subseteq Sockets

\* A success stands for a mapping the gateway made: one asked for from this
\* socket number, and by this very attempt unless the number was used before
\* (an answer carries nothing else that NAT-PMP compares).
SuccessIsMapped ==
  [][Ends("success") =>
       \E r \in mapped : /\ r.proto = request.proto /\ r.socket = request.socket
                         /\ request.socket \notin used => r = request]_vars

\* The exchange stays within its timeout, whatever arrives meanwhile.
EndsOnTime == Listening /\ pc # "send" => now <= deadline + Slop

\* Once asked, the attempt ends.
Terminates == Listening ~> pc = "idle"

\* The answer to this attempt's request decides the attempt once it has
\* arrived, by as many late wake-ups before the deadline as there are
\* datagrams ahead of it: it is not waited for in vain.
Overlooks(proto) == Ends("timeout") /\ request.proto = proto /\ early

NatpmpAnswerIsHeard == [][~Overlooks("NATPMP")]_vars

\* Every execution is one of WeaponPromise, on a limit of the weapon's own;
\* the evidence is a mapping granted to this protocol and socket number.
Promise == INSTANCE WeaponPromise WITH
  Budgets  <- {Timeout + Slop},
  clock    <- now,
  running  <- pc # "idle",
  left     <- IF pc = "idle" THEN 0
              ELSE IF pc \in {"test", "wait"} THEN deadline + Slop - now ELSE Timeout + Slop,
  evidence <- /\ Listening
              /\ \E r \in mapped : r.proto = request.proto /\ r.socket = request.socket,
  won      <- end = "success"

KeepsPromise == Promise!Spec
=============================================================================

------------------------------ MODULE Probing ------------------------------
(***************************************************************************)
(* The probing sub-phase (src/scan/probing.c): one call of                 *)
(* xury_scan_probing.  Phase 1 asks every peer once; phase 2 asks the      *)
(* first that answered again and again and keeps the external ports it     *)
(* reports.  Each exchange has a fresh nonce and its slice of the budget.  *)
(*                                                                         *)
(* Peers, NAT and network are external: a peer that understands a request  *)
(* reports the port the NAT gave it, then or late, once or more often.     *)
(***************************************************************************)
EXTENDS Integers, Sequences

CONSTANTS PeerCount,     \* peer_count
          Ipv6Peers,     \* the peers that see the caller at an IPv6 address
          Ports,         \* the external ports a NAT picks from
          Budgets,       \* the values of timeout_ms
          PortSamples,   \* XURY_PROBE_PORT_SAMPLES
          Slop,          \* how late a wait may return
          Formats,       \* how the peers lay out packets: "documented", "as_coded"
          QueueCap, MaxCopies      \* bounds of the model

ASSUME ProbingAssumption ==
  /\ PeerCount \in Nat \ {0} /\ Ipv6Peers \subseteq 1..PeerCount
  /\ Budgets \subseteq Nat \ {0} /\ Slop \in Nat /\ PortSamples \in Nat \ {0}
  /\ Formats \subseteq {"documented", "as_coded"}
  /\ QueueCap \in Nat /\ MaxCopies \in Nat

Peers == 1..PeerCount
Exchanges == PeerCount + PortSamples       \* at most so many

VARIABLES
  speaks,    \* the packet layout each peer uses
  slice,     \* per_peer_ms
  now,       \* time since the call
  pc,        \* "send", "test", "wait", "done"
  turn,      \* phase 1: the peer being asked; phase 2: PeerCount + the sample
  deadline, wake,
  queue,     \* the datagrams waiting at the socket
  asked,     \* requests in flight
  answers,   \* answers in flight
  copies,    \* how often the network has delivered something twice
  out,       \* the result
  first,     \* first_responder_index, 0 for none
  served,    \* history: the peers that have answered a request
  origin     \* history: the port each request went out from

exchange == <<deadline, wake>>
result == <<out, first>>
network == <<asked, answers, copies, served, origin>>
vars == <<speaks, slice, now, pc, turn, exchange, queue, network, result>>

Families == {4, 6}
Requests == [nonce : 1..Exchanges, to : Peers]
Packets == [nonce : 1..Exchanges, port : Ports, family : Families, layout : {"documented", "as_coded"}]
-----------------------------------------------------------------------------
(* Packets as bytes.  probing.h documents a type of one byte, the code     *)
(* writes and reads two; only the bytes this tells apart are kept.         *)

NonceByte(n, i) == 16 * n + i

\* xprb_encode_request: after magic, a type of two bytes and the nonce there
\* is one byte left for the port, which is not written.
\* probing.h:54-61 has type at offset 4, nonce at 5, port at 13.
RequestBytes(n) ==
  [i \in 1..15 |-> CASE i = 5 -> 0
                     [] i = 6 -> 1
                     [] i \in 7..14 -> NonceByte(n, i - 6)
                     [] OTHER -> 0]

DocumentedRequest(b, n) == b[5] = 1 /\ \A i \in 1..8 : b[5 + i] = NonceByte(n, i)
CodedRequest(b, n) == b[6] = 1 /\ \A i \in 1..8 : b[6 + i] = NonceByte(n, i)

\* probing.h:63-73, 36 bytes, and what the code reads, 37.
AnswerBytes(a) ==
  IF a.layout = "documented"
  THEN [i \in 1..36 |-> CASE i = 5 -> 2
                          [] i \in 6..13 -> NonceByte(a.nonce, i - 5)
                          [] i = 14 -> a.port
                          [] i = 36 -> a.family
                          [] OTHER -> 0]
  ELSE [i \in 1..37 |-> CASE i = 6 -> 2
                          [] i \in 7..14 -> NonceByte(a.nonce, i - 6)
                          [] i = 15 -> a.port
                          [] i = 37 -> a.family
                          [] OTHER -> 0]

\* xprb_decode and the tests of exchange_once: a whole response with our
\* nonce, from anyone.
\* Fault: the nonce is not compared.
AnyNonce(a, n) == LET b == AnswerBytes(a) IN Len(b) >= 37 /\ b[6] = 2
Accepts(a, n) ==
  LET b == AnswerBytes(a)
  IN Len(b) >= 37 /\ b[6] = 2 /\ \A i \in 1..8 : b[6 + i] = NonceByte(n, i)
-----------------------------------------------------------------------------
(* The call.  Its nonces are fresh: the turn's number stands for one.      *)

Phase1 == turn \in Peers
Target == IF Phase1 THEN turn ELSE first

Slice(budget) ==
  IF PeerCount > 1 THEN (IF budget \div PeerCount = 0 THEN 1 ELSE budget \div PeerCount)
  ELSE budget

Empty == [status |-> "SKIPPED", reachable |-> FALSE, ipv6 |-> FALSE, samples |-> <<>>]

\* The socket is open; without one the status is FAILED at once.
Init ==
  /\ speaks \in [Peers -> Formats]
  /\ slice \in {Slice(budget) : budget \in Budgets}
  /\ now = 0 /\ turn = 1 /\ deadline = 0 /\ wake = 0 /\ queue = <<>>
  /\ asked = {} /\ answers = {} /\ copies = 0 /\ served = {}
  /\ origin = [n \in 1..Exchanges |-> 0] /\ first = 0
  /\ \/ pc = "send" /\ out = Empty
     \/ pc = "done" /\ out = [Empty EXCEPT !.status = "FAILED"]

\* What follows an exchange: the next peer, then phase 2 if anyone answered,
\* until a sample is missed or there are enough of them.
FinalStatus(o, f) ==
  IF f = 0 THEN "FAILED" ELSE IF o.samples # <<>> THEN "OK" ELSE "PARTIAL"

\* Whether the phase and the call end here.  Fault: phase 1 ends at the first silent peer.
StopsAtSilence(ok, f) == ~ok \/ turn = Exchanges
IsOver(ok, f) ==
  \/ Phase1 /\ turn = PeerCount /\ f = 0
  \/ ~Phase1 /\ (~ok \/ turn = Exchanges)

Proceed(ok, o, f, rest) ==
  /\ turn' = turn + 1
  /\ first' = f
  /\ deadline' = 0 /\ wake' = 0
  /\ IF IsOver(ok, f)
     THEN /\ pc' = "done" /\ out' = [o EXCEPT !.status = FinalStatus(o, f)]
          /\ queue' = <<>>
     ELSE pc' = "send" /\ out' = o /\ queue' = rest

Answered(a, o) ==
  IF Phase1 THEN [o EXCEPT !.reachable = TRUE, !.ipv6 = @ \/ a.family = 6]
  ELSE [o EXCEPT !.samples = Append(@, [turn |-> turn, port |-> a.port])]

\* A send that fails, in whole or in part, is a peer that does not answer.
SendFails ==
  /\ pc = "send"
  /\ Proceed(FALSE, out, first, queue)
  /\ UNCHANGED <<speaks, slice, now, network>>

Send ==
  /\ pc = "send"
  /\ \E port \in Ports :
       /\ asked' = asked \cup {[nonce |-> turn, to |-> Target]}
       /\ origin' = [origin EXCEPT ![turn] = port]
  /\ deadline' = now + slice
  /\ pc' = "test"
  /\ UNCHANGED <<speaks, slice, now, turn, wake, queue, answers, copies, served, result>>

\* Fault: a deadline slept past is missed.
EqualOnly == now = deadline
TimedOut == now >= deadline

GiveUp ==
  /\ pc = "test"
  /\ TimedOut
  /\ Proceed(FALSE, out, first, queue)
  /\ UNCHANGED <<speaks, slice, now, network>>

\* Fault: each datagram gets the whole slice.
WholeSlice == slice
Wait == deadline - now

StartWait ==
  /\ pc = "test"
  /\ ~TimedOut
  /\ wake' = now + Wait
  /\ pc' = "wait"
  /\ UNCHANGED <<speaks, slice, now, turn, deadline, queue, network, result>>

WaitEnds ==
  /\ pc = "wait"
  /\ queue = <<>> /\ now >= wake
  /\ pc' = "test"
  /\ UNCHANGED <<speaks, slice, now, turn, exchange, queue, network, result>>

ReceiveFails ==
  /\ pc = "wait"
  /\ Proceed(FALSE, out, first, queue)
  /\ UNCHANGED <<speaks, slice, now, network>>

Ignore ==
  /\ pc = "wait" /\ queue # <<>>
  /\ ~Accepts(Head(queue), turn)
  /\ queue' = Tail(queue)
  /\ pc' = "test"
  /\ UNCHANGED <<speaks, slice, now, turn, exchange, network, result>>

Accept ==
  /\ pc = "wait" /\ queue # <<>>
  /\ Accepts(Head(queue), turn)
  /\ Proceed(TRUE, Answered(Head(queue), out), IF first = 0 THEN turn ELSE first, Tail(queue))
  /\ UNCHANGED <<speaks, slice, now, network>>
-----------------------------------------------------------------------------
(* Peers, NAT, network, clock.  What is in flight may stay there: lost.     *)

Understands(p, r) ==
  IF speaks[p] = "documented" THEN DocumentedRequest(RequestBytes(r.nonce), r.nonce)
  ELSE CodedRequest(RequestBytes(r.nonce), r.nonce)

\* What is received may stay in flight, to be received again.
Passes(keep) ==
  /\ keep => copies < MaxCopies
  /\ copies' = IF keep THEN copies + 1 ELSE copies

Serve ==
  /\ pc # "done"
  /\ \E r \in asked :
       /\ Understands(r.to, r)
       /\ asked' = asked \ {r}
       /\ answers' = answers \cup {[nonce |-> r.nonce, port |-> origin[r.nonce],
                                    family |-> IF r.to \in Ipv6Peers THEN 6 ELSE 4,
                                    layout |-> speaks[r.to]]}
       /\ served' = served \cup {r.to}
  /\ UNCHANGED <<speaks, slice, now, pc, turn, exchange, queue, copies, origin, result>>

Deliver ==
  /\ pc # "done" /\ Len(queue) < QueueCap
  /\ \E a \in answers, keep \in BOOLEAN :
       /\ Passes(keep)
       /\ queue' = Append(queue, a)
       /\ answers' = IF keep THEN answers ELSE answers \ {a}
  /\ UNCHANGED <<speaks, slice, now, pc, turn, exchange, asked, served, origin, result>>

\* Computing takes no time: the clock moves while the call waits.  It may
\* move on with datagrams queued: a wait may return late (here even as late
\* as after its timeout) whatever has come, and the deadline is then tested
\* after each of them.
Tick ==
  /\ pc = "wait" /\ now < wake + Slop
  /\ now' = now + 1
  /\ UNCHANGED <<speaks, slice, pc, turn, exchange, queue, network, result>>

Stop == pc = "done" /\ UNCHANGED vars

Work == Send \/ GiveUp \/ StartWait \/ WaitEnds \/ Ignore \/ Accept
Next == Work \/ SendFails \/ ReceiveFails \/ Serve \/ Deliver \/ Tick \/ Stop

\* The calling thread runs on, without a transport error to help it, and
\* time passes.
Spec == Init /\ [][Next]_vars /\ WF_vars(Work) /\ WF_vars(Tick)
-----------------------------------------------------------------------------
Samples == [turn : 1..Exchanges, port : Ports]
Results == [status : {"SKIPPED", "FAILED", "PARTIAL", "OK"}, reachable : BOOLEAN,
            ipv6 : BOOLEAN, samples : Seq(Samples)]

TypeOK ==
  /\ speaks \in [Peers -> {"documented", "as_coded"}]
  /\ slice \in Nat \ {0} /\ now \in Nat /\ deadline \in Nat /\ wake \in Nat
  /\ pc \in {"send", "test", "wait", "done"}
  /\ turn \in 1..Exchanges + 1 /\ (pc # "done" => turn <= Exchanges)
  /\ queue \in Seq(Packets)
  /\ asked \subseteq Requests /\ answers \subseteq Packets /\ copies \in Nat
  /\ out \in Results
  /\ first \in Peers \cup {0} /\ (pc # "done" /\ ~Phase1 => first # 0)
  /\ served \subseteq Peers
  /\ origin \in [1..Exchanges -> Ports \cup {0}]

\* Each sample is the port seen on the request it was asked for with: never
\* an answer to an earlier request, late or twice (math and the
\* classification read the samples as a sequence in time).
SamplesAnswerTheirRequests ==
  \A i \in 1..Len(out.samples) :
    /\ out.samples[i].turn = PeerCount + i
    /\ out.samples[i].port = origin[PeerCount + i]

\* The peer the samples come from has itself answered; only then is the
\* peer side called reachable.
TargetHasAnswered ==
  /\ first # 0 => first \in served
  /\ out.reachable <=> first # 0

\* A silent peer costs its slice and no more, and no other peer its turn.
SlicesAreKept ==
  /\ now <= (IF pc \in {"send", "done"} THEN turn - 1 ELSE turn) * (slice + Slop)
  /\ out.status = "FAILED" => turn \in {1, PeerCount + 1}

\* A call with a budget returns.
Terminates == <>(pc = "done")

\* probing.h:54-61: requests are laid out as documented.
RequestsAreUnderstood ==
  \A r \in asked : DocumentedRequest(RequestBytes(r.nonce), r.nonce)
=============================================================================

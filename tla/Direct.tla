------------------------------- MODULE Direct -------------------------------
(***************************************************************************)
(* The three that ask the peer itself over UDP, on the socket layer: the   *)
(* IPv6 weapon (src/weapons/ipv6.c), port prediction                       *)
(* (src/weapons/predict.c) and the mirror query (src/peer/mirror.c).       *)
(* Calls follow one another; each opens a socket, sends its probes and     *)
(* waits for what it takes for the peer's answer.                          *)
(*                                                                         *)
(* The peer, its NAT and ours, other hosts, the system and the clock are   *)
(* external: a probe reaches the peer when it is sent to the port the      *)
(* peer's NAT has given it; answers may be lost, delayed past their call,  *)
(* duplicated, sent from another port; a socket number may be handed out   *)
(* again; a wait may be interrupted or end for nothing, and it returns up  *)
(* to Slop after there is a datagram or its timeout is over.               *)
(***************************************************************************)
EXTENDS Sock, Sequences

CONSTANTS Kinds,         \* the calls made: "ipv6", "predict", "mirror"
          Targets,       \* the peer endpoints given, [family, ip, text, port]
          Timeouts,      \* the values of timeout_ms
          Sockets,       \* the local port numbers the system hands out
          Ports,         \* the external ports our NAT picks from
          Slop,          \* how late a wait may return
          QueueCap, MaxNow, MaxCalls, MaxNoise      \* bounds of the model

ASSUME DirectAssumption ==
  /\ Kinds \subseteq {"ipv6", "predict", "mirror"}
  /\ Timeouts \subseteq 0..UINT32_MAX /\ Slop \in Nat
  /\ QueueCap \in Nat /\ MaxNow \in Nat /\ MaxCalls \in Nat /\ MaxNoise \in Nat

VARIABLES
  now,       \* time since the call began
  pc,        \* "idle", "open", "send", "send_predicted", "test", "wait"
  call,      \* what was asked for: kind, peer, timeout, predicted, socket
  deadline,  \* deadline_ms, 0 for none
  since,     \* when the wait for a datagram began
  wait,      \* its timeout
  ready,     \* since when the wait has had nothing more to wait for
  queue,     \* the datagrams waiting at the socket
  end,       \* how the last call ended
  calls,     \* how many calls have begun: the nonce of the current one
  peerAt,    \* the port the peer's NAT has given it
  probes,    \* probes in flight to the peer; those sent elsewhere are lost
  answers,   \* answers in flight
  noise,     \* how often others have sent or the network has copied
  reached,   \* history: this call's probes that the peer has answered
  limit,     \* history: when the budget of this call is spent
  early      \* history: has what counts as an answer arrived in time

waiting == <<deadline, since, wait, limit>>
outside == <<peerAt, probes, answers, noise, reached>>
inbox == <<ready, queue>>
vars == <<now, pc, call, waiting, inbox, end, calls, outside, early>>

PeerPorts == {"current", "predicted", "third"}
NoCall == [kind |-> "none"]
NoSocket == -1
Running == [how |-> "running"]
-----------------------------------------------------------------------------
(* XPRB packets, as the fields the decoders look at.                       *)

REQUEST_SIZE == 15
RESPONSE_SIZE == 36
TYPE_REQUEST == 1
TYPE_RESPONSE == 2

encode_request(nonce) ==
  [magic |-> TRUE, length |-> REQUEST_SIZE, type |-> TYPE_REQUEST, nonce |-> nonce]

\* What a peer that speaks XPRB answers, with the port it saw and the
\* family it names (0: neither 4 nor 6).
Response(nonce, seen, family) ==
  [magic |-> TRUE, length |-> RESPONSE_SIZE, type |-> TYPE_RESPONSE, nonce |-> nonce,
   seen |-> seen, family |-> family]

magic_ok(body) == body.length >= 4 /\ body.magic

decode_response(body) ==
  magic_ok(body) /\ body.length >= RESPONSE_SIZE /\ body.type = TYPE_RESPONSE

\* Nonces are random and not 0: no two calls have the same.
make_nonce == calls

\* What the fields of a datagram that arrives may say.
Junk == {[magic |-> FALSE, length |-> RESPONSE_SIZE, type |-> TYPE_RESPONSE, nonce |-> 0],
         [magic |-> TRUE, length |-> 20, type |-> TYPE_RESPONSE, nonce |-> calls],
         encode_request(calls)}
-----------------------------------------------------------------------------
(* How calls are refused, and how they end.                                *)

ipv6_peer_usable(peer) == peer.family = "inet6" /\ peer.ip # "" /\ peer.port # 0
peer_usable(peer) == peer.family \in Families /\ peer.ip # "" /\ peer.port # 0

Usable(kind, peer) == IF kind = "ipv6" THEN ipv6_peer_usable(peer) ELSE peer_usable(peer)

\* The context's word on the peer, and for predict a predicted port.
FastReject(kind, applicable, predicted) ==
  \/ kind = "ipv6" /\ ~applicable
  \/ kind = "predict" /\ (~applicable \/ predicted = "none")

Verdict(how, rc, success, self) == [how |-> how, rc |-> rc, success |-> success, self |-> self]
Nothing(how, rc) == Verdict(how, rc, FALSE, "cleared")

\* Create and bind to the wildcard of the family; predict and mirror then
\* ask for the local port.  ipv6 returns the code of what failed, predict a
\* plain failure, mirror IO.
Wildcard(family) == [family |-> family, ip |-> family, port |-> 0]

ipv6_open(a) ==
  LET made == platform_sock_create("inet6", a.socket, a.fcntl)
      rc   == IF made = "OK" THEN platform_sock_bind(Wildcard("inet6"), a.bind) ELSE made
  IN IF rc = "OK" THEN Running ELSE Nothing("failed", rc)

predict_open(family, a) ==
  IF /\ sock_create(family, a.socket, a.fcntl) = "OK"
     /\ sock_bind(Wildcard(family), a.bind) = "OK"
     /\ sock_local(a.getsockname, family) = "OK"
  THEN Running ELSE Nothing("failed", "OK")

mirror_open(family, a) ==
  IF /\ sock_create(family, a.socket, a.fcntl) = "OK"
     /\ sock_bind(Wildcard(family), a.bind) = "OK"
     /\ sock_local(a.getsockname, family) = "OK"
  THEN Running ELSE Nothing("failed", "IO")

\* The same for a probe that is sent; ipv6 tells the network's failures
\* from the platform's.
is_real_world_send_error(rc) == rc \in {"NET_UNREACHABLE", "HOST_UNREACHABLE", "NO_ROUTE"}

ipv6_send(peer, a) ==
  LET sent == platform_sock_sendto(peer, a.sendto)
      rc   == IF sent = "OK" /\ a.short THEN "PARTIAL_WRITE" ELSE sent
  IN IF rc = "OK" THEN Running
     ELSE Nothing("failed", IF is_real_world_send_error(rc) THEN "OK" ELSE rc)

send_probe(peer, a) ==
  IF sock_sendto(peer, a.sendto, a.short) = "OK" THEN Running ELSE Nothing("failed", "OK")

mirror_send(peer, a) ==
  IF sock_sendto(peer, a.sendto, a.short) = "OK" THEN Running ELSE Nothing("failed", "IO")

\* A receive that brings nothing: does the call wait on, or end?
ipv6_received(rc) ==
  IF rc \in {"TIMEOUT", "WOULD_BLOCK"}
  THEN Nothing(IF rc = "TIMEOUT" THEN "timeout" ELSE "failed", "OK") ELSE Nothing("failed", rc)
predict_received(rc) == IF rc = "TIMEOUT" THEN Running ELSE Nothing("failed", "OK")
mirror_received(rc) == IF rc = "TIMEOUT" THEN Running ELSE Nothing("failed", "IO")

\* What mirror reports: the port and family the peer saw.
endpoint_from_response(body) ==
  IF body.family \in {4, 6} THEN Verdict("answered", "OK", TRUE, body.seen)
  ELSE Nothing("answered", "MIRROR_BAD_RESPONSE")

Init ==
  /\ now = 0 /\ pc = "idle" /\ call = NoCall /\ end = Nothing("none", "OK") /\ calls = 0
  /\ deadline = 0 /\ since = 0 /\ wait = 0 /\ limit = 0 /\ ready = 0 /\ queue = <<>> /\ early = FALSE
  /\ peerAt = "current" /\ probes = {} /\ answers = {} /\ noise = 0 /\ reached = {}

Begin ==
  /\ pc = "idle" /\ calls < MaxCalls
  /\ calls' = calls + 1 /\ now' = 0
  /\ \E kind \in Kinds, peer \in Targets, timeout \in Timeouts, applicable \in BOOLEAN,
        predicted \in {"none", "current", "predicted"} :
       IF ~Usable(kind, peer)
       THEN end' = Nothing("refused", "INVAL") /\ UNCHANGED <<pc, call, peerAt>>
       ELSE IF FastReject(kind, applicable, predicted)
       THEN end' = Nothing("refused", "OK") /\ UNCHANGED <<pc, call, peerAt>>
       ELSE /\ kind # "predict" => predicted = "none"
            /\ timeout # UINT32_MAX => timeout + Slop <= MaxNow
            /\ end' = Running /\ pc' = "open"
            /\ call' = [kind |-> kind, peer |-> peer, timeout |-> timeout,
                        predicted |-> predicted, socket |-> NoSocket]
            /\ peerAt' \in {"current", "predicted"}
  /\ reached' = {}
  /\ UNCHANGED <<waiting, inbox, probes, answers, noise, early>>

\* Every way out closes the socket.
Finish(verdict) ==
  /\ pc' = "idle" /\ call' = NoCall /\ end' = verdict
  /\ deadline' = 0 /\ since' = 0 /\ wait' = 0 /\ limit' = 0
  /\ ready' = 0 /\ queue' = <<>> /\ early' = FALSE

Answers(fields) == [fields -> {"ok", "EMFILE"}]

Open ==
  /\ pc = "open"
  /\ \E a \in Answers({"socket", "fcntl", "bind", "getsockname"}) :
       LET verdict == CASE call.kind = "ipv6"    -> ipv6_open(a)
                        [] call.kind = "predict" -> predict_open(call.peer.family, a)
                        [] call.kind = "mirror"  -> mirror_open(call.peer.family, a)
       IN IF verdict = Running
          THEN /\ pc' = "send"
               /\ \E number \in Sockets : call' = [call EXCEPT !.socket = number]
               /\ UNCHANGED <<waiting, inbox, end, early>>
          ELSE Finish(verdict)
  /\ UNCHANGED <<now, calls, outside>>

\* The budget starts once the probes are out.  ipv6 has one receive for all
\* of it; the two others a deadline.
SendsTo == IF pc = "send" THEN "current" ELSE call.predicted
LastProbe == pc = "send_predicted" \/ call.predicted \in {"none", "current"}

ipv6_wait ==
  /\ pc' = "wait" /\ since' = now /\ ready' = now /\ deadline' = 0
  /\ wait' = IF call.timeout = 0 THEN UINT32_MAX ELSE call.timeout

StartDeadline ==
  /\ pc' = "test" /\ UNCHANGED <<since, wait, ready>>
  /\ deadline' = IF call.timeout = 0 THEN 0 ELSE now + call.timeout

Probe(seen) ==
  [nonce |-> make_nonce, kind |-> call.kind, socket |-> call.socket, seen |-> seen]

Send ==
  /\ pc \in {"send", "send_predicted"}
  /\ \E sendto \in {"ok", "ENETUNREACH", "EPERM"}, short \in BOOLEAN :
       LET a == [sendto |-> sendto, short |-> short]
           verdict == CASE call.kind = "ipv6"    -> ipv6_send(call.peer, a)
                        [] call.kind = "predict" -> send_probe(call.peer, a)
                        [] call.kind = "mirror"  -> mirror_send(call.peer, a)
       IN IF verdict # Running
          THEN Finish(verdict) /\ UNCHANGED probes
          ELSE /\ IF SendsTo = peerAt
                  THEN \E seen \in Ports : probes' = probes \cup {Probe(seen)}
                  ELSE UNCHANGED probes
               /\ IF ~LastProbe THEN pc' = "send_predicted" /\ UNCHANGED <<waiting, ready>>
                  ELSE limit' = now + call.timeout /\ IF call.kind = "ipv6" THEN ipv6_wait
                                                      ELSE StartDeadline
               /\ UNCHANGED <<call, queue, end, early>>
  /\ UNCHANGED <<now, calls, peerAt, answers, noise, reached>>

\* Faults: a deadline slept past is missed; the last unit is given away.
EqualOnly == deadline # 0 /\ now = deadline
UnitEarly == deadline # 0 /\ now + 1 >= deadline
TimedOut == deadline # 0 /\ now >= deadline

GiveUp ==
  /\ pc = "test"
  /\ TimedOut
  /\ Finish(Nothing("timeout", IF call.kind = "mirror" THEN "TIMEOUT" ELSE "OK"))
  /\ UNCHANGED <<now, calls, outside>>

\* The wait is what is left of the budget.  (The difference is unsigned:
\* past the deadline it would be the longest.)
\* Fault: each datagram gets the whole budget.
WholeBudget == IF call.timeout = 0 THEN UINT32_MAX ELSE call.timeout
Remaining ==
  IF deadline = 0 \/ deadline - now \notin 0..UINT32_MAX THEN UINT32_MAX ELSE deadline - now

StartWait ==
  /\ pc = "test"
  /\ ~TimedOut
  /\ pc' = "wait" /\ since' = now /\ ready' = now /\ wait' = Remaining
  /\ UNCHANGED <<now, call, deadline, limit, queue, end, calls, outside, early>>

\* A datagram's source is spelled as inet_ntop does, and compared with the
\* text the caller gave: an IPv6 address may be spelled otherwise.
ntop(ip) == <<ip, "canonical">>
FromPeer(d) == ntop(d.ip) = <<"peer", call.peer.text>>

\* A response with our nonce, from the peer's address; predict wants one of
\* the two ports as well.
\* Fault: the nonce is not compared.
AnyNonce(d) == FromPeer(d) /\ decode_response(d.body)
predict_matches(d) ==
  /\ FromPeer(d) /\ d.port \in {"current", call.predicted}
  /\ decode_response(d.body) /\ d.body.nonce = make_nonce
mirror_matches(d) ==
  FromPeer(d) /\ decode_response(d.body) /\ d.body.nonce = make_nonce

\* What counts as an answer: to ipv6, anything at all.
Counts(d) ==
  CASE call.kind = "ipv6"    -> TRUE
    [] call.kind = "predict" -> predict_matches(d)
    [] call.kind = "mirror"  -> mirror_matches(d)

NotForUs(rest) == pc' = "test" /\ queue' = rest /\ UNCHANGED <<call, waiting, ready, end, early>>

Hears ==
  /\ pc = "wait" /\ queue # <<>>
  /\ LET d == Head(queue)
     IN IF ~Counts(d) THEN NotForUs(Tail(queue))
        ELSE Finish(IF call.kind = "mirror" THEN endpoint_from_response(d.body)
                    ELSE Verdict("answered", "OK", TRUE, "cleared"))
  /\ UNCHANGED <<now, calls, outside>>

Returns(rc) ==
  LET verdict == CASE call.kind = "ipv6"    -> ipv6_received(rc)
                   [] call.kind = "predict" -> predict_received(rc)
                   [] call.kind = "mirror"  -> mirror_received(rc)
  IN IF verdict = Running THEN NotForUs(queue) ELSE Finish(verdict)

WaitTimesOut ==
  /\ pc = "wait"
  /\ queue = <<>> /\ SelectReturns(wait, since, now, FALSE)
  /\ Returns(sock_recvfrom(wait, "timed out", "ok", call.peer.family))
  /\ UNCHANGED <<now, calls, outside>>

\* A signal, or a datagram that select saw and the receive found spoilt.
WaitFails ==
  /\ pc = "wait"
  /\ \E select \in {"ready", "EINTR"} :
       Returns(sock_recvfrom(wait, select, "EAGAIN", call.peer.family))
  /\ UNCHANGED <<now, calls, outside>>
-----------------------------------------------------------------------------
(* The peer, the network, other hosts, the clock.                          *)

Passes(keep) == (keep => noise < MaxNoise) /\ noise' = IF keep THEN noise + 1 ELSE noise

\* A probe sent to where the peer is may reach it; the answer may leave from
\* another port, and never arrive.
Serve ==
  /\ \E p \in probes, port \in {peerAt, "third"}, family \in {0, 4} :
       /\ probes' = probes \ {p}
       /\ reached' = IF p.nonce = calls THEN reached \cup {p} ELSE reached
       /\ answers' = answers \cup {[to |-> p.socket, ip |-> "peer", port |-> port,
                                    body |-> Response(p.nonce, p.seen, family)]}
  /\ UNCHANGED <<now, pc, call, waiting, inbox, end, calls, peerAt, noise, early>>

Listening == pc \in {"send", "send_predicted", "test", "wait"}

\* The datagrams ahead of an answer cost a late wake-up each, and the
\* deadline is tested again after every one of them.
Reachable(d) ==
  pc \in {"test", "wait"} /\ Counts(d) /\ now + Len(queue) * Slop < limit

Arrives(d) ==
  /\ Listening /\ Len(queue) < QueueCap
  /\ queue' = Append(queue, d)
  /\ ready' = IF pc = "wait" /\ queue = <<>> THEN now ELSE ready
  /\ early' = (early \/ Reachable(d))

Deliver ==
  /\ \E a \in answers, keep \in BOOLEAN :
       /\ Listening /\ a.to = call.socket
       /\ Arrives([ip |-> a.ip, port |-> a.port, body |-> a.body])
       /\ Passes(keep)
       /\ answers' = IF keep THEN answers ELSE answers \ {a}
  /\ UNCHANGED <<now, pc, call, waiting, end, calls, peerAt, probes, reached>>

\* Another host sends, one behind the peer's address or one elsewhere.
Noise ==
  /\ noise < MaxNoise
  /\ \E ip \in {"peer", "other"}, body \in Junk :
       Arrives([ip |-> ip, port |-> "current", body |-> body])
  /\ noise' = noise + 1
  /\ UNCHANGED <<now, pc, call, waiting, end, calls, peerAt, probes, answers, reached>>

\* The clock moves while a call waits; whatever holds it up between two waits
\* counts with the wait before.
Tick ==
  /\ now < MaxNow
  /\ pc = "wait" /\ (wait = UINT32_MAX \/ now < since + wait + Slop)
  /\ queue # <<>> => now < ready + Slop
  /\ now' = now + 1
  /\ UNCHANGED <<pc, call, waiting, inbox, end, calls, outside, early>>

\* The model's clock or calls have run out.
Stop == (now = MaxNow \/ pc = "idle") /\ UNCHANGED vars

Work == Open \/ Send \/ GiveUp \/ StartWait \/ Hears \/ WaitTimesOut
Run == Work \/ WaitFails
Next == Begin \/ Run \/ Serve \/ Deliver \/ Noise \/ Tick \/ Stop

\* A running thread runs on, and time passes; nothing is assumed of the net.
Spec == Init /\ [][Next]_vars /\ WF_vars(Work) /\ WF_vars(Tick)
-----------------------------------------------------------------------------
Probes == [nonce : 1..MaxCalls, kind : Kinds, socket : Sockets, seen : Ports]

TypeOK ==
  /\ now \in 0..MaxNow
  /\ pc \in {"idle", "open", "send", "send_predicted", "test", "wait"}
  /\ calls \in 0..MaxCalls /\ noise \in Nat
  /\ deadline \in Nat /\ since \in Nat /\ wait \in 0..UINT32_MAX /\ limit \in Nat
  /\ ready \in Nat
  /\ early \in BOOLEAN
  /\ peerAt \in PeerPorts
  /\ probes \subseteq Probes /\ reached \subseteq Probes
  /\ pc = "idle" <=> call = NoCall
  /\ pc = "idle" <=> end # Running
  /\ ~Listening => queue = <<>> /\ deadline = 0

Ends(how) == end = Running /\ end' # Running /\ end'.how = how

\* A success of predict or mirror answers this very call: one of its own
\* probes reached the peer, no earlier call's answer passed for it, on
\* whatever socket number; and what mirror reports is what the peer saw of
\* this call's mapping.
SuccessIsAnswered ==
  [][Ends("answered") /\ end'.success /\ call.kind # "ipv6" =>
       \E p \in reached : /\ p.nonce = calls /\ p.kind = call.kind
                         /\ call.kind = "mirror" => end'.self = p.seen]_vars

\* What counts as an answer is not waited for in vain once it has come, by as
\* many late wake-ups before the budget is spent as there are datagrams ahead
\* of it.
PunctualAnswerWins == [][Ends("timeout") => ~early]_vars

\* weapon_ops.h: the budget is an upper bound, however many strays arrive.
\* (UINT32_MAX, the longest budget there is, waits forever.)
Bounded == call.timeout \notin {0, UINT32_MAX}
EndsOnTime == pc \in {"test", "wait"} /\ Bounded => now <= limit + Slop

\* A call with a bounded budget ends.
Terminates == (pc = "open" /\ Bounded) ~> pc = "idle"

\* Every execution is one of WeaponPromise.  The evidence of predict and
\* mirror is a probe of this call that the peer has answered; that of ipv6
\* no more than a datagram.  A bounded budget runs from when the probes are
\* out; before that no time passes.
Promise == INSTANCE WeaponPromise WITH
  Budgets  <- {t + Slop : t \in Timeouts \ {0, UINT32_MAX}} \cup {-1},
  clock    <- now,
  running  <- pc # "idle",
  left     <- IF pc = "idle" THEN 0
              ELSE IF ~Bounded THEN -1
              ELSE IF pc \in {"test", "wait"} THEN limit + Slop - now
              ELSE call.timeout + Slop,
  evidence <- pc # "idle" /\ IF call.kind = "ipv6" THEN queue # <<>> ELSE reached # {},
  won      <- pc = "idle" /\ end.success

KeepsPromise == Promise!Spec
=============================================================================

---------------------------- MODULE DirectProofs ----------------------------
(***************************************************************************)
(* Theorems about the three that ask the peer itself, for every set of     *)
(* peers and timeouts, every queue, delay and number of calls.             *)
(***************************************************************************)
EXTENDS Direct, TLAPS

\* What a call under way was asked for.
Asked == [kind : Kinds, peer : Targets, timeout : Timeouts,
          predicted : {"none", "current", "predicted"}, socket : Sockets \cup {NoSocket}]
CallType ==
  pc # "idle" => /\ calls # 0 /\ call \in Asked
                 /\ pc # "open" => call.socket \in Sockets

\* What is on its way and in the queue: answers of the peer, and strays.
Replies == [magic : {TRUE}, length : {RESPONSE_SIZE}, type : {TYPE_RESPONSE},
            nonce : 1..MaxCalls, seen : Ports, family : {0, 4}]
Strays == [magic : BOOLEAN, length : Nat, type : {TYPE_REQUEST, TYPE_RESPONSE}, nonce : Nat]
Datagrams == [ip : {"peer", "other"}, port : PeerPorts, body : Replies \cup Strays]
Contents ==
  /\ answers \subseteq [to : Sockets, ip : {"peer"}, port : PeerPorts, body : Replies]
  /\ queue \in Seq(Datagrams)

\* The deadline is where the budget ends, and no wait goes past it.
Timing ==
  pc \in {"test", "wait"} =>
    /\ call.kind = "ipv6" => pc = "wait"
    /\ call.kind # "ipv6" => deadline = IF call.timeout = 0 THEN 0 ELSE limit
    /\ call.timeout <= limit /\ limit <= now + call.timeout
    /\ Bounded => /\ now <= limit + Slop
                  /\ pc = "wait" => wait # UINT32_MAX /\ since + wait = limit

\* When, at the latest, the budget is looked at with i datagrams still ahead.
TestedBy(i) == (IF pc = "wait" THEN ready ELSE now) + i * Slop

\* What has arrived in time is still in the queue, and all before it can be
\* passed over before the budget is spent: a wait does not last once there is
\* something to hear.
Awaited(i) == Counts(queue[i]) /\ TestedBy(i - 1) < limit
Noticed ==
  /\ early => pc \in {"test", "wait"} /\ \E i \in 1..Len(queue) : Awaited(i)
  /\ pc = "wait" /\ queue # <<>> => ready <= now /\ now <= ready + Slop

\* A response with the call's nonce tells what one of its probes was seen as.
Genuine(body) ==
  decode_response(body) /\ body.nonce = calls =>
    \E p \in reached : p.seen = body.seen
Origin ==
  /\ \A p \in probes : p.nonce <= calls /\ (pc # "idle" /\ p.nonce = calls => p.kind = call.kind)
  /\ \A p \in reached : p.nonce = calls /\ (pc # "idle" => p.kind = call.kind)
  /\ \A a \in answers : a.body.nonce <= calls /\ Genuine(a.body)
  /\ \A i \in 1..Len(queue) : Genuine(queue[i].body)

IInv == TypeOK /\ CallType /\ Contents /\ Timing /\ Noticed /\ Origin
-----------------------------------------------------------------------------
(* How calls end.                                                          *)

Hows == {"none", "refused", "failed", "timeout", "answered"}

LEMMA EndsAreEnds ==
  ASSUME NEW how \in Hows, NEW rc, NEW success, NEW self
  PROVE  Verdict(how, rc, success, self) # Running /\ Verdict(how, rc, success, self).how = how
<1>1. Running.how = "running" BY DEF Running
<1>2. Verdict(how, rc, success, self).how = how BY DEF Verdict
<1> QED BY <1>1, <1>2 DEF Hows

LEMMA NothingEnds ==
  ASSUME NEW how \in Hows, NEW rc
  PROVE  Nothing(how, rc) # Running /\ Nothing(how, rc).how = how
BY EndsAreEnds DEF Nothing

LEMMA AnswersAnswer ==
  /\ Verdict("answered", "OK", TRUE, "cleared") # Running
  /\ Verdict("answered", "OK", TRUE, "cleared").how = "answered"
  /\ \A body : /\ endpoint_from_response(body) # Running
               /\ endpoint_from_response(body).how = "answered"
<1>1. "answered" \in Hows BY DEF Hows
<1>2. ASSUME NEW rc, NEW success, NEW self
      PROVE  /\ Verdict("answered", rc, success, self) # Running
             /\ Verdict("answered", rc, success, self).how = "answered"
  BY <1>1, EndsAreEnds
<1>3. ASSUME NEW body
      PROVE  /\ endpoint_from_response(body) # Running
             /\ endpoint_from_response(body).how = "answered"
  <2>1. CASE body.family \in {4, 6} BY <1>2, <2>1 DEF endpoint_from_response
  <2>2. CASE body.family \notin {4, 6} BY <1>2, <2>2 DEF endpoint_from_response, Nothing
  <2> QED BY <2>1, <2>2
<1> QED BY <1>2, <1>3

\* What the invariant says of the numbers.
LEMMA Numbers ==
  ASSUME IInv
  PROVE  /\ now \in Nat /\ deadline \in Nat /\ since \in Nat /\ wait \in Nat /\ limit \in Nat
         /\ ready \in Nat
         /\ calls \in 0..MaxCalls /\ UINT32_MAX \in Nat /\ UINT32_MAX # 0
         /\ MaxCalls \in Nat /\ MaxNow \in Nat /\ Slop \in Nat
<1>1. UINT32_MAX \in Nat /\ UINT32_MAX # 0 BY SockAssumption
<1>2. MaxCalls \in Nat /\ MaxNow \in Nat /\ Slop \in Nat BY DirectAssumption
<1> QED BY <1>1, <1>2 DEF IInv, TypeOK

LEMMA Budget ==
  ASSUME IInv, pc # "idle"
  PROVE  /\ call \in Asked /\ calls \in 1..MaxCalls
         /\ call.timeout \in Nat /\ call.timeout <= UINT32_MAX
<1>1. call \in Asked /\ calls # 0 BY DEF IInv, CallType
<1>2. call.timeout \in Timeouts BY <1>1 DEF Asked
<1>3. call.timeout \in 0..UINT32_MAX BY <1>2, DirectAssumption
<1> QED BY <1>1, <1>3, Numbers

LEMMA Nonces ==
  ASSUME IInv
  PROVE  /\ \A p \in probes : p.nonce \in Nat /\ p.nonce <= calls
         /\ \A a \in answers : a.body \in Replies /\ a.body.nonce \in Nat /\ a.body.nonce <= calls
<1>1. ASSUME NEW p \in probes PROVE p.nonce \in Nat /\ p.nonce <= calls
  <2>1. p \in Probes BY DEF IInv, TypeOK
  <2>2. p.nonce \in 1..MaxCalls BY <2>1 DEF Probes
  <2> QED BY <2>2, Numbers DEF IInv, Origin
<1>2. ASSUME NEW a \in answers
      PROVE  a.body \in Replies /\ a.body.nonce \in Nat /\ a.body.nonce <= calls
  <2>1. a \in [to : Sockets, ip : {"peer"}, port : PeerPorts, body : Replies]
    BY DEF IInv, Contents
  <2>2. a.body \in Replies BY <2>1
  <2>3. a.body.nonce \in 1..MaxCalls BY <2>2 DEF Replies
  <2> QED BY <2>2, <2>3, Numbers DEF IInv, Origin
<1> QED BY <1>1, <1>2

LEMMA InitIInv == Init => IInv
<1> SUFFICES ASSUME Init PROVE IInv OBVIOUS
<1>1. end # Running BY NothingEnds DEF Init, Hows
<1>2. pc = "idle" /\ call = NoCall /\ ~Listening BY DEF Init, Listening
<1>3. now \in 0..MaxNow /\ calls \in 0..MaxCalls /\ noise \in Nat /\ wait \in 0..UINT32_MAX
  BY SockAssumption, DirectAssumption DEF Init
<1>4. peerAt \in PeerPorts BY DEF Init, PeerPorts
<1>5. TypeOK BY <1>1, <1>2, <1>3, <1>4 DEF Init, TypeOK
<1> QED BY <1>5 DEF Init, IInv, CallType, Contents, Timing, Noticed, Origin

\* Every way out of a call leaves nothing behind.
LEMMA FinishStep ==
  ASSUME IInv, NEW verdict, verdict # Running, Finish(verdict), UNCHANGED <<now, calls, outside>>
  PROVE  IInv'
<1>1. /\ pc' = "idle" /\ call' = NoCall /\ end' = verdict /\ queue' = <<>> /\ early' = FALSE
      /\ deadline' = 0 /\ since' = 0 /\ wait' = 0 /\ limit' = 0 /\ ready' = 0
      /\ UNCHANGED <<now, calls, peerAt, probes, answers, noise, reached>>
  BY DEF Finish, outside
<1>2. TypeOK'
  <2>1. now' \in 0..MaxNow /\ calls' \in 0..MaxCalls /\ noise' \in Nat BY <1>1 DEF IInv, TypeOK
  <2>2. deadline' \in Nat /\ since' \in Nat /\ limit' \in Nat /\ ready' \in Nat BY <1>1
  <2>3. wait' \in 0..UINT32_MAX BY <1>1, SockAssumption
  <2>4. early' \in BOOLEAN BY <1>1
  <2>5. peerAt' \in PeerPorts BY <1>1 DEF IInv, TypeOK
  <2>6. probes' \subseteq Probes /\ reached' \subseteq Probes BY <1>1 DEF IInv, TypeOK
  <2>7. pc' = "idle" <=> call' = NoCall BY <1>1
  <2>8. pc' = "idle" <=> end' # Running BY <1>1
  <2>9. ~Listening' => queue' = <<>> /\ deadline' = 0 BY <1>1
  <2> QED BY <1>1, <2>1, <2>2, <2>3, <2>4, <2>5, <2>6, <2>7, <2>8, <2>9 DEF TypeOK
<1>3. CallType' /\ Timing' /\ Noticed'
  BY <1>1 DEF CallType, Timing, Noticed
<1>4. Contents'
  BY <1>1 DEF IInv, Contents
<1>5. Origin'
  BY <1>1 DEF IInv, Origin, Genuine
<1> QED BY <1>2, <1>3, <1>4, <1>5 DEF IInv
-----------------------------------------------------------------------------
(* One lemma per step.                                                     *)

LEMMA BeginStep == IInv /\ Begin => IInv'
<1> SUFFICES ASSUME IInv, Begin PROVE IInv' OBVIOUS
<1>1. /\ pc = "idle" /\ calls' = calls + 1 /\ now' = 0 /\ calls < MaxCalls /\ reached' = {}
      /\ UNCHANGED <<deadline, since, wait, limit, ready, queue, probes, answers, noise, early>>
  BY DEF Begin, waiting, inbox
<1>2. /\ now \in 0..MaxNow /\ calls \in 0..MaxCalls /\ noise \in Nat
      /\ deadline \in Nat /\ since \in Nat /\ wait \in 0..UINT32_MAX /\ limit \in Nat
      /\ ready \in Nat /\ early \in BOOLEAN /\ queue = <<>> /\ deadline = 0
      /\ call = NoCall /\ end # Running /\ peerAt \in PeerPorts /\ probes \subseteq Probes
  BY <1>1 DEF IInv, TypeOK, Listening
<1>3. \/ pc' = "idle" /\ call' = NoCall /\ end' # Running /\ peerAt' = peerAt
      \/ /\ pc' = "open" /\ call' \in Asked /\ end' = Running
         /\ peerAt' \in {"current", "predicted"}
  <2>1. PICK kind \in Kinds, peer \in Targets, timeout \in Timeouts,
             predicted \in {"none", "current", "predicted"} :
          \/ end' = Nothing("refused", "INVAL") /\ UNCHANGED <<pc, call, peerAt>>
          \/ end' = Nothing("refused", "OK") /\ UNCHANGED <<pc, call, peerAt>>
          \/ /\ end' = Running /\ pc' = "open" /\ peerAt' \in {"current", "predicted"}
             /\ call' = [kind |-> kind, peer |-> peer, timeout |-> timeout,
                         predicted |-> predicted, socket |-> NoSocket]
    BY DEF Begin
  <2>2. Nothing("refused", "INVAL") # Running /\ Nothing("refused", "OK") # Running
    BY NothingEnds DEF Hows
  <2> QED BY <1>1, <1>2, <2>1, <2>2 DEF Asked
<1>4. call' \in Asked => call' # NoCall
  BY DirectAssumption DEF Asked, NoCall
<1>5. TypeOK'
  <2>1. now' \in 0..MaxNow /\ calls' \in 0..MaxCalls
    BY <1>1, <1>2, DirectAssumption
  <2>2. peerAt' \in PeerPorts BY <1>2, <1>3 DEF PeerPorts
  <2>3. reached' \subseteq Probes BY <1>1
  <2> QED BY <1>1, <1>2, <1>3, <1>4, <2>1, <2>2, <2>3 DEF TypeOK
<1>6. CallType' BY <1>1, <1>2, <1>3 DEF CallType
<1>7. Contents' BY <1>1 DEF IInv, Contents
<1>8. Timing' /\ Noticed' BY <1>1, <1>3 DEF IInv, Timing, Noticed
<1>9. Origin'
  <2>3. \A p \in probes' : p.nonce <= calls' /\ p.nonce # calls' BY <1>1, <1>2, Nonces
  <2>4. \A a \in answers' : a.body.nonce <= calls' /\ a.body.nonce # calls' BY <1>1, <1>2, Nonces
  <2>5. queue' = <<>> /\ reached' = {} BY <1>1, <1>2
  <2>6. \A a \in answers' : Genuine(a.body)' BY <2>4 DEF Genuine
  <2>7. Len(queue') = 0 BY <2>5
  <2>8. \A i \in 1..Len(queue') : Genuine(queue[i].body)' BY <2>7
  <2> QED BY <2>3, <2>4, <2>5, <2>6, <2>8 DEF Origin
<1> QED BY <1>5, <1>6, <1>7, <1>8, <1>9 DEF IInv

LEMMA OpenStep == IInv /\ Open => IInv'
<1> SUFFICES ASSUME IInv, Open PROVE IInv' OBVIOUS
<1>1. PICK verdict :
        /\ IF verdict = Running
           THEN /\ pc' = "send"
                /\ \E number \in Sockets : call' = [call EXCEPT !.socket = number]
                /\ UNCHANGED <<waiting, inbox, end, early>>
           ELSE Finish(verdict)
        /\ UNCHANGED <<now, calls, outside>>
  BY DEF Open
<1>2. CASE verdict # Running BY <1>1, <1>2, FinishStep
<1>3. CASE verdict = Running
  <2>1. /\ pc = "open" /\ pc' = "send"
        /\ UNCHANGED <<deadline, since, wait, limit, ready, queue, end, early, now, calls, peerAt,
                       probes, answers, noise, reached>>
    BY <1>1, <1>3 DEF Open, waiting, inbox, outside
  <2>2. call \in Asked BY <2>1 DEF IInv, CallType
  <2>3. /\ call' \in Asked /\ call'.socket \in Sockets /\ call'.kind = call.kind
    BY <1>1, <1>3, <2>2 DEF Asked
  <2>4. call' # NoCall BY <2>3, DirectAssumption DEF Asked, NoCall
  <2>5. TypeOK' BY <2>1, <2>4 DEF IInv, TypeOK, Listening
  <2>6. CallType' BY <2>1, <2>3 DEF IInv, CallType
  <2>7. Contents' BY <2>1 DEF IInv, Contents
  <2>8. Timing' /\ Noticed' BY <2>1 DEF IInv, Timing, Noticed
  <2>9. Origin' BY <2>1, <2>3 DEF IInv, Origin, Genuine
  <2> QED BY <2>5, <2>6, <2>7, <2>8, <2>9 DEF IInv
<1> QED BY <1>2, <1>3

LEMMA SendStep == IInv /\ Send => IInv'
<1> SUFFICES ASSUME IInv, Send PROVE IInv' OBVIOUS
<1>1. PICK verdict :
        IF verdict # Running
        THEN Finish(verdict) /\ UNCHANGED probes
        ELSE /\ IF SendsTo = peerAt
                THEN \E seen \in Ports : probes' = probes \cup {Probe(seen)}
                ELSE UNCHANGED probes
             /\ IF ~LastProbe THEN pc' = "send_predicted" /\ UNCHANGED <<waiting, ready>>
                ELSE limit' = now + call.timeout /\ IF call.kind = "ipv6" THEN ipv6_wait
                                                    ELSE StartDeadline
             /\ UNCHANGED <<call, queue, end, early>>
  BY DEF Send
<1>2. /\ pc \in {"send", "send_predicted"}
      /\ UNCHANGED <<now, calls, peerAt, answers, noise, reached>>
  BY DEF Send
<1>3. CASE verdict # Running BY <1>1, <1>2, <1>3, FinishStep DEF outside
<1>4. CASE verdict = Running
  <2>1. UNCHANGED <<call, queue, end, early, now, calls, peerAt, answers, noise, reached>>
    BY <1>1, <1>2, <1>4
  <2>2. /\ call \in Asked /\ call.socket \in Sockets /\ calls # 0 /\ ~early
    BY <1>2 DEF IInv, CallType, Noticed
  <2>3. /\ call.timeout \in 0..UINT32_MAX /\ now \in Nat /\ limit \in Nat /\ calls \in 1..MaxCalls
        /\ Slop \in Nat
    BY <1>2, Numbers, Budget
  <2>4. pc' \in {"send_predicted", "test", "wait"}
    BY <1>1, <1>4 DEF ipv6_wait, StartDeadline
  <2>5. /\ deadline' \in Nat /\ since' \in Nat /\ wait' \in 0..UINT32_MAX /\ limit' \in Nat
        /\ ready' \in Nat /\ Timing' /\ (pc' = "wait" => ready' = now)
    <3>1. CASE LastProbe /\ call.kind = "ipv6"
      BY <1>1, <1>4, <2>1, <2>3, <3>1, SockAssumption, DirectAssumption
      DEF ipv6_wait, Timing, Bounded
    <3>2. CASE LastProbe /\ call.kind # "ipv6"
      <4>1. /\ pc' = "test" /\ since' = since /\ wait' = wait /\ ready' = ready
            /\ limit' = now + call.timeout
            /\ deadline' = IF call.timeout = 0 THEN 0 ELSE now + call.timeout
        BY <1>1, <1>4, <3>2 DEF StartDeadline
      <4> QED BY <2>1, <2>3, <3>2, <4>1, DirectAssumption DEF IInv, TypeOK, Timing, Bounded
    <3>3. CASE ~LastProbe
      BY <1>1, <1>4, <3>3 DEF waiting, IInv, TypeOK, Timing
    <3> QED BY <3>1, <3>2, <3>3
  <2>6. \A p \in probes' : p \in probes \/ \E seen \in Ports : p = Probe(seen)
    BY <1>1, <1>4
  <2>7. \A seen \in Ports : /\ Probe(seen) \in Probes /\ Probe(seen).nonce = calls
                            /\ Probe(seen).kind = call.kind
    BY <2>2, <2>3 DEF Probe, Probes, make_nonce, Asked
  <2>8. TypeOK'
    <3>1. probes' \subseteq Probes BY <2>6, <2>7 DEF IInv, TypeOK
    <3>2. call # NoCall BY <2>2, DirectAssumption DEF Asked, NoCall
    <3>3. end = Running BY <1>2 DEF IInv, TypeOK
    <3>4. Listening' BY <2>4 DEF Listening
    <3> QED BY <2>1, <2>4, <2>5, <3>1, <3>2, <3>3, <3>4 DEF IInv, TypeOK
  <2>9. CallType' /\ Contents' /\ Noticed'
    <3>1. CallType' /\ Contents' BY <2>1, <2>2 DEF IInv, CallType, Contents
    <3>2. pc' = "wait" => ready' <= now' /\ now' <= ready' + Slop BY <2>1, <2>3, <2>5
    <3> QED BY <2>1, <2>2, <3>1, <3>2 DEF Noticed
  <2>10. Origin'
    <3>1. \A p \in probes' : p.nonce <= calls /\ (p.nonce = calls => p.kind = call.kind)
      BY <1>2, <2>3, <2>6, <2>7, DirectAssumption DEF IInv, Origin
    <3> QED BY <1>2, <2>1, <3>1 DEF IInv, Origin, Genuine
  <2> QED BY <2>5, <2>8, <2>9, <2>10 DEF IInv
<1> QED BY <1>3, <1>4

LEMMA GiveUpStep == IInv /\ GiveUp => IInv'
<1>1. ASSUME NEW rc PROVE Nothing("timeout", rc) # Running BY NothingEnds DEF Hows
<1> QED BY <1>1, FinishStep DEF GiveUp

LEMMA StartWaitStep == IInv /\ StartWait => IInv'
<1> SUFFICES ASSUME IInv, StartWait PROVE IInv' OBVIOUS
<1>1. /\ pc = "test" /\ ~TimedOut /\ pc' = "wait" /\ since' = now /\ wait' = Remaining
      /\ ready' = now
      /\ UNCHANGED <<now, call, deadline, limit, queue, end, calls, early, peerAt, probes, answers,
                     noise, reached>>
  BY DEF StartWait, outside
<1>2. Remaining \in 0..UINT32_MAX BY Numbers DEF Remaining
<1>3. TypeOK' BY <1>1, <1>2, Numbers DEF IInv, TypeOK, Listening
<1>4. CallType' /\ Contents' BY <1>1 DEF IInv, CallType, Contents
<1>5. Timing'
  <2>1. call.kind # "ipv6" /\ deadline = (IF call.timeout = 0 THEN 0 ELSE limit)
        /\ limit <= now + call.timeout
    BY <1>1 DEF IInv, Timing
  <2>2. Bounded => deadline = limit /\ deadline # 0 /\ now < deadline /\ call.timeout < UINT32_MAX
    BY <1>1, <2>1, Numbers, Budget DEF IInv, Timing, Bounded, TimedOut
  <2> QED BY <1>1, <2>1, <2>2, Numbers, Budget DEF IInv, Timing, Remaining, Bounded
<1>6. Origin' BY <1>1 DEF IInv, Origin, Genuine
<1>7. Noticed'
  <2>1. \A i \in 1..Len(queue) : Awaited(i) => Awaited(i)'
    BY <1>1 DEF Awaited, TestedBy, Counts, FromPeer, predict_matches, mirror_matches, make_nonce
  <2> QED BY <1>1, <2>1, Numbers DEF IInv, Noticed
<1> QED BY <1>3, <1>4, <1>5, <1>6, <1>7 DEF IInv

\* A datagram that is not for the call is dropped: what else was in the queue
\* stays.
LEMMA NotForUsStep ==
  ASSUME IInv, pc = "wait", call.kind # "ipv6",
         NEW rest \in Seq(Datagrams),
         \A i \in 1..Len(rest) : Genuine(rest[i].body),
         early => \E i \in 1..Len(rest) : Counts(rest[i]) /\ now + (i - 1) * Slop < limit,
         NotForUs(rest), UNCHANGED <<now, calls, outside>>
  PROVE  IInv'
<1>1. /\ pc' = "test" /\ queue' = rest
      /\ UNCHANGED <<now, call, deadline, since, wait, limit, ready, end, calls, early, peerAt,
                     probes, answers, noise, reached>>
  BY DEF NotForUs, waiting, outside
<1>2. TypeOK' BY <1>1 DEF IInv, TypeOK, Listening
<1>3. CallType' /\ Contents' BY <1>1 DEF IInv, CallType, Contents
<1>4. Timing' BY <1>1 DEF IInv, Timing, Bounded
<1>5. Noticed'
  <2> SUFFICES ASSUME early PROVE \E i \in 1..Len(queue') : Awaited(i)'
    BY <1>1 DEF Noticed
  <2>1. PICK i \in 1..Len(rest) : Counts(rest[i]) /\ now + (i - 1) * Slop < limit
    OBVIOUS
  <2>2. Awaited(i)'
    BY <1>1, <2>1
    DEF Awaited, TestedBy, Counts, FromPeer, predict_matches, mirror_matches, make_nonce
  <2> QED BY <1>1, <2>1, <2>2
<1>6. Origin' BY <1>1 DEF IInv, Origin, Genuine
<1> QED BY <1>2, <1>3, <1>4, <1>5, <1>6 DEF IInv

LEMMA HearsStep == IInv /\ Hears => IInv'
<1> SUFFICES ASSUME IInv, Hears PROVE IInv' OBVIOUS
<1> DEFINE d == Head(queue)
           verdict == IF call.kind = "mirror" THEN endpoint_from_response(d.body)
                      ELSE Verdict("answered", "OK", TRUE, "cleared")
<1>1. /\ pc = "wait" /\ queue # <<>> /\ UNCHANGED <<now, calls, outside>>
      /\ IF ~Counts(d) THEN NotForUs(Tail(queue)) ELSE Finish(verdict)
  BY DEF Hears
<1>2. verdict # Running BY AnswersAnswer
<1> HIDE DEF verdict
<1>3. CASE Counts(d) BY <1>1, <1>2, <1>3, FinishStep
<1>4. CASE ~Counts(d)
  <2>1. call.kind # "ipv6" BY <1>4 DEF Counts
  <2>2. queue \in Seq(Datagrams) BY DEF IInv, Contents
  <2>3. /\ Tail(queue) \in Seq(Datagrams) /\ Len(Tail(queue)) = Len(queue) - 1
        /\ \A i \in 1..Len(Tail(queue)) : i + 1 \in 1..Len(queue) /\ Tail(queue)[i] = queue[i + 1]
        /\ d = queue[1] /\ Len(queue) \in Nat
    BY <1>1, <2>2
  <2>4. \A i \in 1..Len(Tail(queue)) : Genuine(Tail(queue)[i].body)
    BY <2>3 DEF IInv, Origin
  <2>5. early => \E i \in 1..Len(Tail(queue)) :
                   Counts(Tail(queue)[i]) /\ now + (i - 1) * Slop < limit
    <3> SUFFICES ASSUME early
                 PROVE \E i \in 1..Len(Tail(queue)) :
                         Counts(Tail(queue)[i]) /\ now + (i - 1) * Slop < limit
      OBVIOUS
    <3>1. PICK i \in 1..Len(queue) : Awaited(i) BY DEF IInv, Noticed
    <3>2. i # 1 BY <1>4, <2>3, <3>1 DEF Awaited
    <3>3. PICK j \in 1..Len(Tail(queue)) : j + 1 = i /\ Tail(queue)[j] = queue[i]
      <4>1. i - 1 \in 1..Len(Tail(queue)) /\ (i - 1) + 1 = i BY <2>3, <3>2
      <4> QED BY <2>3, <4>1
    <3>4. now \in Nat /\ ready \in Nat /\ limit \in Nat /\ Slop \in Nat /\ j \in Nat /\ j # 0
      BY <2>3, Numbers
    <3>5. PICK ahead \in Nat : ahead = (j - 1) * Slop BY <3>4
    <3>6. (i - 1) * Slop = ahead + Slop BY <3>3, <3>4, <3>5
    <3>7. ready + (ahead + Slop) < limit BY <1>1, <3>1, <3>6 DEF Awaited, TestedBy
    <3>8. now <= ready + Slop BY <1>1 DEF IInv, Noticed
    <3>9. now + ahead < limit BY <3>4, <3>5, <3>7, <3>8
    <3> QED BY <3>1, <3>3, <3>5, <3>9 DEF Awaited
  <2> HIDE DEF d
  <2> QED BY <1>1, <1>4, <2>1, <2>3, <2>4, <2>5, NotForUsStep
<1> QED BY <1>3, <1>4

\* An interrupted wait, or a datagram spoilt, is not taken for a timeout.
LEMMA FailureCodes ==
  ASSUME NEW select \in {"ready", "EINTR"}, NEW w, NEW family
  PROVE  sock_recvfrom(w, select, "EAGAIN", family) \in {"IO", "WOULD_BLOCK"}
<1>1. /\ {"EAGAIN", "EINTR"} \subseteq Errnos /\ "ready" \notin Errnos
      /\ sock_errno_to_xury["EAGAIN"] = "WOULD_BLOCK" /\ sock_errno_to_xury["EINTR"] = "IO"
  BY DEF Errnos, sock_errno_to_xury
<1> QED BY <1>1 DEF sock_recvfrom, platform_sock_recvfrom, Code

\* A receive that brings nothing ends an IPv6 call; the others wait on after a
\* timeout.
LEMMA ReturnsStep ==
  ASSUME IInv, pc = "wait", NEW rc, Returns(rc), UNCHANGED <<now, calls, outside>>,
         queue = <<>> \/ rc \in {"IO", "WOULD_BLOCK"}
  PROVE  IInv'
<1>1. PICK verdict :
        /\ verdict = CASE call.kind = "ipv6"    -> ipv6_received(rc)
                       [] call.kind = "predict" -> predict_received(rc)
                       [] call.kind = "mirror"  -> mirror_received(rc)
        /\ IF verdict = Running THEN NotForUs(queue) ELSE Finish(verdict)
  BY DEF Returns
<1>2. CASE verdict # Running BY <1>1, <1>2, FinishStep
<1>3. CASE verdict = Running
  <2>1. ipv6_received(rc) # Running BY NothingEnds DEF ipv6_received, Hows
  <2>2. call.kind # "ipv6" BY <1>1, <1>3, <2>1
  <2>3. call.kind \in {"predict", "mirror"} BY <2>2, Budget, DirectAssumption DEF Asked
  <2>4. rc = "TIMEOUT"
    <3>1. Nothing("failed", "OK") # Running /\ Nothing("failed", "IO") # Running
      BY NothingEnds DEF Hows
    <3> QED BY <1>1, <1>3, <2>3, <3>1 DEF predict_received, mirror_received
  <2>5. queue = <<>> BY <2>4
  <2>6. ~early BY <2>5 DEF IInv, Noticed
  <2> QED BY <1>1, <1>3, <2>2, <2>6, NotForUsStep DEF IInv, Contents, Origin
<1> QED BY <1>2, <1>3

LEMMA WaitStep == IInv /\ (WaitTimesOut \/ WaitFails) => IInv'
BY ReturnsStep, FailureCodes DEF WaitTimesOut, WaitFails
-----------------------------------------------------------------------------
(* The peer, the network, the clock.                                       *)

LEMMA ServeStep == IInv /\ Serve => IInv'
<1> SUFFICES ASSUME IInv, Serve PROVE IInv' OBVIOUS
<1>1. PICK p \in probes, port \in {peerAt, "third"}, family \in {0, 4} :
        /\ probes' = probes \ {p}
        /\ reached' = IF p.nonce = calls THEN reached \cup {p} ELSE reached
        /\ answers' = answers \cup {[to |-> p.socket, ip |-> "peer", port |-> port,
                                     body |-> Response(p.nonce, p.seen, family)]}
  BY DEF Serve
<1>2. UNCHANGED <<now, pc, call, deadline, since, wait, limit, ready, queue, end, calls, peerAt,
                  noise, early>>
  BY DEF Serve, waiting, inbox
<1> DEFINE body == Response(p.nonce, p.seen, family)
           answer == [to |-> p.socket, ip |-> "peer", port |-> port, body |-> body]
<1>3. p \in Probes /\ p.nonce <= calls /\ (pc # "idle" /\ p.nonce = calls => p.kind = call.kind)
  BY DEF IInv, TypeOK, Origin
<1>4. /\ body \in Replies /\ body.nonce = p.nonce /\ body.seen = p.seen
  BY <1>3 DEF Response, Replies, Probes
<1>5. answer \in [to : Sockets, ip : {"peer"}, port : PeerPorts, body : Replies]
      /\ answer.body = body
  BY <1>3, <1>4 DEF Probes, IInv, TypeOK, PeerPorts
<1> HIDE DEF body, answer
<1>6. answers' = answers \cup {answer} BY <1>1 DEF answer, body
<1>7. TypeOK' BY <1>1, <1>2, <1>3 DEF IInv, TypeOK, Listening
<1>8. CallType' /\ Timing' BY <1>2 DEF IInv, CallType, Timing, Bounded
<1>9. Contents' BY <1>2, <1>5, <1>6 DEF IInv, Contents
<1>10. Noticed'
  BY <1>2 DEF IInv, Noticed, Awaited, TestedBy, Counts, FromPeer, predict_matches, mirror_matches,
     make_nonce
<1>11. Origin'
  <2>1. \A q \in probes' : q.nonce <= calls /\ (pc # "idle" /\ q.nonce = calls => q.kind = call.kind)
    BY <1>1 DEF IInv, Origin
  <2>2. reached \subseteq reached'
        /\ \A q \in reached' : q.nonce = calls /\ (pc # "idle" => q.kind = call.kind)
    BY <1>1, <1>3 DEF IInv, Origin
  <2>3. ASSUME NEW b, Genuine(b) PROVE Genuine(b)'
    BY <1>2, <2>2, <2>3 DEF Genuine
  <2>4. Genuine(body)' BY <1>1, <1>2, <1>4 DEF Genuine
  <2>5. \A a \in answers' : a.body.nonce <= calls /\ Genuine(a.body)'
    BY <1>3, <1>4, <1>5, <1>6, <2>3, <2>4 DEF IInv, Origin
  <2>6. \A i \in 1..Len(queue) : Genuine(queue[i].body)'
    BY <1>2, <2>3 DEF IInv, Origin
  <2> QED BY <1>2, <2>1, <2>2, <2>5, <2>6 DEF Origin
<1> QED BY <1>7, <1>8, <1>9, <1>10, <1>11 DEF IInv

LEMMA ArrivesStep ==
  ASSUME IInv, NEW d \in Datagrams, Arrives(d), Genuine(d.body),
         UNCHANGED <<now, pc, call, waiting, end, calls, peerAt, probes, reached>>,
         answers' \subseteq answers, noise' \in Nat
  PROVE  IInv'
<1>1. /\ Listening /\ queue' = Append(queue, d)
      /\ ready' = (IF pc = "wait" /\ queue = <<>> THEN now ELSE ready)
      /\ early' = (early \/ Reachable(d))
      /\ UNCHANGED <<now, pc, call, deadline, since, wait, limit, end, calls, peerAt, probes, reached>>
  BY DEF Arrives, waiting
<1>2. queue \in Seq(Datagrams) BY DEF IInv, Contents
<1>3. /\ queue' \in Seq(Datagrams) /\ Len(queue') = Len(queue) + 1 /\ Len(queue) \in Nat
      /\ queue'[Len(queue) + 1] = d
      /\ \A i \in 1..Len(queue) : queue'[i] = queue[i]
  BY <1>1, <1>2
<1>4. early' \in BOOLEAN BY <1>1 DEF IInv, TypeOK
<1>10. ready' \in Nat BY <1>1, Numbers
<1>5. TypeOK' BY <1>1, <1>4, <1>10 DEF IInv, TypeOK, Listening
<1>6. CallType' /\ Timing' BY <1>1 DEF IInv, CallType, Timing, Bounded
<1>7. Contents' BY <1>3 DEF IInv, Contents
<1>8. Noticed'
  <2>1. \A e : Counts(e)' <=> Counts(e)
    BY <1>1 DEF Counts, FromPeer, predict_matches, mirror_matches, make_nonce
  <2>2. ASSUME early PROVE pc \in {"test", "wait"} /\ \E i \in 1..Len(queue') : Awaited(i)'
    <3>1. PICK i \in 1..Len(queue) : Awaited(i) BY <2>2 DEF IInv, Noticed
    <3>2. queue # <<>> /\ i \in 1..Len(queue') BY <1>2, <1>3, <3>1
    <3>3. ready' = ready /\ queue'[i] = queue[i] BY <1>1, <1>3, <3>2
    <3>4. Awaited(i)' BY <1>1, <2>1, <3>1, <3>3 DEF Awaited, TestedBy
    <3> QED BY <2>2, <3>2, <3>4 DEF IInv, Noticed
  <2>3. ASSUME Reachable(d)
        PROVE  pc \in {"test", "wait"} /\ \E i \in 1..Len(queue') : Awaited(i)'
    <3>1. PICK i \in Nat : i = Len(queue) + 1 BY <1>3
    <3>2. i \in 1..Len(queue') /\ i - 1 = Len(queue) /\ queue'[i] = d BY <1>3, <3>1
    <3>3. now \in Nat /\ ready \in Nat /\ limit \in Nat /\ Slop \in Nat BY Numbers
    <3>4. PICK ahead \in Nat : ahead = Len(queue) * Slop BY <1>3, <3>3
    <3>5. pc \in {"test", "wait"} /\ Counts(d) /\ now + ahead < limit
      BY <2>3, <3>4 DEF Reachable
    <3>6. (IF pc = "wait" THEN ready' ELSE now) \in Nat
          /\ (IF pc = "wait" THEN ready' ELSE now) <= now
      BY <1>1, <3>3 DEF IInv, Noticed
    <3>7. (IF pc = "wait" THEN ready' ELSE now) + ahead < limit BY <3>3, <3>4, <3>5, <3>6
    <3>8. Awaited(i)' BY <1>1, <2>1, <3>2, <3>4, <3>5, <3>7 DEF Awaited, TestedBy
    <3> QED BY <3>2, <3>5, <3>8
  <2>4. pc' = "wait" => ready' <= now' /\ now' <= ready' + Slop
    BY <1>1, Numbers DEF IInv, Noticed
  <2> QED BY <1>1, <2>2, <2>3, <2>4 DEF Noticed
<1>9. Origin'
  <2>1. ASSUME NEW b PROVE Genuine(b)' <=> Genuine(b) BY <1>1 DEF Genuine
  <2>2. ASSUME NEW i \in 1..Len(queue') PROVE Genuine(queue'[i].body)
    <3>1. CASE i = Len(queue) + 1 BY <1>3, <3>1
    <3>2. CASE i \in 1..Len(queue) BY <1>3, <3>2 DEF IInv, Origin
    <3> QED BY <1>3, <3>1, <3>2
  <2> QED BY <1>1, <2>1, <2>2 DEF IInv, Origin
<1> QED BY <1>5, <1>6, <1>7, <1>8, <1>9 DEF IInv

LEMMA DeliverStep == IInv /\ Deliver => IInv'
<1> SUFFICES ASSUME IInv, Deliver PROVE IInv' OBVIOUS
<1>1. PICK a \in answers, keep \in BOOLEAN :
        /\ Arrives([ip |-> a.ip, port |-> a.port, body |-> a.body])
        /\ Passes(keep) /\ answers' = IF keep THEN answers ELSE answers \ {a}
  BY DEF Deliver
<1> DEFINE d == [ip |-> a.ip, port |-> a.port, body |-> a.body]
<1>2. d \in Datagrams /\ d.body = a.body
  BY DEF IInv, Contents, Datagrams
<1>3. Genuine(a.body) BY DEF IInv, Origin
<1>4. answers' \subseteq answers BY <1>1
<1>5. noise' \in Nat BY <1>1 DEF Passes, IInv, TypeOK
<1> HIDE DEF d
<1>6. Arrives(d) BY <1>1 DEF d
<1> QED BY <1>2, <1>3, <1>4, <1>5, <1>6, ArrivesStep DEF Deliver

LEMMA JunkIsStray ==
  ASSUME IInv, NEW body \in Junk
  PROVE  body \in Strays /\ ~decode_response(body)
<1>1. calls \in Nat BY Numbers
<1>2. CASE body = [magic |-> FALSE, length |-> RESPONSE_SIZE, type |-> TYPE_RESPONSE, nonce |-> 0]
  <2>1. body \in Strays BY <1>2 DEF Strays, RESPONSE_SIZE, TYPE_RESPONSE
  <2>2. ~body.magic BY <1>2
  <2> QED BY <2>1, <2>2 DEF decode_response, magic_ok
<1>3. CASE body = [magic |-> TRUE, length |-> 20, type |-> TYPE_RESPONSE, nonce |-> calls]
  <2>1. body \in Strays BY <1>1, <1>3 DEF Strays, TYPE_RESPONSE
  <2>2. body.length = 20 BY <1>3
  <2> QED BY <2>1, <2>2 DEF decode_response, RESPONSE_SIZE
<1>4. CASE body = encode_request(calls)
  <2>1. body = [magic |-> TRUE, length |-> 15, type |-> 1, nonce |-> calls]
    BY <1>4 DEF encode_request, REQUEST_SIZE, TYPE_REQUEST
  <2>2. body \in Strays BY <1>1, <2>1 DEF Strays, TYPE_REQUEST
  <2>3. body.length = 15 BY <2>1
  <2> QED BY <2>2, <2>3 DEF decode_response, RESPONSE_SIZE
<1> QED BY <1>2, <1>3, <1>4 DEF Junk

LEMMA NoiseStep == IInv /\ Noise => IInv'
<1> SUFFICES ASSUME IInv, Noise PROVE IInv' OBVIOUS
<1>1. PICK ip \in {"peer", "other"}, body \in Junk :
        Arrives([ip |-> ip, port |-> "current", body |-> body])
  BY DEF Noise
<1> DEFINE d == [ip |-> ip, port |-> "current", body |-> body]
<1>2. d \in Datagrams /\ d.body = body BY JunkIsStray DEF Datagrams, PeerPorts
<1>3. Genuine(body) BY JunkIsStray DEF Genuine
<1>4. noise' \in Nat /\ answers' \subseteq answers BY DEF Noise, IInv, TypeOK
<1> HIDE DEF d
<1>5. Arrives(d) BY <1>1 DEF d
<1> QED BY <1>2, <1>3, <1>4, <1>5, ArrivesStep DEF Noise

LEMMA TickStep == IInv /\ Tick => IInv'
<1> SUFFICES ASSUME IInv, Tick PROVE IInv' OBVIOUS
<1>1. /\ now < MaxNow /\ pc = "wait" /\ now' = now + 1
      /\ wait = UINT32_MAX \/ now < since + wait + Slop
      /\ queue # <<>> => now < ready + Slop
      /\ UNCHANGED <<pc, call, deadline, since, wait, limit, ready, queue, end, calls, early,
                     peerAt, probes, answers, noise, reached>>
  BY DEF Tick, waiting, inbox, outside
<1>2. now' \in 0..MaxNow BY <1>1, Numbers
<1>3. TypeOK' BY <1>1, <1>2 DEF IInv, TypeOK, Listening
<1>4. CallType' /\ Contents' BY <1>1 DEF IInv, CallType, Contents
<1>5. Timing'
  <2>1. /\ pc' = "wait" /\ call' = call /\ deadline' = deadline /\ since' = since
        /\ wait' = wait /\ limit' = limit
    BY <1>1
  <2>2. now \in Nat /\ limit \in Nat /\ since \in Nat /\ wait \in Nat /\ Slop \in Nat
        /\ call.timeout \in Nat
    BY <1>1, Numbers, Budget
  <2>3. /\ call.kind # "ipv6" => deadline = IF call.timeout = 0 THEN 0 ELSE limit
        /\ call.timeout <= limit /\ limit <= now + call.timeout
        /\ Bounded => wait # UINT32_MAX /\ since + wait = limit
    BY <1>1 DEF IInv, Timing
  <2>4. limit <= now' + call.timeout BY <1>1, <2>2, <2>3
  <2>5. Bounded => now' <= limit + Slop BY <1>1, <2>2, <2>3
  <2>6. Bounded' <=> Bounded BY <2>1 DEF Bounded
  <2> QED BY <2>1, <2>3, <2>4, <2>5, <2>6 DEF Timing
<1>6. \A i \in 1..Len(queue) : Awaited(i) => Awaited(i)'
  BY <1>1 DEF Awaited, TestedBy, Counts, FromPeer, predict_matches, mirror_matches, make_nonce
<1>7. Noticed' BY <1>1, <1>6, Numbers DEF IInv, Noticed
<1>8. Origin' BY <1>1 DEF IInv, Origin, Genuine
<1> QED BY <1>3, <1>4, <1>5, <1>7, <1>8 DEF IInv

LEMMA StutterStep == IInv /\ UNCHANGED vars => IInv'
<1> SUFFICES ASSUME IInv, UNCHANGED vars PROVE IInv' OBVIOUS
<1>1. UNCHANGED <<now, pc, call, deadline, since, wait, limit, ready, queue, end, calls, early,
                  peerAt, probes, answers, noise, reached>>
  BY DEF vars, waiting, inbox, outside
<1>2. TypeOK' /\ CallType' /\ Contents' BY <1>1 DEF IInv, TypeOK, Listening, CallType, Contents
<1>3. Timing' /\ Noticed'
  BY <1>1 DEF IInv, Timing, Bounded, Noticed, Awaited, TestedBy, Counts, FromPeer, predict_matches,
     mirror_matches, make_nonce
<1>4. Origin' BY <1>1 DEF IInv, Origin, Genuine
<1> QED BY <1>2, <1>3, <1>4 DEF IInv

LEMMA NextIInv == IInv /\ [Next]_vars => IInv'
BY BeginStep, OpenStep, SendStep, GiveUpStep, StartWaitStep, HearsStep, WaitStep, ServeStep,
   DeliverStep, NoiseStep, TickStep, StutterStep
DEF Next, Run, Work, Stop
-----------------------------------------------------------------------------
(* What a step is that ends a call.                                        *)

\* A call that is refused or fails is neither late nor answered.
LEMMA FailuresFail ==
  ASSUME NEW verdict, NEW rc, verdict = Running \/ verdict = Nothing("failed", rc), Finish(verdict)
  PROVE  ~Ends("timeout") /\ ~Ends("answered")
<1>1. "failed" \in Hows BY DEF Hows
<1>2. end' = Running \/ end'.how = "failed" BY <1>1, NothingEnds DEF Finish
<1> QED BY <1>2 DEF Ends

LEMMA OpenFails ==
  ASSUME IInv, Open
  PROVE  ~Ends("timeout") /\ ~Ends("answered")
<1>1. call.kind \in {"ipv6", "predict", "mirror"}
  <2>1. pc = "open" BY DEF Open
  <2> QED BY <2>1, Budget, DirectAssumption DEF Asked
<1>2. PICK a, verdict :
        /\ verdict = CASE call.kind = "ipv6"    -> ipv6_open(a)
                       [] call.kind = "predict" -> predict_open(call.peer.family, a)
                       [] call.kind = "mirror"  -> mirror_open(call.peer.family, a)
        /\ verdict = Running => UNCHANGED end
        /\ verdict # Running => Finish(verdict)
  BY DEF Open
<1>3. CASE verdict = Running BY <1>2, <1>3 DEF Ends
<1>4. CASE verdict # Running
  <2>1. PICK rc : verdict = Running \/ verdict = Nothing("failed", rc)
    BY <1>1, <1>2 DEF ipv6_open, predict_open, mirror_open
  <2> QED BY <1>2, <1>4, <2>1, FailuresFail
<1> QED BY <1>3, <1>4

LEMMA SendFails ==
  ASSUME IInv, Send
  PROVE  ~Ends("timeout") /\ ~Ends("answered")
<1>1. call.kind \in {"ipv6", "predict", "mirror"}
  <2>1. pc # "idle" BY DEF Send
  <2> QED BY <2>1, Budget, DirectAssumption DEF Asked
<1>2. PICK a, verdict :
        /\ verdict = CASE call.kind = "ipv6"    -> ipv6_send(call.peer, a)
                       [] call.kind = "predict" -> send_probe(call.peer, a)
                       [] call.kind = "mirror"  -> mirror_send(call.peer, a)
        /\ verdict = Running => UNCHANGED end
        /\ verdict # Running => Finish(verdict)
  BY DEF Send
<1>3. CASE verdict = Running BY <1>2, <1>3 DEF Ends
<1>4. CASE verdict # Running
  <2>1. PICK rc : verdict = Running \/ verdict = Nothing("failed", rc)
    BY <1>1, <1>2 DEF ipv6_send, send_probe, mirror_send
  <2> QED BY <1>2, <1>4, <2>1, FailuresFail
<1> QED BY <1>3, <1>4

\* An interrupted wait, or a datagram spoilt: the call fails.
LEMMA WaitFailsFails ==
  ASSUME IInv, WaitFails
  PROVE  ~Ends("timeout") /\ ~Ends("answered")
<1>1. call.kind \in {"ipv6", "predict", "mirror"}
  <2>1. pc # "idle" BY DEF WaitFails
  <2> QED BY <2>1, Budget, DirectAssumption DEF Asked
<1>2. PICK select \in {"ready", "EINTR"} :
        Returns(sock_recvfrom(wait, select, "EAGAIN", call.peer.family))
  BY DEF WaitFails
<1> DEFINE rc == sock_recvfrom(wait, select, "EAGAIN", call.peer.family)
<1>3. rc \in {"IO", "WOULD_BLOCK"} BY FailureCodes
<1> HIDE DEF rc
<1>4. PICK verdict :
        /\ verdict = CASE call.kind = "ipv6"    -> ipv6_received(rc)
                       [] call.kind = "predict" -> predict_received(rc)
                       [] call.kind = "mirror"  -> mirror_received(rc)
        /\ verdict = Running => UNCHANGED end
        /\ verdict # Running => Finish(verdict)
  BY <1>2 DEF Returns, NotForUs, rc
<1>5. CASE verdict = Running BY <1>4, <1>5 DEF Ends
<1>6. CASE verdict # Running
  <2>1. PICK code : verdict = Running \/ verdict = Nothing("failed", code)
    BY <1>1, <1>3, <1>4 DEF ipv6_received, predict_received, mirror_received
  <2> QED BY <1>4, <1>6, <2>1, FailuresFail
<1> QED BY <1>5, <1>6

\* A wait that times out is no answer.
LEMMA SilenceIsNoAnswer ==
  ASSUME IInv, WaitTimesOut
  PROVE  ~Ends("answered")
<1>1. call.kind \in {"ipv6", "predict", "mirror"}
  <2>1. pc # "idle" BY DEF WaitTimesOut
  <2> QED BY <2>1, Budget, DirectAssumption DEF Asked
<1>2. UNCHANGED end \/ \E code : \E how \in {"timeout", "failed"} : end' = Nothing(how, code)
  <2>1. PICK rc : Returns(rc) BY DEF WaitTimesOut
  <2>2. PICK verdict :
          /\ verdict = CASE call.kind = "ipv6"    -> ipv6_received(rc)
                         [] call.kind = "predict" -> predict_received(rc)
                         [] call.kind = "mirror"  -> mirror_received(rc)
          /\ verdict = Running => UNCHANGED end
          /\ verdict # Running => end' = verdict
    BY <2>1 DEF Returns, NotForUs, Finish
  <2>3. \/ verdict = Running
        \/ \E code : \E how \in {"timeout", "failed"} : verdict = Nothing(how, code)
    BY <1>1, <2>2 DEF ipv6_received, predict_received, mirror_received
  <2> QED BY <2>2, <2>3
<1>3. \A code : \A how \in {"timeout", "failed"} : Nothing(how, code).how = how
  BY NothingEnds DEF Hows
<1> QED BY <1>2, <1>3 DEF Ends

LEMMA Endings ==
  ASSUME IInv, Next, NEW how \in {"timeout", "answered"}, Ends(how)
  PROVE  GiveUp \/ WaitTimesOut \/ Hears
<1>1. end = Running /\ end' # end BY DEF Ends
<1>2. pc # "idle" BY <1>1 DEF IInv, TypeOK
<1>3. ~Begin /\ ~Serve /\ ~Deliver /\ ~Noise /\ ~Tick /\ ~Stop /\ ~StartWait
  BY <1>1, <1>2 DEF Begin, Serve, Deliver, Arrives, Noise, Tick, Stop, StartWait, vars
<1>4. ~Open /\ ~Send /\ ~WaitFails BY OpenFails, SendFails, WaitFailsFails
<1> QED BY <1>3, <1>4 DEF Next, Run, Work
-----------------------------------------------------------------------------
(* The theorems.                                                           *)

\* Every reachable state satisfies the inductive invariant: the clock against
\* the budget, the noticed answers against the queue, and every queued answer
\* against the probe of the call it is for.
THEOREM InductiveInvariant == Spec => []IInv
<1>1. Init => IInv BY InitIInv
<1>2. IInv /\ [Next]_vars => IInv' BY NextIInv
<1> QED BY <1>1, <1>2, PTL DEF Spec

\* In every reachable state the call, its timers, the probes and the queue are
\* of their types: a call under way has not ended, and without a socket
\* nothing is queued.
THEOREM TypeCorrect == Spec => []TypeOK
<1>1. IInv => TypeOK BY DEF IInv
<1> QED BY <1>1, InductiveInvariant, PTL

\* weapon_ops.h's word on budget_ms: whatever strays arrive, and however often,
\* predict_run, mirror_query and the IPv6 weapon do not wait past the budget
\* by more than one wait may be late.
THEOREM BudgetIsKept == Spec => []EndsOnTime
<1>1. IInv => EndsOnTime BY DEF IInv, Timing, EndsOnTime
<1> QED BY <1>1, InductiveInvariant, PTL

\* A success of predict or of the mirror query answers a probe of this very
\* call, on however reused a socket, and what the mirror reports is what the
\* peer saw.
THEOREM SuccessAnswersThisCall == Spec => SuccessIsAnswered
<1> DEFINE Says == Ends("answered") /\ end'.success /\ call.kind # "ipv6" =>
                     \E p \in reached : /\ p.nonce = calls /\ p.kind = call.kind
                                       /\ call.kind = "mirror" => end'.self = p.seen
<1>1. ASSUME IInv, [Next]_vars PROVE Says
  <2> SUFFICES ASSUME Ends("answered"), end'.success, call.kind # "ipv6"
               PROVE  \E p \in reached : /\ p.nonce = calls /\ p.kind = call.kind
                                         /\ call.kind = "mirror" => end'.self = p.seen
    OBVIOUS
  <2>1. end' # end BY DEF Ends
  <2>2. GiveUp \/ WaitTimesOut \/ Hears BY <1>1, <2>1, Endings DEF vars
  <2>3. ~GiveUp
    <3>1. "timeout" \in Hows BY DEF Hows
    <3> QED BY <3>1, NothingEnds DEF GiveUp, Finish, Ends
  <2>4. ~WaitTimesOut BY <1>1, SilenceIsNoAnswer
  <2>5. Hears BY <2>2, <2>3, <2>4
  <2> DEFINE d == Head(queue)
  <2>6. /\ pc = "wait" /\ queue # <<>> /\ Counts(d)
        /\ end' = IF call.kind = "mirror" THEN endpoint_from_response(d.body)
                  ELSE Verdict("answered", "OK", TRUE, "cleared")
    BY <2>1, <2>5 DEF Hears, NotForUs, Finish
  <2>7. queue \in Seq(Datagrams) BY <1>1 DEF IInv, Contents
  <2>8. d = queue[1] /\ 1 \in 1..Len(queue) BY <2>6, <2>7
  <2>9. Genuine(d.body) BY <1>1, <2>8 DEF IInv, Origin
  <2> HIDE DEF d
  <2>10. call.kind \in {"predict", "mirror"} BY <1>1, <2>6, Budget, DirectAssumption DEF Asked
  <2>11. decode_response(d.body) /\ d.body.nonce = calls
    BY <2>6, <2>10 DEF Counts, predict_matches, mirror_matches, make_nonce
  <2>12. PICK p \in reached : p.seen = d.body.seen BY <2>9, <2>11 DEF Genuine
  <2>13. p.nonce = calls /\ p.kind = call.kind BY <1>1, <2>6 DEF IInv, Origin
  <2>14. call.kind = "mirror" => end'.self = p.seen
    BY <2>6, <2>12 DEF endpoint_from_response, Nothing, Verdict
  <2> QED BY <2>13, <2>14
<1> QED BY <1>1, InductiveInvariant, PTL DEF Spec, SuccessIsAnswered

\* predict_run and mirror_query look at the clock before every receive: an
\* answer is heard if it comes in time to let a late wake-up pass for every
\* datagram queued ahead of it (predict.c:538-541, mirror.c:525-529).
THEOREM PunctualAnswerIsHeard == Spec => PunctualAnswerWins
<1>1. ASSUME IInv, [Next]_vars PROVE Ends("timeout") => ~early
  <2> SUFFICES ASSUME Ends("timeout"), early PROVE FALSE OBVIOUS
  <2>1. end' # end BY DEF Ends
  <2>2. GiveUp \/ WaitTimesOut \/ Hears BY <1>1, <2>1, Endings DEF vars
  <2>3. queue # <<>> /\ (pc = "test" => now < limit)
    <3>1. PICK i \in 1..Len(queue) : Awaited(i) BY <1>1 DEF IInv, Noticed
    <3>2. queue \in Seq(Datagrams) BY <1>1 DEF IInv, Contents
    <3>3. queue # <<>> /\ i - 1 \in Nat BY <3>1, <3>2
    <3>4. now \in Nat /\ limit \in Nat /\ Slop \in Nat BY <1>1, Numbers
    <3>5. PICK ahead \in Nat : ahead = (i - 1) * Slop BY <3>3, <3>4
    <3>6. pc = "test" => now + ahead < limit BY <3>1, <3>5 DEF Awaited, TestedBy
    <3> QED BY <3>3, <3>4, <3>5, <3>6
  <2>4. ~GiveUp
    BY <1>1, <2>3, Numbers DEF GiveUp, TimedOut, IInv, Timing
  <2>5. ~WaitTimesOut BY <2>3 DEF WaitTimesOut
  <2>6. ~Hears
    <3>1. ASSUME Hears PROVE end'.how = "answered"
      BY <2>1, <3>1, AnswersAnswer DEF Hears, NotForUs, Finish
    <3> QED BY <3>1 DEF Ends
  <2> QED BY <2>2, <2>4, <2>5, <2>6
<1> QED BY <1>1, InductiveInvariant, PTL DEF Spec, PunctualAnswerWins
-----------------------------------------------------------------------------
(* Direct implements WeaponPromise.                                        *)

\* What is left of the budget, and what a success can be shown by.
Left ==
  IF pc = "idle" THEN 0
  ELSE IF ~Bounded THEN -1
  ELSE IF pc \in {"test", "wait"} THEN limit + Slop - now ELSE call.timeout + Slop
Evidence == pc # "idle" /\ IF call.kind = "ipv6" THEN queue # <<>> ELSE reached # {}

LEMMA PromiseIs ==
  /\ (IF pc = "idle" THEN 0
      ELSE IF ~Bounded THEN -1
      ELSE IF pc \in {"test", "wait"} THEN limit + Slop - now ELSE call.timeout + Slop) = Left
  /\ (pc # "idle" /\ IF call.kind = "ipv6" THEN queue # <<>> ELSE reached # {}) <=> Evidence
BY DEF Left, Evidence

LEMMA LeftIsNat == ASSUME IInv PROVE Left = -1 \/ Left \in Nat
<1>1. now \in Nat /\ limit \in Nat /\ Slop \in Nat BY Numbers
<1>2. pc # "idle" => call.timeout \in Nat BY Budget
<1>3. pc \in {"test", "wait"} /\ Bounded => now <= limit + Slop BY DEF IInv, Timing
<1> QED BY <1>1, <1>2, <1>3 DEF Left

\* A call that goes on spends nothing and loses no evidence.
LEMMA GoesOn ==
  ASSUME IInv, pc # "idle", pc' # "idle", now' = now, Left' = Left, Evidence => Evidence'
  PROVE  Promise!Next
<1>1. IF Left = -1 THEN Left' = -1 ELSE Left' \in 0..(Left - 0) BY LeftIsNat
<1>2. Promise!Work
  BY <1>1, PromiseIs
  DEF Promise!Work, Promise!Spends, Promise!Restarts, Promise!Forever, Left, Evidence
<1> QED BY <1>2 DEF Promise!Next

LEMMA Ended ==
  ASSUME pc # "idle", NEW verdict, Finish(verdict), now' = now, verdict.success => Evidence
  PROVE  Promise!Next
<1>1. pc' = "idle" /\ end' = verdict BY DEF Finish
<1>2. Promise!Return BY <1>1 DEF Promise!Return, Promise!Restarts, Evidence
<1> QED BY <1>2 DEF Promise!Next

LEMMA Failed ==
  ASSUME pc # "idle", NEW how, NEW rc, Finish(Nothing(how, rc)), now' = now
  PROVE  Promise!Next
<1>1. ~Nothing(how, rc).success BY DEF Nothing, Verdict
<1> QED BY <1>1, Ended

LEMMA BeginPromise == ASSUME IInv, Begin PROVE Promise!Next
<1>1. /\ pc = "idle" /\ now' = 0 /\ queue = <<>> /\ queue' = queue /\ reached' = {}
  BY DEF Begin, inbox, IInv, TypeOK, Listening
<1>2. PICK kind \in Kinds, peer \in Targets, timeout \in Timeouts,
           predicted \in {"none", "current", "predicted"} :
        \/ end' = Nothing("refused", "INVAL") /\ pc' = pc
        \/ end' = Nothing("refused", "OK") /\ pc' = pc
        \/ /\ end' = Running /\ pc' = "open"
           /\ call' = [kind |-> kind, peer |-> peer, timeout |-> timeout,
                       predicted |-> predicted, socket |-> NoSocket]
  BY DEF Begin
<1>3. ASSUME NEW rc, end' = Nothing("refused", rc), pc' = pc PROVE Promise!Next
  <2>1. ~end'.success BY <1>3 DEF Nothing, Verdict
  <2>2. Promise!Refuse BY <1>1, <1>3, <2>1 DEF Promise!Refuse, Promise!Restarts
  <2> QED BY <2>2 DEF Promise!Next
<1>4. CASE /\ pc' = "open"
           /\ call' = [kind |-> kind, peer |-> peer, timeout |-> timeout,
                       predicted |-> predicted, socket |-> NoSocket]
  <2>1. call'.timeout = timeout BY <1>4
  <2>2. Left' = IF timeout \in {0, UINT32_MAX} THEN -1 ELSE timeout + Slop
    BY <1>4, <2>1 DEF Left, Bounded
  <2>3. Left' \in {t + Slop : t \in Timeouts \ {0, UINT32_MAX}} \cup {-1}
    BY <2>2
  <2>4. ~Evidence' BY <1>1 DEF Evidence
  <2>5. Promise!Start
    BY <1>1, <1>4, <2>3, <2>4 DEF Promise!Start, Promise!Restarts, Left, Evidence
  <2> QED BY <2>5 DEF Promise!Next
<1> QED BY <1>2, <1>3, <1>4

LEMMA OpenPromise == ASSUME IInv, Open PROVE Promise!Next
<1>1. pc = "open" /\ UNCHANGED <<now, reached>> BY DEF Open, outside
<1>2. call \in Asked BY <1>1, Budget
<1>3. PICK a, verdict :
        /\ verdict = CASE call.kind = "ipv6"    -> ipv6_open(a)
                       [] call.kind = "predict" -> predict_open(call.peer.family, a)
                       [] call.kind = "mirror"  -> mirror_open(call.peer.family, a)
        /\ IF verdict = Running
           THEN /\ pc' = "send"
                /\ \E number \in Sockets : call' = [call EXCEPT !.socket = number]
                /\ UNCHANGED queue
           ELSE Finish(verdict)
  BY DEF Open, inbox
<1>4. CASE verdict = Running
  <2>1. call'.kind = call.kind /\ call'.timeout = call.timeout BY <1>2, <1>3, <1>4 DEF Asked
  <2>2. Left' = Left BY <1>1, <1>3, <1>4, <2>1 DEF Left, Bounded
  <2>3. Evidence => Evidence' BY <1>1, <1>3, <1>4, <2>1 DEF Evidence
  <2> QED BY <1>1, <1>3, <1>4, <2>2, <2>3, GoesOn
<1>5. CASE verdict # Running
  <2>1. call.kind \in {"ipv6", "predict", "mirror"} BY <1>2, DirectAssumption DEF Asked
  <2>2. PICK rc : verdict = Running \/ verdict = Nothing("failed", rc)
    BY <1>3, <2>1 DEF ipv6_open, predict_open, mirror_open
  <2> QED BY <1>1, <1>3, <1>5, <2>2, Failed
<1> QED BY <1>4, <1>5

LEMMA SendPromise == ASSUME IInv, Send PROVE Promise!Next
<1>1. pc \in {"send", "send_predicted"} /\ UNCHANGED <<now, reached>> BY DEF Send
<1>2. call \in Asked /\ call.timeout \in Nat BY <1>1, Budget
<1> DEFINE Goes == /\ IF SendsTo = peerAt
                      THEN \E seen \in Ports : probes' = probes \cup {Probe(seen)}
                      ELSE UNCHANGED probes
                   /\ IF ~LastProbe THEN pc' = "send_predicted" /\ UNCHANGED <<waiting, ready>>
                      ELSE limit' = now + call.timeout /\ IF call.kind = "ipv6" THEN ipv6_wait
                                                          ELSE StartDeadline
                   /\ UNCHANGED <<call, queue, end, early>>
           asks(a) == CASE call.kind = "ipv6"    -> ipv6_send(call.peer, a)
                        [] call.kind = "predict" -> send_probe(call.peer, a)
                        [] call.kind = "mirror"  -> mirror_send(call.peer, a)
<1>3. PICK a, verdict :
        /\ verdict = asks(a)
        /\ IF verdict # Running THEN Finish(verdict) ELSE Goes
  <2>1. \E sendto \in {"ok", "ENETUNREACH", "EPERM"}, short \in BOOLEAN :
          LET a == [sendto |-> sendto, short |-> short]
          IN  IF asks(a) # Running THEN Finish(asks(a)) /\ UNCHANGED probes ELSE Goes
    BY Zenon DEF Send
  <2> HIDE DEF Goes, asks
  <2> QED BY <2>1
<1>4. CASE verdict = Running
  <2>1. UNCHANGED <<call, queue>> BY <1>3, <1>4
  <2>2. \/ pc' = "send_predicted"
        \/ pc' \in {"test", "wait"} /\ limit' = now + call.timeout
    BY <1>3, <1>4 DEF ipv6_wait, StartDeadline
  <2>3. now \in Nat /\ Slop \in Nat BY Numbers
  <2>4. Left' = Left
    <3>1. Bounded' <=> Bounded BY <2>1 DEF Bounded
    <3> QED BY <1>1, <1>2, <2>1, <2>2, <2>3, <3>1 DEF Left
  <2>5. Evidence => Evidence' BY <1>1, <2>1, <2>2 DEF Evidence
  <2> QED BY <1>1, <2>2, <2>4, <2>5, GoesOn
<1>5. CASE verdict # Running
  <2>1. call.kind \in {"ipv6", "predict", "mirror"} BY <1>2, DirectAssumption DEF Asked
  <2>2. PICK rc : verdict = Running \/ verdict = Nothing("failed", rc)
    BY <1>3, <2>1 DEF ipv6_send, send_probe, mirror_send
  <2> QED BY <1>1, <1>3, <1>5, <2>2, Failed
<1> QED BY <1>4, <1>5

\* A datagram that does not count, or a wait that brings nothing: the call
\* tests its deadline again, or fails.
LEMMA NotForUsPromise ==
  ASSUME IInv, pc = "wait", NEW rest, NotForUs(rest), UNCHANGED <<now, reached>>,
         call.kind = "ipv6" => rest = queue
  PROVE  Promise!Next
<1>1. pc' = "test" /\ queue' = rest /\ UNCHANGED <<call, limit>> BY DEF NotForUs, waiting
<1>2. Left' = Left
  <2>1. Bounded' <=> Bounded BY <1>1 DEF Bounded
  <2> QED BY <1>1, <2>1 DEF Left
<1>3. Evidence => Evidence' BY <1>1 DEF Evidence
<1> QED BY <1>1, <1>2, <1>3, GoesOn

LEMMA ReturnsPromise ==
  ASSUME IInv, pc = "wait", NEW rc, Returns(rc), UNCHANGED <<now, reached>>
  PROVE  Promise!Next
<1>1. call.kind \in {"ipv6", "predict", "mirror"} BY Budget, DirectAssumption DEF Asked
<1>2. PICK verdict :
        /\ verdict = CASE call.kind = "ipv6"    -> ipv6_received(rc)
                       [] call.kind = "predict" -> predict_received(rc)
                       [] call.kind = "mirror"  -> mirror_received(rc)
        /\ IF verdict = Running THEN NotForUs(queue) ELSE Finish(verdict)
  BY DEF Returns
<1>3. CASE verdict = Running BY <1>2, <1>3, NotForUsPromise
<1>4. CASE verdict # Running
  <2>1. PICK how, code : verdict = Running \/ verdict = Nothing(how, code)
    BY <1>1, <1>2 DEF ipv6_received, predict_received, mirror_received
  <2> QED BY <1>2, <1>4, <2>1, Failed
<1> QED BY <1>3, <1>4

\* A success is heard: of the peer itself for predict and mirror.
LEMMA HearsPromise == ASSUME IInv, Hears PROVE Promise!Next
<1> DEFINE d == Head(queue)
<1>1. /\ pc = "wait" /\ queue # <<>> /\ UNCHANGED <<now, reached>>
      /\ IF ~Counts(d) THEN NotForUs(Tail(queue))
         ELSE Finish(IF call.kind = "mirror" THEN endpoint_from_response(d.body)
                     ELSE Verdict("answered", "OK", TRUE, "cleared"))
  BY DEF Hears, outside
<1>2. queue \in Seq(Datagrams) BY DEF IInv, Contents
<1>3. d = queue[1] /\ 1 \in 1..Len(queue) BY <1>1, <1>2
<1>4. Genuine(d.body) BY <1>3 DEF IInv, Origin
<1> HIDE DEF d
<1>5. CASE ~Counts(d)
  <2>1. call.kind # "ipv6" BY <1>5 DEF Counts
  <2>2. NotForUs(Tail(queue)) BY <1>1, <1>5
  <2> QED BY <1>1, <2>1, <2>2, NotForUsPromise
<1>6. CASE Counts(d)
  <2>1. call.kind \in {"ipv6", "predict", "mirror"} BY <1>1, Budget, DirectAssumption DEF Asked
  <2>2. call.kind # "ipv6" => decode_response(d.body) /\ d.body.nonce = calls
    BY <1>6, <2>1 DEF Counts, predict_matches, mirror_matches, make_nonce
  <2>3. call.kind # "ipv6" => reached # {} BY <1>4, <2>2 DEF Genuine
  <2>4. Evidence BY <1>1, <2>3 DEF Evidence
  <2>5. PICK verdict : Finish(verdict) BY <1>1, <1>6
  <2> QED BY <1>1, <2>4, <2>5, Ended
<1> QED BY <1>5, <1>6

LEMMA RunPromise == ASSUME IInv, Run PROVE Promise!Next
<1>1. CASE GiveUp
  <2>1. pc # "idle" /\ now' = now BY <1>1 DEF GiveUp
  <2>2. PICK rc : Finish(Nothing("timeout", rc)) BY <1>1 DEF GiveUp
  <2> QED BY <2>1, <2>2, Failed
<1>2. CASE StartWait
  <2>1. /\ pc = "test" /\ pc' = "wait" /\ UNCHANGED <<now, call, limit, queue, reached>>
    BY <1>2 DEF StartWait, outside
  <2>2. Bounded' <=> Bounded BY <2>1 DEF Bounded
  <2>3. Left' = Left BY <2>1, <2>2 DEF Left
  <2>4. Evidence => Evidence' BY <2>1 DEF Evidence
  <2> QED BY <2>1, <2>3, <2>4, GoesOn
<1>3. CASE WaitTimesOut \/ WaitFails
  <2>1. pc = "wait" /\ UNCHANGED <<now, reached>> BY <1>3 DEF WaitTimesOut, WaitFails, outside
  <2>2. PICK rc : Returns(rc) BY <1>3 DEF WaitTimesOut, WaitFails
  <2> QED BY <2>1, <2>2, ReturnsPromise
<1> QED BY <1>1, <1>2, <1>3, OpenPromise, SendPromise, HearsPromise DEF Run, Work

\* What has come, and what the peer has answered, is only added to.
LEMMA WorldPromise ==
  ASSUME IInv, Serve \/ Deliver \/ Noise
  PROVE  [Promise!Next]_(Promise!promiseVars)
<1>1. /\ UNCHANGED <<now, pc, call, limit, end>>
      /\ reached # {} => reached' # {}
  BY DEF Serve, Deliver, Noise, waiting
<1>2. queue # <<>> => queue' # <<>>
  <2>1. CASE Serve BY <2>1 DEF Serve, inbox
  <2>2. CASE Deliver \/ Noise
    <3>1. PICK d : queue' = Append(queue, d) BY <2>2 DEF Deliver, Noise, Arrives
    <3>2. queue \in Seq(Datagrams) BY DEF IInv, Contents
    <3>3. Len(queue') # 0 BY <3>1, <3>2
    <3> QED BY <3>3
  <2> QED BY <2>1, <2>2
<1>3. CASE pc = "idle" BY <1>1, <1>3 DEF Promise!promiseVars
<1>4. CASE pc # "idle"
  <2>1. Bounded' <=> Bounded BY <1>1 DEF Bounded
  <2>2. Left' = Left BY <1>1, <2>1 DEF Left
  <2>3. Evidence => Evidence' BY <1>1, <1>2 DEF Evidence
  <2> QED BY <1>1, <1>4, <2>2, <2>3, GoesOn
<1> QED BY <1>3, <1>4

LEMMA TickPromise == ASSUME IInv, IInv', Tick PROVE Promise!Next
<1>1. /\ pc = "wait" /\ now' = now + 1
      /\ UNCHANGED <<pc, call, limit, queue, end, reached>>
  BY DEF Tick, waiting, inbox, outside
<1>2. now \in Nat /\ limit \in Nat /\ Slop \in Nat BY Numbers
<1>3. Bounded' <=> Bounded BY <1>1 DEF Bounded
<1>4. Bounded => now + 1 <= limit + Slop BY <1>1, <1>3 DEF IInv, Timing
<1>5. Left = (IF ~Bounded THEN -1 ELSE limit + Slop - now)
      /\ Left' = (IF ~Bounded THEN -1 ELSE limit + Slop - (now + 1))
  BY <1>1, <1>3 DEF Left
<1>6. IF Left = -1 THEN Left' = -1 ELSE Left' \in 0..(Left - 1) BY <1>2, <1>4, <1>5
<1>7. Evidence' <=> Evidence BY <1>1 DEF Evidence
<1>8. Promise!Pass
  BY <1>1, <1>6, <1>7 DEF Promise!Pass, Promise!Spends, Promise!Forever, Left, Evidence
<1> QED BY <1>8 DEF Promise!Next

\* predict.c, mirror.c, ipv6.c: every execution is one of the abstract weapon:
\* a call is refused, or it is over within its budget and a wake-up, and a
\* success of predict and mirror has an answered probe of the call behind it.
THEOREM Refinement == Spec => KeepsPromise
<1>1. Init => Promise!Init
  <2> SUFFICES ASSUME Init PROVE Promise!Init OBVIOUS
  <2>1. ~end.success BY DEF Init, Nothing, Verdict
  <2> QED BY <2>1 DEF Init, Promise!Init
<1>2. IInv /\ IInv' /\ [Next]_vars => [Promise!Next]_(Promise!promiseVars)
  <2> SUFFICES ASSUME IInv, IInv', [Next]_vars PROVE [Promise!Next]_(Promise!promiseVars)
    OBVIOUS
  <2>1. CASE Begin BY <2>1, BeginPromise
  <2>2. CASE Run BY <2>2, RunPromise
  <2>3. CASE Serve \/ Deliver \/ Noise BY <2>3, WorldPromise
  <2>4. CASE Tick BY <2>4, TickPromise
  <2>5. CASE Stop \/ UNCHANGED vars
    BY <2>5 DEF Stop, vars, waiting, inbox, outside, Promise!promiseVars, Bounded
  <2> QED BY <2>1, <2>2, <2>3, <2>4, <2>5 DEF Next
<1> QED BY <1>1, <1>2, InductiveInvariant, PTL DEF Spec, KeepsPromise, Promise!Spec
=============================================================================

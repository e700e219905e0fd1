--------------------------- MODULE GatewayProofs ---------------------------
(***************************************************************************)
(* Theorems about the NAT-PMP and PCP attempts, for every timeout, socket  *)
(* number, wake-up delay and number of attempts.                           *)
(***************************************************************************)
EXTENDS Gateway, TLAPS

-----------------------------------------------------------------------------
(* What the decoders see.                                                  *)

LEMMA NatpmpAnswerBytes ==
  ASSUME NEW a \in Answers
  PROVE  /\ Len(NatpmpBytes(a)) = 16 /\ NatpmpBytes(a)[1] = a.version
         /\ NatpmpBytes(a)[2] = MapResponse
         /\ Field(NatpmpBytes(a), 2, 2)[1] = 0 /\ Field(NatpmpBytes(a), 2, 2)[2] = a.result
BY DEF NatpmpBytes, Field

\* The byte that decode_map_response takes for the first of the nonce is the
\* last of the header.
LEMMA PcpAnswerBytes ==
  ASSUME NEW a \in Answers
  PROVE  /\ Len(PcpBytes(a)) = 60 /\ PcpBytes(a)[1] = a.version
         /\ Field(PcpBytes(a), PcpNonceAt, 12)[1] = 0
BY DEF PcpBytes, Field, PcpNonceAt

LEMMA NonceStart ==
  ASSUME NEW r \in Requests
  PROVE  Nonce(r)[1] # 0
<1>1. r.attempt \in Nat \ {0}
  BY GatewayAssumption DEF Requests
<1> QED BY <1>1 DEF Nonce

\* PCP accepts nothing; NAT-PMP accepts the gateway's answers to NAT-PMP.
LEMMA MatchesOnlyNatpmp ==
  ASSUME NEW a \in Answers, NEW r \in Requests, Matches(a, r)
  PROVE  /\ r.proto = "NATPMP" /\ a.to.proto = "NATPMP"
         /\ a.from = "gateway" /\ a.version = 0
         /\ Granted(a, r.proto) <=> a.result = 0
<1> DEFINE b == Bytes(a)
<1>0. a.from = "gateway" /\ Len(b) >= AnswerLength(r.proto) /\ b[1] = Version(r.proto)
      /\ (r.proto = "PCP" => Field(b, PcpNonceAt, 12) = Nonce(r))
  BY DEF Matches
<1>1. a.to \in Requests /\ a.to.proto \in Protocols /\ r.proto \in Protocols
  BY DEF Answers, Requests
<1>2. a.version = Version(a.to.proto)
  <2> SUFFICES ASSUME a.version # Version(a.to.proto) PROVE FALSE
    OBVIOUS
  <2>1. b = Refusal(a)
    BY DEF Bytes
  <2>2. Len(b) = 4
    BY <2>1 DEF Refusal
  <2> QED BY <1>0, <2>2 DEF AnswerLength
<1>3. CASE a.to.proto = "PCP"
  <2>1. b = PcpBytes(a)
    BY <1>2, <1>3 DEF Bytes
  <2>2. r.proto = "PCP"
    BY <1>0, <1>1, <1>2, <1>3, <2>1, PcpAnswerBytes DEF Version, Protocols
  <2> HIDE DEF b
  <2>3. Nonce(r)[1] = 0
    BY <1>0, <2>1, <2>2, PcpAnswerBytes
  <2> QED BY <2>3, NonceStart
<1>4. CASE a.to.proto = "NATPMP"
  <2>1. b = NatpmpBytes(a)
    BY <1>2, <1>4 DEF Bytes
  <2>2. r.proto = "NATPMP" /\ a.version = 0
    BY <1>0, <1>1, <1>2, <1>4, <2>1, NatpmpAnswerBytes DEF Version, Protocols
  <2>3. Granted(a, r.proto) <=> Field(b, 2, 2) = <<0, 0>>
    BY <2>2 DEF Granted
  <2>4. Field(b, 2, 2) = <<0, 0>> <=> a.result = 0
    BY <2>1 DEF Field, NatpmpBytes
  <2> QED BY <1>0, <1>4, <2>2, <2>3, <2>4
<1> QED BY <1>1, <1>3, <1>4 DEF Protocols

\* The NAT-PMP gateway's answer to the request is taken for what it is.
LEMMA ProperMatches ==
  ASSUME NEW a \in Answers, a.to = request, request \in Requests, request.proto = "NATPMP", Proper(a)
  PROVE  Matches(a, request)
<1>1. a.version = Version(a.to.proto) /\ a.from = "gateway"
  BY DEF Proper
<1>2. Bytes(a) = NatpmpBytes(a)
  BY <1>1 DEF Bytes
<1>3. Len(Bytes(a)) = 16 /\ Bytes(a)[1] = a.version /\ Bytes(a)[2] = MapResponse
  BY <1>2, NatpmpAnswerBytes
<1> QED BY <1>1, <1>3 DEF Matches, AnswerLength
-----------------------------------------------------------------------------
(* The inductive invariant.                                                *)

Queued == {queue[i] : i \in 1..Len(queue)}

\* Whatever is under way stems from this attempt or from a socket used before.
Known(r) == r.socket \in used \/ (Listening /\ r = request)
AllKnown ==
  /\ \A r \in asked \cup mapped : Known(r)
  /\ \A a \in answers \cup Queued : Known(a.to)

\* A granting answer of the gateway has its mapping behind it.
Backed(a) ==
  a.from = "gateway" /\ a.version = Version(a.to.proto) /\ a.result = 0 => a.to \in mapped
AllBacked == \A a \in answers \cup Queued : Backed(a)

\* What waits at the socket was sent to it.
Addressed == \A a \in Queued : Listening /\ a.to.socket = request.socket

OnTime ==
  /\ pc \in {"idle", "open", "send"} => deadline = 0 /\ ~early
  /\ pc \in {"test", "wait"} => now <= deadline + Slop
  /\ pc = "wait" => wake = deadline
  /\ pc = "wait" /\ queue # <<>> => ready <= now /\ now <= ready + Slop

\* When, at the latest, the deadline is tested with i datagrams still ahead.
TestedBy(i) == (IF pc = "wait" THEN ready ELSE now) + i * Slop

\* The early answer is still in the queue, and all before it can be passed
\* over before the deadline.
Reached(i) == Proper(queue[i]) /\ TestedBy(i - 1) < deadline
Heard == early => \E i \in 1..Len(queue) : Reached(i)

Rest == AllKnown /\ AllBacked /\ Addressed /\ OnTime
        /\ (Listening /\ request.proto = "NATPMP" => Heard)

IInv == TypeOK /\ Rest

LEMMA TypeInit == Init => TypeOK
<1> SUFFICES ASSUME Init PROVE TypeOK
  OBVIOUS
<1>1. <<>> \in Seq(Answers) /\ FALSE \in BOOLEAN
  OBVIOUS
<1>2. queue \in Seq(Answers) /\ early \in BOOLEAN
  BY <1>1 DEF Init
<1> QED BY <1>2, GatewayAssumption DEF Init, TypeOK, Listening

LEMMA FinishType ==
  ASSUME TypeOK, NEW verdict \in {"error", "timeout", "denied", "success"}, Finish(verdict),
         UNCHANGED <<now, attempts, outside>>, used' \subseteq Sockets
  PROVE  TypeOK'
<1>1. <<>> \in Seq(Answers) /\ FALSE \in BOOLEAN
  OBVIOUS
<1>2. queue' \in Seq(Answers) /\ early' \in BOOLEAN
  BY <1>1 DEF Finish
<1> QED BY <1>2 DEF TypeOK, Finish, Listening, outside, NoRequest

LEMMA CloseType ==
  ASSUME TypeOK, Listening, NEW verdict \in {"error", "timeout", "denied", "success"}, Close(verdict)
  PROVE  TypeOK'
<1>1. used' \subseteq Sockets
  BY DEF TypeOK, Listening, Close, Requests
<1> QED BY <1>1, FinishType DEF Close

LEMMA TypeNext == TypeOK /\ [Next]_vars => TypeOK'
<1> SUFFICES ASSUME TypeOK, [Next]_vars PROVE TypeOK'
  OBVIOUS
<1>1. CASE Begin
  BY <1>1, GatewayAssumption DEF TypeOK, Begin, Listening, outside
<1>2. CASE Open
  <2>1. CASE Finish("error") /\ UNCHANGED used
    BY <2>1, <1>2, FinishType DEF Open, TypeOK
  <2>2. ASSUME NEW socket \in Sockets,
               request' = [proto |-> request.proto, attempt |-> attempts, socket |-> socket],
               pc' = "send", UNCHANGED <<deadline, wake, ready, queue, early, end, used>>
        PROVE  TypeOK'
    <3>1. attempts \in 1..MaxAttempts
      BY <1>2 DEF Open, TypeOK
    <3> QED BY <2>2, <3>1, <1>2 DEF TypeOK, Open, Listening, Requests, outside
  <2> QED BY <2>1, <2>2, <1>2 DEF Open
<1>3. CASE SendFails \/ ReceiveFails
  BY <1>3, CloseType DEF SendFails, ReceiveFails, Listening
<1>4. CASE Send
  <2>1. now + Timeout \in Nat BY GatewayAssumption DEF TypeOK
  <2> QED BY <2>1, <1>4 DEF TypeOK, Send, Listening
<1>5. CASE GiveUp
  BY <1>5, CloseType DEF GiveUp, Listening
<1>6. CASE StartWait
  <2>1. now + Wait \in Nat /\ now \in Nat BY GatewayAssumption DEF TypeOK, Wait
  <2> QED BY <2>1, <1>6 DEF TypeOK, StartWait, Listening, outside
<1>7. CASE WaitEnds
  BY <1>7 DEF TypeOK, WaitEnds, Listening, attempt, outside
<1>8. CASE Ignore
  BY <1>8 DEF TypeOK, Ignore, Listening, outside
<1>9. CASE Accept
  BY <1>9, CloseType DEF Accept, Listening
<1>10. CASE Serve
  <2>1. PICK r \in asked, keep \in BOOLEAN, result \in {0, 1}, version \in {0, 2} :
          /\ Passes(keep)
          /\ asked' = IF keep THEN asked ELSE asked \ {r}
          /\ mapped' = mapped \/ mapped' = mapped \cup {r}
          /\ answers' = answers \cup
               {[to |-> r, from |-> "gateway", version |-> version, result |-> result]}
    BY <1>10 DEF Serve
  <2>2. noise' \in Nat BY <2>1 DEF Passes, TypeOK
  <2>3. asked' \subseteq Requests /\ mapped' \subseteq Requests /\ answers' \subseteq Answers
    BY <2>1 DEF TypeOK, Answers
  <2> QED BY <2>2, <2>3, <1>10 DEF TypeOK, Serve, Listening, attempt
<1>11. CASE Lose
  BY <1>11 DEF TypeOK, Lose, Listening, attempt
<1>12. CASE Deliver
  <2>1. PICK a \in answers, keep \in BOOLEAN :
          /\ Arrives(a) /\ Passes(keep)
          /\ early' = (early \/ Reachable(a))
          /\ answers' = IF keep THEN answers ELSE answers \ {a}
    BY <1>12 DEF Deliver
  <2>2. noise' \in Nat BY <2>1 DEF Passes, TypeOK
  <2>3. queue' \in Seq(Answers) /\ Listening /\ ready' \in Nat
    BY <2>1, GatewayAssumption DEF Arrives, TypeOK
  <2>4. early' \in BOOLEAN /\ answers' \subseteq Answers
    BY <2>1 DEF TypeOK
  <2> QED BY <2>2, <2>3, <2>4, <1>12 DEF TypeOK, Deliver, Listening
<1>13. CASE Noise
  <2> DEFINE a == [to |-> request, from |-> "other", version |-> Version(request.proto), result |-> 0]
  <2>1. a \in Answers
    BY <1>13 DEF Noise, TypeOK, Answers, Version
  <2>2. Arrives(a) /\ Listening BY <1>13 DEF Noise
  <2> HIDE DEF a
  <2>3. queue' \in Seq(Answers) /\ ready' \in Nat
    BY <2>1, <2>2, GatewayAssumption DEF Arrives, TypeOK
  <2> QED BY <2>2, <2>3, <1>13 DEF TypeOK, Noise, Listening
<1>14. CASE Tick
  BY <1>14, GatewayAssumption DEF TypeOK, Tick, Listening, attempt, outside
<1>15. CASE Stop \/ UNCHANGED vars
  BY <1>15 DEF TypeOK, Stop, vars, Listening, attempt, outside
<1> QED BY <1>1, <1>2, <1>3, <1>4, <1>5, <1>6, <1>7, <1>8, <1>9, <1>10, <1>11, <1>12, <1>13,
           <1>14, <1>15 DEF Next, Run, Work, World
-----------------------------------------------------------------------------
(* The other conjuncts, step by step.                                      *)

\* A closed attempt leaves its traffic to a used socket.
LEMMA CloseRest ==
  ASSUME TypeOK, Rest, Listening, NEW verdict, Close(verdict)
  PROVE  Rest'
<1>1. /\ pc' = "idle" /\ queue' = <<>> /\ deadline' = 0 /\ ~early' /\ used' = used \cup {request.socket}
      /\ UNCHANGED <<asked, answers, mapped>>
  BY DEF Close, Finish, outside
<1>2. Queued' = {} /\ ~Listening'
  BY <1>1 DEF Queued, Listening
<1>3. \A r : Known(r) => r.socket \in used'
  BY <1>1 DEF Known
<1>4. AllKnown'
  BY <1>1, <1>2, <1>3 DEF Rest, AllKnown, Known
<1>5. AllBacked' /\ Addressed'
  BY <1>1, <1>2 DEF Rest, AllBacked, Backed, Addressed
<1>6. OnTime'
  BY <1>1 DEF OnTime
<1> QED BY <1>2, <1>4, <1>5, <1>6 DEF Rest

\* What a step that only moves the attempt along keeps.
LEMMA MoveRest ==
  ASSUME Rest, UNCHANGED <<asked, answers, mapped, used>>, Queued' \subseteq Queued,
         Listening' => Listening /\ request' = request, Listening => Listening'
  PROVE  AllKnown' /\ AllBacked' /\ Addressed'
BY DEF Rest, AllKnown, AllBacked, Addressed, Known, Backed

\* An arrival.
LEMMA ArrivalQueued ==
  ASSUME TypeOK, NEW a \in Answers, Arrives(a)
  PROVE  Queued' = Queued \cup {a}
<1>1. queue \in Seq(Answers) /\ queue' = Append(queue, a)
  BY DEF TypeOK, Arrives
<1>2. Len(queue') = Len(queue) + 1 /\ queue'[Len(queue) + 1] = a
      /\ \A i \in 1..Len(queue) : queue'[i] = queue[i]
  BY <1>1
<1>3. Len(queue) \in Nat
  BY <1>1
<1>4. ASSUME NEW x \in Queued' PROVE x \in Queued \cup {a}
  <2>1. PICK i \in 1..Len(queue') : x = queue'[i]
    BY <1>4 DEF Queued
  <2>2. i \in 1..Len(queue) \/ i = Len(queue) + 1
    BY <1>2, <1>3, <2>1
  <2> QED BY <1>2, <2>1, <2>2 DEF Queued
<1>5. ASSUME NEW x \in Queued \cup {a} PROVE x \in Queued'
  <2>1. CASE x = a
    <3>1. Len(queue) + 1 \in 1..Len(queue')
      BY <1>2, <1>3
    <3> QED BY <2>1, <3>1, <1>2 DEF Queued
  <2>2. CASE x \in Queued
    <3>1. PICK i \in 1..Len(queue) : x = queue[i]
      BY <2>2 DEF Queued
    <3>2. i \in 1..Len(queue') /\ queue'[i] = x
      BY <1>2, <1>3, <3>1
    <3> QED BY <3>2 DEF Queued
  <2> QED BY <2>1, <2>2
<1> QED BY <1>4, <1>5

\* Taking the first datagram from the queue.
LEMMA HeadQueued ==
  ASSUME TypeOK, queue # <<>>
  PROVE  /\ Head(queue) \in Queued /\ Head(queue) \in Answers
         /\ queue' = Tail(queue) => Queued' \subseteq Queued /\ Queued \ {Head(queue)} \subseteq Queued'
<1>1. queue \in Seq(Answers) /\ Len(queue) \in Nat /\ Len(queue) > 0 /\ Head(queue) = queue[1]
  BY DEF TypeOK
<1>2. Head(queue) \in Queued
  <2>1. 1 \in 1..Len(queue) BY <1>1
  <2> QED BY <2>1, <1>1 DEF Queued
<1>3. ASSUME queue' = Tail(queue)
      PROVE  Queued' \subseteq Queued /\ Queued \ {Head(queue)} \subseteq Queued'
  <2>1. Len(queue') = Len(queue) - 1 /\ \A i \in 1..Len(queue') : queue'[i] = queue[i + 1]
    BY <1>1, <1>3
  <2>2. ASSUME NEW x \in Queued' PROVE x \in Queued
    <3>1. PICK i \in 1..Len(queue') : x = queue'[i]
      BY <2>2 DEF Queued
    <3>2. i + 1 \in 1..Len(queue) /\ x = queue[i + 1]
      BY <3>1, <2>1, <1>1
    <3> QED BY <3>2 DEF Queued
  <2>3. ASSUME NEW x \in Queued \ {Head(queue)} PROVE x \in Queued'
    <3>1. PICK i \in 1..Len(queue) : x = queue[i]
      BY <2>3 DEF Queued
    <3>2. i # 1 BY <3>1, <1>1, <2>3
    <3>3. i - 1 \in 1..Len(queue') /\ queue'[i - 1] = x
      <4>1. i - 1 \in 1..Len(queue') /\ (i - 1) + 1 = i
        BY <3>1, <3>2, <2>1, <1>1
      <4> QED BY <4>1, <2>1, <3>1
    <3> QED BY <3>3 DEF Queued
  <2> QED BY <2>2, <2>3
<1> QED BY <1>1, <1>2, <1>3

\* An arrival at the end of the queue keeps what was heard, and one that
\* can be reached is heard.
LEMMA ArrivalHeard ==
  ASSUME TypeOK, OnTime, Heard, NEW a \in Answers, Arrives(a), early' => early \/ Reachable(a),
         UNCHANGED <<now, pc, request, deadline>>
  PROVE  Heard'
<1>0. now \in Nat /\ deadline \in Nat /\ ready \in Nat /\ Slop \in Nat
  BY GatewayAssumption DEF TypeOK
<1>1. queue \in Seq(Answers) /\ queue' = Append(queue, a) /\ Len(queue) \in Nat
  BY DEF TypeOK, Arrives
<1>2. /\ Len(queue') = Len(queue) + 1 /\ queue'[Len(queue) + 1] = a
      /\ \A i \in 1..Len(queue) : queue'[i] = queue[i] /\ i \in 1..Len(queue')
  BY <1>1
<1>3. ready' = IF pc = "wait" /\ queue = <<>> THEN now ELSE ready
  BY DEF Arrives
<1>4. CASE early
  <2>1. PICK i \in 1..Len(queue) : Reached(i)
    BY <1>4 DEF Heard
  <2>2. queue # <<>> BY <1>1, <2>1
  <2>3. queue'[i] = queue[i] /\ i \in 1..Len(queue') BY <1>2
  <2>4. ready' = ready BY <1>3, <2>2
  <2>5. Reached(i)' BY <2>1, <2>3, <2>4 DEF Reached, Proper, TestedBy
  <2> QED BY <2>3, <2>5 DEF Heard
<1>5. CASE Reachable(a)
  <2>0. PICK i \in Nat : i = Len(queue) + 1 BY <1>1
  <2>1. i \in 1..Len(queue') /\ i - 1 = Len(queue) BY <1>1, <1>2, <2>0
  <2>2. PICK ahead \in Nat : ahead = Len(queue) * Slop BY <1>0, <1>1
  <2>3. Proper(a) /\ now + ahead < deadline BY <1>5, <2>2 DEF Reachable
  <2>4. (IF pc = "wait" THEN ready' ELSE now) <= now
    BY <1>0, <1>3 DEF OnTime
  <2>5. (IF pc = "wait" THEN ready' ELSE now) \in Nat
    BY <1>0, <1>3
  <2>6. (IF pc = "wait" THEN ready' ELSE now) + ahead < deadline
    BY <1>0, <2>2, <2>3, <2>4, <2>5
  <2>7. Reached(i)'
    BY <1>2, <2>0, <2>1, <2>2, <2>3, <2>6 DEF Reached, Proper, TestedBy
  <2> QED BY <2>1, <2>7 DEF Heard
<1>6. CASE ~early' BY <1>6 DEF Heard
<1> QED BY <1>4, <1>5, <1>6

\* Passing over a datagram costs one late wake-up and brings the answer one
\* place forward.
LEMMA IgnoreHeard ==
  ASSUME TypeOK, OnTime, Heard, Ignore, request.proto = "NATPMP"
  PROVE  Heard'
<1>0. now \in Nat /\ deadline \in Nat /\ ready \in Nat /\ Slop \in Nat
  BY GatewayAssumption DEF TypeOK
<1>1. /\ pc = "wait" /\ pc' = "test" /\ queue # <<>> /\ queue' = Tail(queue)
      /\ ~Matches(Head(queue), request)
      /\ UNCHANGED <<now, request, deadline, early>>
  BY DEF Ignore
<1>2. request \in Requests BY <1>1 DEF TypeOK, Listening
<1>3. /\ queue \in Seq(Answers) /\ Len(queue) \in Nat /\ Head(queue) = queue[1]
      /\ queue[1] \in Answers
      /\ Len(queue') = Len(queue) - 1 /\ \A i \in 1..Len(queue') : queue'[i] = queue[i + 1]
  <2>1. queue \in Seq(Answers) BY DEF TypeOK
  <2> QED BY <1>1, <2>1
<1> SUFFICES ASSUME early PROVE Heard'
  BY <1>1 DEF Heard
<1>4. PICK i \in 1..Len(queue) : Reached(i)
  BY DEF Heard
<1>5. i # 1
  BY <1>1, <1>2, <1>3, <1>4, ProperMatches DEF Reached, Proper
<1>6. i - 1 \in 1..Len(queue') /\ (i - 1) + 1 = i /\ i - 2 \in Nat /\ (i - 1) - 1 = i - 2
  BY <1>3, <1>4, <1>5
<1>7. queue'[i - 1] = queue[i] BY <1>3, <1>6
<1>8. PICK ahead \in Nat : ahead = (i - 2) * Slop BY <1>0, <1>6
<1>9. (i - 1) * Slop = ahead + Slop BY <1>0, <1>6, <1>8
<1>10. ready + (ahead + Slop) < deadline BY <1>1, <1>4, <1>9 DEF Reached, TestedBy
<1>11. now <= ready + Slop BY <1>1 DEF OnTime
<1>12. now + ahead < deadline BY <1>0, <1>8, <1>10, <1>11
<1>13. Reached(i - 1)'
  BY <1>1, <1>4, <1>6, <1>7, <1>8, <1>12 DEF Reached, Proper, TestedBy
<1> QED BY <1>6, <1>13 DEF Heard

LEMMA RestNext == TypeOK /\ Rest /\ [Next]_vars => Rest'
<1> SUFFICES ASSUME TypeOK, Rest, [Next]_vars PROVE Rest'
  OBVIOUS
<1>0. /\ now \in Nat /\ deadline \in Nat /\ wake \in Nat /\ ready \in Nat
      /\ Timeout \in Nat \ {0} /\ Slop \in Nat
  BY GatewayAssumption DEF TypeOK
<1>1. CASE Begin
  <2>1. /\ pc = "idle" /\ pc' \in {"idle", "open"} /\ Queued' = Queued
        /\ UNCHANGED <<now, deadline, early, asked, answers, mapped, used>>
    BY <1>1 DEF Begin, outside, Queued
  <2>2. ~Listening /\ ~Listening' BY <2>1 DEF Listening
  <2>3. AllKnown' /\ AllBacked' /\ Addressed'
    BY <2>1, <2>2, MoveRest
  <2> QED BY <2>1, <2>2, <2>3 DEF Rest, OnTime
<1>2. CASE Open
  <2>1. /\ pc = "open" /\ queue = <<>> /\ queue' = <<>> /\ deadline' = 0 /\ ~early'
        /\ pc' \in {"idle", "send"}
        /\ UNCHANGED <<now, asked, answers, mapped, used>>
    BY <1>2 DEF Open, Finish, outside, TypeOK, Rest, OnTime
  <2>2. Queued = {} /\ Queued' = {} /\ ~Listening
    BY <2>1 DEF Queued, Listening
  <2>3. \A r : Known(r) => r.socket \in used
    BY <2>2 DEF Known
  <2>4. AllKnown' /\ AllBacked' /\ Addressed' /\ OnTime'
    BY <2>1, <2>2, <2>3 DEF Rest, AllKnown, AllBacked, Addressed, Known, Backed, OnTime
  <2> QED BY <2>1, <2>4 DEF Rest, Heard
<1>3. CASE SendFails \/ ReceiveFails \/ GiveUp \/ Accept
  BY <1>3, CloseRest DEF SendFails, ReceiveFails, GiveUp, Accept, Listening
<1>4. CASE Send
  <2>1. /\ pc = "send" /\ pc' = "test" /\ deadline' = now + Timeout /\ ~early
        /\ Queued' = Queued /\ asked' = asked \cup {request}
        /\ UNCHANGED <<now, request, early, answers, mapped, used>>
    BY <1>4 DEF Send, Queued, Rest, OnTime
  <2>2. Listening /\ Listening' BY <2>1 DEF Listening
  <2>3. AllKnown' /\ AllBacked' /\ Addressed'
    BY <2>1, <2>2 DEF Rest, AllKnown, AllBacked, Addressed, Known, Backed
  <2>4. OnTime' BY <2>1, <1>0 DEF OnTime
  <2> QED BY <2>1, <2>3, <2>4 DEF Rest, Heard
<1>5. CASE StartWait
  <2>1. /\ pc = "test" /\ pc' = "wait" /\ wake' = now + Wait /\ ready' = now /\ ~TimedOut
        /\ Queued' = Queued
        /\ UNCHANGED <<now, deadline, request, queue, early, asked, answers, mapped, used>>
    BY <1>5 DEF StartWait, Queued, outside
  <2>2. Listening /\ Listening' BY <2>1 DEF Listening
  <2>3. AllKnown' /\ AllBacked' /\ Addressed' BY <2>1, <2>2, MoveRest
  <2>4. OnTime' BY <2>1, <1>0 DEF Rest, OnTime, Wait, TimedOut
  <2>5. Heard => Heard' BY <2>1 DEF Heard, Reached, Proper, TestedBy
  <2> QED BY <2>1, <2>2, <2>3, <2>4, <2>5 DEF Rest
<1>6. CASE WaitEnds
  <2>1. /\ pc = "wait" /\ pc' = "test" /\ Queued' = Queued /\ queue = <<>>
        /\ UNCHANGED <<now, deadline, request, queue, early, asked, answers, mapped, used>>
    BY <1>6 DEF WaitEnds, Queued, attempt, outside
  <2>2. Listening /\ Listening' BY <2>1 DEF Listening
  <2>3. AllKnown' /\ AllBacked' /\ Addressed' BY <2>1, <2>2, MoveRest
  <2>4. OnTime' BY <2>1 DEF Rest, OnTime
  <2>5. Heard => ~early
    <3>1. Len(queue) = 0 BY <2>1
    <3> QED BY <3>1 DEF Heard
  <2> QED BY <2>1, <2>2, <2>3, <2>4, <2>5 DEF Rest, Heard
<1>7. CASE Ignore
  <2>1. /\ pc = "wait" /\ pc' = "test" /\ queue # <<>> /\ queue' = Tail(queue)
        /\ ~Matches(Head(queue), request)
        /\ UNCHANGED <<now, deadline, request, early, asked, answers, mapped, used>>
    BY <1>7 DEF Ignore, outside
  <2>2. Listening /\ Listening' /\ request \in Requests
    BY <2>1 DEF Listening, TypeOK
  <2>3. Head(queue) \in Answers /\ Queued' \subseteq Queued /\ Queued \ {Head(queue)} \subseteq Queued'
    BY <2>1, HeadQueued
  <2>4. AllKnown' /\ AllBacked' /\ Addressed' BY <2>1, <2>2, <2>3, MoveRest
  <2>5. OnTime' BY <2>1 DEF Rest, OnTime
  <2>6. ASSUME request.proto = "NATPMP" PROVE Heard'
    BY <1>7, <2>2, <2>6, IgnoreHeard DEF Rest
  <2> QED BY <2>1, <2>2, <2>4, <2>5, <2>6 DEF Rest
<1>8. CASE Serve
  <2>1. PICK r \in asked, keep \in BOOLEAN, result \in {0, 1}, version \in {0, 2} :
          /\ asked' = IF keep THEN asked ELSE asked \ {r}
          /\ mapped' = IF version = Version(r.proto) /\ result = 0 THEN mapped \cup {r} ELSE mapped
          /\ answers' = answers \cup
               {[to |-> r, from |-> "gateway", version |-> version, result |-> result]}
    BY <1>8 DEF Serve
  <2>2. /\ UNCHANGED <<now, pc, request, deadline, wake, ready, queue, early, used>>
        /\ Queued' = Queued
    BY <1>8 DEF Serve, attempt, Queued
  <2>3. asked' \subseteq asked /\ mapped' \subseteq mapped \cup {r} /\ mapped \subseteq mapped'
    BY <2>1
  <2>4. AllKnown'
    BY <2>1, <2>2, <2>3 DEF Rest, AllKnown, Known, Listening
  <2>5. AllBacked'
    <3> DEFINE a == [to |-> r, from |-> "gateway", version |-> version, result |-> result]
    <3>1. Backed(a)' BY <2>1 DEF Backed
    <3>2. \A x \in answers \cup Queued : Backed(x)'
      BY <2>3 DEF Rest, AllBacked, Backed
    <3> HIDE DEF a
    <3>3. answers' = answers \cup {a} BY <2>1 DEF a
    <3> QED BY <2>2, <3>1, <3>2, <3>3 DEF AllBacked, Backed
  <2> QED BY <2>2, <2>4, <2>5 
          DEF Rest, Addressed, OnTime, Heard, Reached, TestedBy, Listening, Proper
<1>9. CASE Lose
  <2>1. /\ UNCHANGED <<now, pc, request, deadline, wake, ready, queue, early, used, mapped>>
        /\ asked' \subseteq asked /\ answers' \subseteq answers /\ Queued' = Queued
    BY <1>9 DEF Lose, attempt, Queued
  <2> QED BY <2>1 DEF Rest, AllKnown, AllBacked, Known, Backed, Addressed, OnTime, Heard,
                      Reached, TestedBy, Listening, Proper
<1>10. CASE Deliver
  <2>1. PICK a \in answers : /\ Arrives(a)
                             /\ early' = (early \/ Reachable(a))
                             /\ answers' \subseteq answers
    BY <1>10 DEF Deliver
  <2>2. UNCHANGED <<now, pc, request, deadline, wake, asked, mapped, used>>
    BY <1>10 DEF Deliver
  <2>3. a \in Answers /\ Queued' = Queued \cup {a}
    BY <2>1, ArrivalQueued DEF TypeOK
  <2>4. Listening /\ a.to.socket = request.socket BY <2>1 DEF Arrives
  <2>5. AllKnown' /\ AllBacked' /\ Addressed'
    BY <2>1, <2>2, <2>3, <2>4 DEF Rest, AllKnown, AllBacked, Known, Backed, Addressed, Listening
  <2>8. pc = "send" => ~Reachable(a) /\ ~early
    <3>1. Len(queue) \in Nat BY DEF TypeOK
    <3>2. Len(queue) * Slop \in Nat BY <3>1, <1>0
    <3> QED BY <3>2, <1>0 DEF Rest, OnTime, Reachable
  <2>9. pc \in {"idle", "open", "send"} => ~early'
    BY <2>1, <2>4, <2>8 DEF Listening
  <2>6. OnTime'
    <3>1. ready' = IF pc = "wait" /\ queue = <<>> THEN now ELSE ready BY <2>1 DEF Arrives
    <3> QED BY <2>2, <2>9, <3>1, <1>0 DEF Rest, OnTime
  <2>7. request.proto = "NATPMP" => Heard'
    BY <2>1, <2>2, <2>3, <2>4, ArrivalHeard DEF Rest
  <2> QED BY <2>2, <2>5, <2>6, <2>7 DEF Rest
<1>11. CASE Noise
  <2> DEFINE a == [to |-> request, from |-> "other", version |-> Version(request.proto), result |-> 0]
  <2>1. Arrives(a) /\ Listening BY <1>11 DEF Noise
  <2>2. UNCHANGED <<now, pc, request, deadline, wake, early, asked, answers, mapped, used>>
    BY <1>11 DEF Noise
  <2>3. a \in Answers BY <2>1 DEF TypeOK, Answers, Version
  <2>4. a.to = request /\ a.from = "other" OBVIOUS
  <2> HIDE DEF a
  <2>5. Queued' = Queued \cup {a} BY <2>1, <2>3, ArrivalQueued
  <2>6. AllKnown' /\ AllBacked' /\ Addressed'
    BY <2>1, <2>2, <2>4, <2>5
    DEF Rest, AllKnown, AllBacked, Known, Backed, Addressed, Listening
  <2>7. OnTime'
    <3>1. ready' = IF pc = "wait" /\ queue = <<>> THEN now ELSE ready BY <2>1 DEF Arrives
    <3> QED BY <2>2, <3>1, <1>0 DEF Rest, OnTime
  <2>8. request.proto = "NATPMP" => Heard'
    BY <2>1, <2>2, <2>3, ArrivalHeard DEF Rest
  <2> QED BY <2>2, <2>6, <2>7, <2>8 DEF Rest
<1>12. CASE Tick
  <2>1. /\ UNCHANGED <<pc, request, deadline, wake, ready, queue, early, asked, answers, mapped,
                       used>>
        /\ now' = now + 1 /\ Queued' = Queued
        /\ pc = "idle" \/ (pc = "wait" /\ now < wake + Slop)
        /\ pc = "wait" /\ queue # <<>> => now < ready + Slop
    BY <1>12 DEF Tick, attempt, outside, Queued
  <2>3. Listening => (Heard => Heard')
    BY <2>1 DEF Listening, Heard, Reached, TestedBy, Proper
  <2>4. OnTime' BY <2>1, <1>0 DEF Rest, OnTime
  <2>5. AllKnown' /\ AllBacked' /\ Addressed'
    BY <2>1 DEF Rest, AllKnown, AllBacked, Known, Backed, Addressed, Listening
  <2> QED BY <2>1, <2>3, <2>4, <2>5 DEF Rest, Listening
<1>13. CASE Stop \/ UNCHANGED vars
  <2>1. UNCHANGED vars /\ Queued' = Queued
    BY <1>13 DEF Stop, vars, attempt, Queued
  <2> QED BY <2>1 DEF vars, attempt, outside, Rest, AllKnown, AllBacked, Known, Backed, Addressed,
                      OnTime, Heard, Reached, TestedBy, Listening, Proper
<1> QED BY <1>1, <1>2, <1>3, <1>4, <1>5, <1>6, <1>7, <1>8, <1>9, <1>10, <1>11, <1>12, <1>13
        DEF Next, Run, Work, World

\* Every reachable state satisfies the inductive invariant: whatever is on its
\* way or queued stands for what the gateway did, and answers in time are
\* heard (natpmp.c's and pcp.c's receive loops).
THEOREM Inductive == Spec => []IInv
<1>1. Init => IInv
  <2> SUFFICES ASSUME Init PROVE Rest
    BY TypeInit DEF IInv
  <2>1. Queued = {} /\ ~Listening
    BY DEF Init, Queued, Listening
  <2> QED BY <2>1 DEF Init, Rest, AllKnown, AllBacked, Addressed, OnTime
<1>2. IInv /\ [Next]_vars => IInv'
  BY TypeNext, RestNext DEF IInv
<1> QED BY <1>1, <1>2, PTL DEF Spec

\* Types; no socket number, datagram or request outlives its attempt.
THEOREM TypeCorrect == Spec => []TypeOK
BY Inductive, PTL DEF IInv

\* natpmp.c, pcp.c: whatever arrives, the exchange ends with its timeout, at
\* most one late wake-up after it.
THEOREM TimeoutIsKept == Spec => []EndsOnTime
<1>1. IInv => EndsOnTime
  BY DEF IInv, Rest, OnTime, EndsOnTime, Listening
<1> QED BY <1>1, Inductive, PTL

\* Which step ends an attempt which way.
LEMMA Endings ==
  ASSUME TypeOK, Next, NEW verdict \in {"timeout", "success"}, Ends(verdict)
  PROVE  \/ verdict = "timeout" /\ GiveUp
         \/ verdict = "success" /\ Accept /\ Granted(Head(queue), request.proto)
<1>1. end' = verdict /\ end' # end
  BY DEF Ends
<1>2. CASE Begin \/ Open \/ SendFails \/ Send \/ StartWait \/ WaitEnds \/ ReceiveFails \/ Ignore
  BY <1>1, <1>2 DEF Begin, Open, SendFails, Send, StartWait, WaitEnds, ReceiveFails, Ignore, Close,
     Finish, attempt
<1>3. CASE World \/ Tick \/ Stop
  BY <1>1, <1>3 DEF World, Serve, Lose, Deliver, Noise, Tick, Stop, vars
<1>4. CASE GiveUp
  BY <1>1, <1>4 DEF GiveUp, Close, Finish
<1>5. CASE Accept
  BY <1>1, <1>5 DEF Accept, Close, Finish
<1> QED BY <1>2, <1>3, <1>4, <1>5 DEF Next, Run, Work

\* What is accepted has its mapping behind it.
LEMMA GrantedIsMapped ==
  ASSUME IInv, Accept, Granted(Head(queue), request.proto)
  PROVE  \E r \in mapped : /\ r.proto = request.proto /\ r.socket = request.socket
                           /\ request.socket \notin used => r = request
<1> DEFINE a == Head(queue)
<1>1. queue # <<>> /\ Matches(a, request) /\ Listening /\ request \in Requests
  BY DEF Accept, IInv, TypeOK, Listening
<1>2. a \in Queued /\ a \in Answers
  BY <1>1, HeadQueued DEF IInv
<1>3. Granted(a, request.proto) OBVIOUS
<1> HIDE DEF a
<1>4. a.to.proto = request.proto /\ a.from = "gateway" /\ a.version = 0 /\ a.result = 0
      /\ a.to.proto = "NATPMP"
  BY <1>1, <1>2, <1>3, MatchesOnlyNatpmp
<1>5. a.to \in mapped
  BY <1>2, <1>4 DEF IInv, Rest, AllBacked, Backed, Version
<1>6. a.to.socket = request.socket /\ Known(a.to)
  BY <1>2 DEF IInv, Rest, Addressed, AllKnown
<1> QED BY <1>4, <1>5, <1>6 DEF Known

\* A success of either weapon stands for a mapping the gateway has made.
THEOREM SuccessMeansMapped == Spec => SuccessIsMapped
<1> DEFINE Good == Ends("success") =>
              \E r \in mapped : /\ r.proto = request.proto /\ r.socket = request.socket
                                /\ request.socket \notin used => r = request
<1>1. IInv /\ [Next]_vars => [Good]_vars
  <2> SUFFICES ASSUME IInv, Next, Ends("success")
               PROVE  \E r \in mapped : /\ r.proto = request.proto /\ r.socket = request.socket
                                        /\ request.socket \notin used => r = request
    BY DEF Ends
  <2>1. Accept /\ Granted(Head(queue), request.proto)
    BY Endings DEF IInv
  <2> QED BY <2>1, GrantedIsMapped
<1> QED BY <1>1, Inductive, PTL DEF Spec, SuccessIsMapped

\* A NAT-PMP answer that arrives in time, with a late wake-up to spare for
\* every datagram ahead of it, is not waited for in vain (natpmp.c:356-359).
THEOREM NatpmpAnswerDecides == Spec => NatpmpAnswerIsHeard
<1> DEFINE Good == ~Overlooks("NATPMP")
<1>1. IInv /\ [Next]_vars => [Good]_vars
  <2> SUFFICES ASSUME IInv, Next, Ends("timeout"), request.proto = "NATPMP", early PROVE FALSE
    BY DEF Overlooks
  <2>1. GiveUp
    BY Endings DEF IInv
  <2>2. PICK i \in 1..Len(queue) : TestedBy(i - 1) < deadline
    BY <2>1 DEF GiveUp, IInv, Rest, Heard, Reached, Listening
  <2>3. now \in Nat /\ deadline \in Nat /\ Slop \in Nat
    BY GatewayAssumption DEF IInv, TypeOK
  <2>4. i - 1 \in Nat
    BY <2>2
  <2>5. PICK ahead \in Nat : ahead = (i - 1) * Slop
    BY <2>3, <2>4
  <2>6. now + ahead < deadline
    BY <2>1, <2>2, <2>5 DEF GiveUp, TestedBy
  <2> QED BY <2>1, <2>3, <2>5, <2>6 DEF GiveUp, TimedOut
<1> QED BY <1>1, Inductive, PTL DEF Spec, NatpmpAnswerIsHeard

\* No PCP attempt ever succeeds, whatever the gateway does: the decoder takes
\* the nonce one byte early.
PcpNeverSucceeds == [][Ends("success") => request.proto # "PCP"]_vars

\* pcp.c:378 against the layout of pcp.c:64-67: no answer in that layout is
\* ever taken.
THEOREM PcpIsDeaf == Spec => PcpNeverSucceeds
<1> DEFINE Good == Ends("success") => request.proto # "PCP"
<1>1. IInv /\ [Next]_vars => [Good]_vars
  <2> SUFFICES ASSUME IInv, Next, Ends("success") PROVE request.proto # "PCP"
    BY DEF Ends
  <2>1. Accept
    BY Endings DEF IInv
  <2>2. queue # <<>> /\ Matches(Head(queue), request) /\ request \in Requests
    BY <2>1 DEF Accept, IInv, TypeOK, Listening
  <2>3. Head(queue) \in Answers
    BY <2>2, HeadQueued DEF IInv
  <2> QED BY <2>2, <2>3, MatchesOnlyNatpmp
<1> QED BY <1>1, Inductive, PTL DEF Spec, PcpNeverSucceeds
-----------------------------------------------------------------------------
(* Gateway implements WeaponPromise.                                       *)

\* What is left of the limit, and what a success can be shown by.
Left ==
  IF pc = "idle" THEN 0
  ELSE IF pc \in {"test", "wait"} THEN deadline + Slop - now ELSE Timeout + Slop
Evidence ==
  /\ Listening
  /\ \E r \in mapped : r.proto = request.proto /\ r.socket = request.socket

LEMMA LeftIsNat == ASSUME IInv PROVE Left \in Nat /\ Left # -1
<1>1. now \in Nat /\ deadline \in Nat /\ Slop \in Nat /\ Timeout \in Nat
  BY GatewayAssumption DEF IInv, TypeOK
<1>2. pc \in {"test", "wait"} => now <= deadline + Slop BY DEF IInv, Rest, OnTime
<1> QED BY <1>1, <1>2 DEF Left

\* An attempt that goes on spends nothing and loses no mapping.
LEMMA GoesOn ==
  ASSUME IInv, pc # "idle", pc' # "idle", now' = now, end' = end, Left' = Left,
         Evidence => Evidence'
  PROVE  Promise!Next
<1>1. Left \in 0..(Left - 0) /\ Left # -1 BY LeftIsNat
<1>2. Promise!Work
  <2>1. (IF pc = "idle" THEN 0
         ELSE IF pc \in {"test", "wait"} THEN deadline + Slop - now ELSE Timeout + Slop) = Left
    BY DEF Left
  <2>2. (IF pc' = "idle" THEN 0
         ELSE IF pc' \in {"test", "wait"} THEN deadline' + Slop - now' ELSE Timeout + Slop) = Left'
    BY DEF Left
  <2> QED BY <1>1, <2>1, <2>2
          DEF Promise!Work, Promise!Spends, Promise!Restarts, Promise!Forever, Evidence
<1> QED BY <1>2 DEF Promise!Next

LEMMA Returns ==
  ASSUME IInv, pc # "idle", NEW verdict, Finish(verdict), now' = now,
         verdict = "success" => Evidence
  PROVE  Promise!Next
<1>1. pc' = "idle" /\ end' = verdict /\ ~Listening' BY DEF Finish, Listening
<1>2. Promise!Return BY <1>1 DEF Promise!Return, Promise!Restarts, Evidence
<1> QED BY <1>2 DEF Promise!Next

LEMMA BeginPromise == ASSUME IInv, Begin PROVE Promise!Next
<1>1. /\ pc = "idle" /\ now' = now /\ ~Listening BY DEF Begin, Listening
<1>2. CASE end' = "refused" /\ pc' = pc
  <2>1. Promise!Refuse BY <1>1, <1>2 DEF Promise!Refuse, Promise!Restarts, Listening
  <2> QED BY <2>1 DEF Promise!Next
<1>3. CASE end' = "none" /\ pc' = "open"
  <2>1. Promise!Start BY <1>1, <1>3 DEF Promise!Start, Promise!Restarts, Listening
  <2> QED BY <2>1 DEF Promise!Next
<1> QED BY <1>2, <1>3 DEF Begin

LEMMA RunPromise == ASSUME IInv, Run PROVE Promise!Next
<1>1. ASSUME NEW verdict, pc # "idle", Close(verdict), verdict = "success" => Evidence
      PROVE  Promise!Next
  BY <1>1, Returns DEF Close
<1>2. CASE SendFails \/ ReceiveFails BY <1>1, <1>2 DEF SendFails, ReceiveFails
<1>3. CASE GiveUp BY <1>1, <1>3 DEF GiveUp
<1>4. CASE Accept
  <2>1. /\ pc # "idle" /\ Listening
        /\ Close(IF Granted(Head(queue), request.proto) THEN "success" ELSE "denied")
    BY <1>4 DEF Accept, Listening
  <2>2. CASE Granted(Head(queue), request.proto)
    <3>1. Evidence BY <1>4, <2>1, <2>2, GrantedIsMapped DEF Evidence
    <3> QED BY <1>1, <2>1, <2>2, <3>1
  <2>3. CASE ~Granted(Head(queue), request.proto) BY <1>1, <2>1, <2>3
  <2> QED BY <2>2, <2>3
<1>5. CASE Open
  <2>1. CASE Finish("error")
    <3>1. pc # "idle" /\ now' = now BY <1>5 DEF Open
    <3> QED BY <2>1, <3>1, Returns
  <2>2. CASE ~Finish("error")
    <3>1. pc = "open" /\ pc' = "send" /\ now' = now /\ end' = end BY <1>5, <2>2 DEF Open
    <3> QED BY <3>1, GoesOn DEF Left, Evidence, Listening
  <2> QED BY <2>1, <2>2
<1>6. CASE Send
  <2>1. pc = "send" /\ pc' = "test" /\ UNCHANGED <<now, end, mapped, request>>
        /\ deadline' = now + Timeout
    BY <1>6 DEF Send
  <2>2. now \in Nat /\ Timeout \in Nat /\ Slop \in Nat BY GatewayAssumption DEF IInv, TypeOK
  <2>3. Left' = Left BY <2>1, <2>2 DEF Left
  <2>4. Evidence' <=> Evidence BY <2>1 DEF Evidence, Listening
  <2> QED BY <2>1, <2>3, <2>4, GoesOn
<1>7. CASE StartWait \/ WaitEnds \/ Ignore
  <2>1. /\ pc \in {"test", "wait"} /\ pc' \in {"test", "wait"}
        /\ UNCHANGED <<now, end, deadline, request, mapped>>
    BY <1>7 DEF StartWait, WaitEnds, Ignore, attempt, outside
  <2>2. Left' = Left BY <2>1 DEF Left
  <2>3. Evidence' <=> Evidence BY <2>1 DEF Evidence, Listening
  <2> QED BY <2>1, <2>2, <2>3, GoesOn
<1> QED BY <1>2, <1>3, <1>4, <1>5, <1>6, <1>7 DEF Run, Work

\* The gateway's mappings are only ever added to.
LEMMA WorldPromise == ASSUME IInv, World PROVE [Promise!Next]_(Promise!promiseVars)
<1>1. /\ UNCHANGED <<now, pc, end, deadline, request>> /\ mapped \subseteq mapped'
  BY DEF World, Serve, Lose, Deliver, Noise, attempt
<1>2. CASE pc = "idle" BY <1>1, <1>2 DEF Promise!promiseVars, Listening
<1>3. CASE pc # "idle"
  <2>1. Left' = Left /\ (Evidence => Evidence') BY <1>1 DEF Left, Evidence, Listening
  <2> QED BY <1>1, <1>3, <2>1, GoesOn
<1> QED BY <1>2, <1>3

LEMMA TickPromise == ASSUME IInv, IInv', Tick PROVE Promise!Next
<1>1. /\ pc \in {"idle", "wait"} /\ now' = now + 1
      /\ UNCHANGED <<pc, end, deadline, request, mapped>>
  BY DEF Tick, attempt, outside
<1>2. now \in Nat /\ deadline \in Nat /\ Slop \in Nat BY GatewayAssumption DEF IInv, TypeOK
<1> DEFINE left == deadline + Slop - now
<1>3. PICK after : after = deadline + Slop - (now + 1) OBVIOUS
<1>4. pc = "wait" => after \in 0..(left - 1) /\ left # -1
  BY <1>1, <1>2, <1>3 DEF IInv, Rest, OnTime
<1> HIDE DEF left
<1>5. (IF pc = "idle" THEN 0
       ELSE IF pc \in {"test", "wait"} THEN deadline + Slop - now ELSE Timeout + Slop)
        = IF pc = "idle" THEN 0 ELSE left
  BY <1>1 DEF left
<1>6. (IF pc' = "idle" THEN 0
       ELSE IF pc' \in {"test", "wait"} THEN deadline' + Slop - now' ELSE Timeout + Slop)
        = IF pc = "idle" THEN 0 ELSE after
  BY <1>1, <1>3
<1>7. Evidence' = Evidence BY <1>1 DEF Evidence, Listening
<1>8. Promise!Pass
  BY <1>1, <1>4, <1>5, <1>6, <1>7 DEF Promise!Pass, Promise!Spends, Promise!Forever, Evidence
<1> QED BY <1>8 DEF Promise!Next

\* natpmp.c, pcp.c: every attempt is a call of the abstract weapon, within
\* the weapon's own limit and with a mapping behind its success.
THEOREM Refinement == Spec => KeepsPromise
<1>1. Init => Promise!Init BY DEF Init, Promise!Init, Listening
<1>2. IInv /\ IInv' /\ [Next]_vars => [Promise!Next]_(Promise!promiseVars)
  <2> SUFFICES ASSUME IInv, IInv', [Next]_vars PROVE [Promise!Next]_(Promise!promiseVars)
    OBVIOUS
  <2>1. CASE Begin BY <2>1, BeginPromise
  <2>2. CASE Run BY <2>2, RunPromise
  <2>3. CASE World BY <2>3, WorldPromise
  <2>4. CASE Tick BY <2>4, TickPromise
  <2>5. CASE Stop \/ UNCHANGED vars
    BY <2>5 DEF Stop, vars, attempt, outside, Promise!promiseVars, Listening
  <2> QED BY <2>1, <2>2, <2>3, <2>4, <2>5 DEF Next
<1> QED BY <1>1, <1>2, Inductive, PTL DEF Spec, KeepsPromise, Promise!Spec
=============================================================================

--------------------------- MODULE ProbingProofs ---------------------------
(***************************************************************************)
(* Proofs about Probing, for any number of peers and samples, any budget   *)
(* and any network: the samples line up with the requests they answer, the *)
(* peer sampled has answered, and a silent peer costs its slice.           *)
(***************************************************************************)
EXTENDS Probing, TLAPS

\* A nonce has been sent once its turn is past, or its exchange under way.
Sent(n) == n < turn \/ (n = turn /\ pc \in {"test", "wait"})

Posted == {r \in Requests : /\ Sent(r.nonce) /\ origin[r.nonce] \in Ports
                            /\ r.nonce \in Peers => r.to = r.nonce}
Genuine == {a \in Packets : /\ Sent(a.nonce) /\ a.port = origin[a.nonce]
                            /\ a.nonce \in Peers => a.nonce \in served}

\* What is under way stands for a request that was sent.
UnderWay ==
  /\ asked \subseteq Posted
  /\ answers \subseteq Genuine
  /\ \A i \in 1..Len(queue) : queue[i] \in Genuine

\* The samples, and how many there are at each turn.
Sampled ==
  /\ SamplesAnswerTheirRequests
  /\ pc # "done" => Len(out.samples) = IF Phase1 THEN 0 ELSE turn - 1 - PeerCount

\* The time the first k slices may take.
Elapsed(k) == k * (slice + Slop)

Timed ==
  /\ now <= Elapsed(IF pc \in {"send", "done"} THEN turn - 1 ELSE turn)
  /\ pc \in {"test", "wait"} => deadline <= Elapsed(turn - 1) + slice
  /\ pc = "wait" => wake <= deadline

Verdict ==
  /\ pc # "done" => out.status = "SKIPPED"
  /\ out.status = "FAILED" => turn \in {1, PeerCount + 1}

IInv == TypeOK /\ UnderWay /\ Sampled /\ TargetHasAnswered /\ Timed /\ Verdict

-----------------------------------------------------------------------------
(* Packets: an answer is accepted for its own nonce only.                  *)

LEMMA AcceptsItsNonce ==
  ASSUME NEW a \in Packets, NEW n \in 1..Exchanges, Accepts(a, n)
  PROVE  a.nonce = n
<1>1. a.nonce \in Int /\ n \in Int
  BY ProbingAssumption DEF Packets, Exchanges
<1>2. Len(AnswerBytes(a)) >= 37 /\ AnswerBytes(a)[7] = NonceByte(n, 1)
  BY DEF Accepts
<1>3. a.layout # "documented"
  <2>1. SUFFICES ASSUME a.layout = "documented" PROVE FALSE
    OBVIOUS
  <2>2. Len(AnswerBytes(a)) = 36
    BY <2>1 DEF AnswerBytes
  <2> QED BY <1>2, <2>2
<1>4. AnswerBytes(a)[7] = NonceByte(a.nonce, 1)
  BY <1>3 DEF AnswerBytes
<1> QED BY <1>1, <1>2, <1>4 DEF NonceByte

-----------------------------------------------------------------------------
(* The clock of slices.                                                    *)

LEMMA ElapsedStep ==
  ASSUME slice \in Nat, NEW k \in Nat
  PROVE  /\ Elapsed(k) \in Nat /\ Elapsed(k + 1) = Elapsed(k) + slice + Slop
         /\ Elapsed(k) <= Elapsed(k + 1)
<1> DEFINE s == slice + Slop
<1>1. s \in Nat /\ slice \in Nat /\ Slop \in Nat
  BY ProbingAssumption
<1> HIDE DEF s
<1>2. k * s \in Nat /\ (k + 1) * s = k * s + s
  BY <1>1
<1> QED BY <1>1, <1>2 DEF Elapsed, s

LEMMA SliceType == ASSUME NEW budget \in Budgets PROVE Slice(budget) \in Nat \ {0}
BY ProbingAssumption DEF Slice

-----------------------------------------------------------------------------
(* The beginning.                                                          *)

LEMMA InitInv == Init => IInv
<1> SUFFICES ASSUME Init PROVE IInv
  OBVIOUS
<1>0. <<>> \in Seq(Samples) /\ <<>> \in Seq(Packets) /\ FALSE \in BOOLEAN
  OBVIOUS
<1>1. TypeOK
  <2>1. slice \in Nat \ {0}
    BY SliceType DEF Init
  <2>2. out \in Results
    <3>1. Empty \in Results
      BY <1>0 DEF Empty, Results
    <3>2. [Empty EXCEPT !.status = "FAILED"] \in Results
      BY <3>1 DEF Results
    <3> QED BY <3>1, <3>2 DEF Init
  <2>3. speaks \in [Peers -> {"documented", "as_coded"}]
    BY ProbingAssumption DEF Init
  <2>4. 1 \in 1..Exchanges /\ 1 \in Peers
    BY ProbingAssumption DEF Exchanges, Peers
  <2>5. turn = 1 /\ 1 \in 1..Exchanges + 1 /\ 1 <= Exchanges
    BY <2>4, ProbingAssumption DEF Init, Exchanges
  <2>6. origin \in [1..Exchanges -> Ports \cup {0}]
    BY DEF Init
  <2>7. queue \in Seq(Packets) /\ asked \subseteq Requests /\ answers \subseteq Packets
        /\ served \subseteq Peers
    BY <1>0 DEF Init
  <2>8. now \in Nat /\ deadline \in Nat /\ wake \in Nat /\ copies \in Nat
        /\ pc \in {"send", "test", "wait", "done"} /\ first = 0
    BY DEF Init
  <2> QED BY <2>1, <2>2, <2>3, <2>4, <2>5, <2>6, <2>7, <2>8 DEF TypeOK, Phase1
<1>2. UnderWay
  BY DEF Init, UnderWay
<1>3. out.samples = <<>> /\ out.reachable = FALSE /\ first = 0 /\ turn = 1
  BY DEF Init, Empty
<1>4. Sampled
  <2>1. 1 \in Peers
    BY ProbingAssumption DEF Peers
  <2> QED BY <1>3, <2>1 DEF Sampled, SamplesAnswerTheirRequests, Phase1
<1>5. TargetHasAnswered
  BY <1>3 DEF TargetHasAnswered
<1>6. Timed
  BY <1>1, <1>3, ElapsedStep DEF Init, Timed, TypeOK
<1>7. Verdict
  BY <1>3 DEF Init, Verdict, Empty
<1> QED BY <1>1, <1>2, <1>4, <1>5, <1>6, <1>7 DEF IInv

-----------------------------------------------------------------------------
(* The end of an exchange.                                                 *)

\* What an exchange leaves behind: nothing, or an answer of its own request.
Outcome(ok, o, f, rest) ==
  /\ o \in Results /\ f \in Peers \cup {0} /\ rest \in Seq(Packets)
  /\ \A i \in 1..Len(rest) : rest[i] \in Genuine
  /\ o.status = "SKIPPED" /\ (o.reachable <=> f # 0) /\ (f # 0 => f \in served)
  /\ ~Phase1 => f # 0
  /\ \A i \in 1..Len(o.samples) : o.samples[i].turn = PeerCount + i
                                /\ o.samples[i].port = origin[PeerCount + i]
  /\ Phase1 => Len(o.samples) = 0
  /\ ~Phase1 /\ ok => Len(o.samples) = turn - PeerCount

LEMMA ProceedKeeps ==
  ASSUME IInv, pc # "done", NEW ok \in BOOLEAN, NEW o, NEW f, NEW rest,
         Outcome(ok, o, f, rest), Proceed(ok, o, f, rest),
         UNCHANGED <<speaks, slice, now, network>>
  PROVE  IInv'
<1> USE DEF network
<1>1. turn \in 1..Exchanges /\ turn' = turn + 1 /\ PeerCount \in Nat /\ PeerCount >= 1
      /\ PortSamples \in Nat /\ PortSamples >= 1 /\ Exchanges = PeerCount + PortSamples
  BY ProbingAssumption DEF IInv, TypeOK, Proceed, Exchanges
<1>2. pc' = "send" \/ pc' = "done"
  BY DEF Proceed
<1>3. out' \in Results /\ out'.samples = o.samples /\ out'.reachable = o.reachable
      /\ out'.status = IF pc' = "done" THEN FinalStatus(o, f) ELSE "SKIPPED"
  <2>1. o \in Results /\ o.status = "SKIPPED" /\ FinalStatus(o, f) \in {"FAILED", "PARTIAL", "OK"}
    BY DEF Outcome, FinalStatus
  <2>2. out' = IF pc' = "done" THEN [o EXCEPT !.status = FinalStatus(o, f)] ELSE o
    BY DEF Proceed
  <2> QED BY <2>1, <2>2 DEF Results
<1>4. queue' \in Seq(Packets) /\ (queue' = <<>> \/ queue' = rest)
  <2>1. <<>> \in Seq(Packets)
    OBVIOUS
  <2> QED BY <2>1 DEF Proceed, Outcome
<1>5. pc' = "send" => turn' <= Exchanges /\ (~Phase1' => f # 0)
  BY <1>1 DEF Proceed, IsOver, Outcome, Phase1, Peers
<1>6. TypeOK'
  <2>1. turn' \in 1..Exchanges + 1 /\ (pc' # "done" => turn' <= Exchanges)
    BY <1>1, <1>2, <1>5
  <2>2. first' = f /\ f \in Peers \cup {0} /\ (pc' # "done" /\ ~Phase1' => first' # 0)
    BY <1>2, <1>5 DEF Proceed, Outcome
  <2>3. deadline' = 0 /\ wake' = 0
    BY DEF Proceed
  <2> QED BY <1>2, <1>3, <1>4, <2>1, <2>2, <2>3 DEF IInv, TypeOK
<1>7. UnderWay'
  <2>1. \A n \in 1..Exchanges : Sent(n) => Sent(n)'
    BY <1>1 DEF Sent
  <2>2. asked \subseteq Posted'
    BY <2>1 DEF IInv, TypeOK, Requests, UnderWay, Posted
  <2>3. Genuine \subseteq Genuine'
    BY <2>1 DEF Packets, Genuine
  <2>4. answers \subseteq Genuine'
    BY <2>3 DEF IInv, TypeOK, UnderWay
  <2>5. \A i \in 1..Len(queue') : queue'[i] \in Genuine'
    BY <1>4, <2>3 DEF Outcome
  <2> QED BY <2>2, <2>4, <2>5 DEF UnderWay
<1>8. Sampled'
  <2>1. SamplesAnswerTheirRequests'
    BY <1>3 DEF SamplesAnswerTheirRequests, Outcome
  <2>2. ASSUME pc' # "done"
        PROVE  Len(o.samples) = IF Phase1' THEN 0 ELSE turn' - 1 - PeerCount
    <3>1. CASE Phase1
      BY <1>1, <3>1 DEF Phase1, Peers, Outcome
    <3>2. CASE ~Phase1
      <4>1. ok
        BY <2>2, <3>2 DEF Proceed, IsOver
      <4> QED BY <1>1, <3>2, <4>1 DEF Phase1, Peers, Outcome
    <3> QED BY <3>1, <3>2
  <2> QED BY <1>3, <2>1, <2>2 DEF Sampled
<1>9. TargetHasAnswered'
  BY <1>3 DEF TargetHasAnswered, Outcome, Proceed
<1>10. Timed'
  <2>1. now <= Elapsed(turn)
    <3>1. turn - 1 \in Nat /\ (turn - 1) + 1 = turn /\ slice \in Nat /\ now \in Nat
      BY <1>1 DEF IInv, TypeOK
    <3>2. Elapsed(turn - 1) \in Nat /\ Elapsed(turn - 1) <= Elapsed(turn)
      BY <3>1, ElapsedStep
    <3>3. Elapsed(turn) \in Nat
      BY <1>1, <3>1, ElapsedStep
    <3>4. now <= Elapsed(turn - 1) \/ now <= Elapsed(turn)
      BY DEF IInv, Timed
    <3> QED BY <3>1, <3>2, <3>3, <3>4
  <2>2. turn' - 1 = turn /\ slice' = slice /\ now' = now
    BY <1>1
  <2>3. now' <= (turn' - 1) * (slice' + Slop)
    BY <2>1, <2>2 DEF Elapsed
  <2> QED BY <1>2, <2>3 DEF Timed, Elapsed
<1>11. Verdict'
  <2>1. ASSUME out'.status = "FAILED" PROVE turn' = PeerCount + 1
    <3>1. pc' = "done" /\ f = 0
      BY <1>3, <2>1 DEF FinalStatus
    <3>2. Phase1
      BY <3>1 DEF Outcome
    <3> QED BY <1>1, <3>1, <3>2 DEF Proceed, IsOver
  <2> QED BY <1>1, <1>2, <1>3, <2>1 DEF Verdict
<1> QED BY <1>6, <1>7, <1>8, <1>9, <1>10, <1>11 DEF IInv

\* No answer: the result and the queue stay as they are.
LEMMA SilenceIsAnOutcome ==
  ASSUME IInv, pc # "done"
  PROVE  Outcome(FALSE, out, first, queue)
<1>1. ~Phase1 => first # 0
  BY DEF IInv, TypeOK
<1>2. Phase1 => Len(out.samples) = 0
  BY DEF IInv, Sampled
<1> QED
  BY <1>1, <1>2 DEF IInv, TypeOK, Outcome, UnderWay, Verdict, TargetHasAnswered, Sampled,
                    SamplesAnswerTheirRequests

LEMMA AnswerIsAnOutcome ==
  ASSUME IInv, pc = "wait", queue # <<>>, Accepts(Head(queue), turn)
  PROVE  Outcome(TRUE, Answered(Head(queue), out), IF first = 0 THEN turn ELSE first,
                 Tail(queue))
<1> DEFINE a == Head(queue)
           o == Answered(a, out)
           f == IF first = 0 THEN turn ELSE first
<1>1. /\ queue \in Seq(Packets) /\ a \in Packets /\ Tail(queue) \in Seq(Packets)
      /\ a = queue[1] /\ Len(queue) \in Nat /\ Len(queue) >= 1
      /\ Len(Tail(queue)) = Len(queue) - 1
      /\ \A i \in 1..Len(Tail(queue)) : Tail(queue)[i] = queue[i + 1]
  BY DEF IInv, TypeOK
<1>2. turn \in 1..Exchanges /\ PeerCount \in Nat \ {0} /\ PortSamples \in Nat \ {0}
      /\ Exchanges = PeerCount + PortSamples
  BY ProbingAssumption DEF IInv, TypeOK, Exchanges
<1>3. a.nonce = turn
  BY <1>1, <1>2, AcceptsItsNonce
<1>4. a \in Genuine /\ a.port \in Ports
  BY <1>1 DEF IInv, UnderWay, Packets
<1>5. \A i \in 1..Len(Tail(queue)) : Tail(queue)[i] \in Genuine
  BY <1>1 DEF IInv, UnderWay
<1>6. out \in Results /\ out.status = "SKIPPED"
  BY DEF IInv, TypeOK, Verdict
<1> HIDE DEF a
<1>7. CASE Phase1
  <2>1. o = [out EXCEPT !.reachable = TRUE, !.ipv6 = out.ipv6 \/ a.family = 6]
    BY <1>7 DEF Answered
  <2>2. (out.ipv6 \/ a.family = 6) \in BOOLEAN /\ TRUE \in BOOLEAN
    OBVIOUS
  <2>3. o \in Results /\ o.status = "SKIPPED" /\ o.reachable = TRUE /\ o.samples = out.samples
    BY <1>6, <2>1, <2>2 DEF Results
  <2>4. f \in Peers /\ f \in served /\ f # 0
    BY <1>2, <1>3, <1>4, <1>7 DEF IInv, TypeOK, TargetHasAnswered, Phase1, Genuine, Peers
  <2> HIDE DEF o, f
  <2>5. Len(o.samples) = 0
    BY <1>7, <2>3 DEF IInv, Sampled
  <2>6. Outcome(TRUE, o, f, Tail(queue))
    BY <1>1, <1>5, <1>7, <2>3, <2>4, <2>5 DEF Outcome
  <2> QED BY <2>6 DEF o, f, a
<1>8. CASE ~Phase1
  <2> DEFINE sample == [turn |-> turn, port |-> a.port]
  <2>1. o = [out EXCEPT !.samples = Append(out.samples, sample)]
    BY <1>8 DEF Answered
  <2>2. sample \in Samples
    BY <1>2, <1>4 DEF Samples
  <2>3. out.samples \in Seq(Samples) /\ Len(out.samples) = turn - 1 - PeerCount
    BY <1>6, <1>8 DEF IInv, Sampled, Results
  <2>4. /\ Append(out.samples, sample) \in Seq(Samples)
        /\ Len(Append(out.samples, sample)) = turn - PeerCount
        /\ Append(out.samples, sample)[turn - PeerCount] = sample
        /\ \A i \in 1..(turn - 1 - PeerCount) : Append(out.samples, sample)[i] = out.samples[i]
    <3> HIDE DEF sample
    <3>1. turn \in Int /\ PeerCount \in Int
      BY <1>2
    <3> QED BY <2>2, <2>3, <3>1
  <2>5. o \in Results /\ o.status = "SKIPPED" /\ o.reachable = out.reachable
        /\ o.samples = Append(out.samples, sample)
    <3> HIDE DEF sample
    <3> QED BY <1>6, <2>1, <2>4 DEF Results
  <2>6. first # 0 /\ f = first /\ f \in Peers /\ f \in served /\ out.reachable
    BY <1>8 DEF IInv, TypeOK, TargetHasAnswered
  <2>7. sample.turn = turn /\ sample.port = origin[turn]
    BY <1>3, <1>4 DEF Genuine
  <2> HIDE DEF o, f, sample
  <2>8. \A i \in 1..Len(o.samples) : o.samples[i].turn = PeerCount + i
                                   /\ o.samples[i].port = origin[PeerCount + i]
    <3>1. SUFFICES ASSUME NEW i \in 1..(turn - PeerCount)
                   PROVE  o.samples[i].turn = PeerCount + i
                          /\ o.samples[i].port = origin[PeerCount + i]
      BY <2>4, <2>5
    <3>2. CASE i = turn - PeerCount
      <4>1. PeerCount + i = turn
        BY <1>2, <3>2
      <4> QED BY <2>4, <2>5, <2>7, <3>2, <4>1
    <3>3. CASE i # turn - PeerCount
      <4>1. i \in 1..Len(out.samples) /\ i \in 1..(turn - 1 - PeerCount)
        BY <1>2, <2>3, <3>3
      <4>2. o.samples[i] = out.samples[i]
        BY <2>4, <2>5, <4>1
      <4> QED BY <4>1, <4>2 DEF IInv, Sampled, SamplesAnswerTheirRequests
    <3> QED BY <3>2, <3>3
  <2>9. Outcome(TRUE, o, f, Tail(queue))
    BY <1>1, <1>5, <1>8, <2>4, <2>5, <2>6, <2>8 DEF Outcome
  <2> QED BY <2>9 DEF o, f, a
<1> QED BY <1>7, <1>8

-----------------------------------------------------------------------------
(* The other steps of the call.                                            *)

LEMMA SendKeeps == IInv /\ Send => IInv'
<1> SUFFICES ASSUME IInv, Send PROVE IInv'
  OBVIOUS
<1>1. PICK port \in Ports :
        /\ asked' = asked \cup {[nonce |-> turn, to |-> Target]}
        /\ origin' = [origin EXCEPT ![turn] = port]
  BY DEF Send
<1>2. /\ pc = "send" /\ pc' = "test" /\ deadline' = now + slice
      /\ UNCHANGED <<speaks, slice, now, turn, wake, queue, answers, copies, served, out, first>>
  BY DEF Send, result
<1>3. turn \in 1..Exchanges /\ PeerCount \in Nat \ {0} /\ Exchanges \in Nat
  BY <1>2, ProbingAssumption DEF IInv, TypeOK, Exchanges
<1>4. Target \in Peers /\ (turn \in Peers => Target = turn)
  BY <1>2 DEF IInv, TypeOK, Target, Phase1
<1>5. \A n \in 1..Exchanges : Sent(n) => Sent(n)' /\ n # turn /\ origin'[n] = origin[n]
  BY <1>1, <1>2, <1>3 DEF Sent, IInv, TypeOK
<1>6. TypeOK'
  <2>1. asked' \subseteq Requests
    BY <1>1, <1>3, <1>4 DEF IInv, TypeOK, Requests
  <2>2. origin' \in [1..Exchanges -> Ports \cup {0}]
    BY <1>1 DEF IInv, TypeOK
  <2>3. deadline' \in Nat
    BY <1>2 DEF IInv, TypeOK
  <2> QED BY <1>2, <2>1, <2>2, <2>3 DEF IInv, TypeOK, Phase1
<1>7. UnderWay'
  <2>1. asked' \subseteq Posted'
    <3>1. SUFFICES ASSUME NEW r \in asked' PROVE r \in Posted'
      OBVIOUS
    <3>2. CASE r \in asked
      BY <1>5, <3>2 DEF IInv, TypeOK, Requests, UnderWay, Posted
    <3>3. CASE r = [nonce |-> turn, to |-> Target]
      <4>1. r.nonce = turn /\ r.to = Target
        BY <3>3
      <4>2. origin'[turn] = port
        BY <1>1, <1>3 DEF IInv, TypeOK
      <4>3. r \in Requests
        BY <1>3, <1>4, <3>3 DEF Requests
      <4> QED BY <1>2, <1>4, <4>1, <4>2, <4>3 DEF Posted, Sent
    <3> QED BY <1>1, <3>2, <3>3
  <2>2. Genuine \subseteq Genuine'
    BY <1>2, <1>5 DEF Packets, Genuine
  <2>3. answers' \subseteq Genuine' /\ \A i \in 1..Len(queue') : queue'[i] \in Genuine'
    BY <1>2, <2>2 DEF IInv, TypeOK, UnderWay
  <2> QED BY <2>1, <2>3 DEF UnderWay
<1>8. Sampled'
  <2>1. \A i \in 1..Len(out.samples) : PeerCount + i \in 1..Exchanges /\ PeerCount + i # turn
    BY <1>2, <1>3 DEF IInv, TypeOK, Results, Sampled, Phase1, Peers
  <2>2. \A i \in 1..Len(out.samples) : origin'[PeerCount + i] = origin[PeerCount + i]
    BY <1>1, <2>1 DEF IInv, TypeOK
  <2> QED BY <1>2, <2>2 DEF IInv, Sampled, SamplesAnswerTheirRequests, Phase1
<1>9. Timed'
  <2>1. Elapsed(turn)' = Elapsed(turn) /\ Elapsed(turn - 1)' = Elapsed(turn - 1)
    BY <1>2 DEF Elapsed
  <2>2. Elapsed(turn - 1) \in Nat /\ Elapsed(turn) \in Nat /\ Elapsed(turn - 1) <= Elapsed(turn)
    <3>1. turn - 1 \in Nat /\ (turn - 1) + 1 = turn
      BY <1>3
    <3>2. turn \in Nat /\ slice \in Nat
      BY <1>3 DEF IInv, TypeOK
    <3> QED BY <3>1, <3>2, ElapsedStep
  <2>3. now \in Nat /\ slice \in Nat /\ now <= Elapsed(turn - 1)
    BY <1>2 DEF IInv, TypeOK, Timed
  <2>4. now <= Elapsed(turn) /\ now + slice <= Elapsed(turn - 1) + slice
    BY <2>2, <2>3
  <2> QED BY <1>2, <2>1, <2>4 DEF Timed, Elapsed
<1>10. TargetHasAnswered' /\ Verdict'
  BY <1>2 DEF IInv, TargetHasAnswered, Verdict
<1> QED BY <1>6, <1>7, <1>8, <1>9, <1>10 DEF IInv

\* The clock, and the steps that only move within an exchange.
LEMMA WithinKeeps ==
  ASSUME IInv, StartWait \/ WaitEnds \/ Ignore
  PROVE  IInv'
<1>1. /\ pc \in {"test", "wait"} /\ pc' \in {"test", "wait"}
      /\ UNCHANGED <<speaks, slice, now, turn, deadline, asked, answers, copies, served, origin, out, first>>
  BY DEF StartWait, WaitEnds, Ignore, exchange, network, result
<1>2. wake' \in Nat /\ (pc' = "wait" => wake' <= deadline)
  BY DEF IInv, TypeOK, Timed, StartWait, WaitEnds, Ignore, exchange, Wait
<1>3. queue' = queue \/ (queue # <<>> /\ queue' = Tail(queue))
  BY DEF StartWait, WaitEnds, Ignore
<1>4. queue \in Seq(Packets)
  BY DEF IInv, TypeOK
<1>5. queue' \in Seq(Packets)
      /\ \A i \in 1..Len(queue') : \E k \in 1..Len(queue) : queue'[i] = queue[k]
  <2>1. CASE queue' = queue
    BY <1>4, <2>1
  <2>2. CASE queue # <<>> /\ queue' = Tail(queue)
    <3>1. /\ Tail(queue) \in Seq(Packets) /\ Len(queue) \in Nat
          /\ Len(Tail(queue)) = Len(queue) - 1
          /\ \A i \in 1..Len(Tail(queue)) : Tail(queue)[i] = queue[i + 1]
      BY <1>4, <2>2
    <3>2. \A i \in 1..Len(Tail(queue)) : i + 1 \in 1..Len(queue)
      BY <3>1
    <3> QED BY <2>2, <3>1, <3>2
  <2> QED BY <1>3, <2>1, <2>2
<1>6. \A n : Sent(n) => Sent(n)'
  BY <1>1 DEF Sent
<1>7. UnderWay'
  <2>1. Genuine \subseteq Genuine'
    BY <1>1, <1>6 DEF Genuine
  <2>2. \A i \in 1..Len(queue') : queue'[i] \in Genuine'
    <3>1. SUFFICES ASSUME NEW i \in 1..Len(queue') PROVE queue'[i] \in Genuine'
      OBVIOUS
    <3>2. PICK k \in 1..Len(queue) : queue'[i] = queue[k]
      BY <1>5
    <3> QED BY <2>1, <3>2 DEF IInv, UnderWay
  <2>3. asked \subseteq Posted'
    BY <1>1, <1>6 DEF IInv, UnderWay, Posted
  <2>4. answers' \subseteq Genuine'
    BY <1>1, <2>1 DEF IInv, UnderWay
  <2> QED BY <1>1, <2>2, <2>3, <2>4 DEF UnderWay
<1>8. TypeOK'
  BY <1>1, <1>2, <1>5 DEF IInv, TypeOK, Phase1
<1>9. Sampled' /\ TargetHasAnswered' /\ Verdict'
  BY <1>1 DEF IInv, Sampled, SamplesAnswerTheirRequests, Phase1, TargetHasAnswered, Verdict
<1>10. Timed'
  BY <1>1, <1>2 DEF IInv, Timed, Elapsed
<1> QED BY <1>7, <1>8, <1>9, <1>10 DEF IInv

LEMMA TickKeeps == IInv /\ Tick => IInv'
<1> SUFFICES ASSUME IInv, Tick PROVE IInv'
  OBVIOUS
<1>1. /\ pc = "wait" /\ now < wake + Slop /\ now' = now + 1
      /\ UNCHANGED <<speaks, slice, pc, turn, deadline, wake, queue, asked, answers, copies,
                     served, origin, out, first>>
  BY DEF Tick, exchange, network, result
<1>2. now' \in Nat
  BY <1>1 DEF IInv, TypeOK
<1>3. Timed'
  <2>1. turn - 1 \in Nat /\ (turn - 1) + 1 = turn /\ slice \in Nat /\ Slop \in Nat
    BY ProbingAssumption DEF IInv, TypeOK
  <2>2. Elapsed(turn) = Elapsed(turn - 1) + slice + Slop /\ Elapsed(turn - 1) \in Nat
    BY <2>1, ElapsedStep
  <2>3. now \in Nat /\ wake \in Nat /\ deadline \in Nat
        /\ wake <= deadline /\ deadline <= Elapsed(turn - 1) + slice
    BY <1>1 DEF IInv, TypeOK, Timed
  <2>4. now + 1 <= Elapsed(turn)
    BY <1>1, <2>1, <2>2, <2>3
  <2> QED BY <1>1, <2>3, <2>4 DEF Timed, Elapsed
<1>4. TypeOK' /\ Sampled' /\ TargetHasAnswered' /\ Verdict' /\ UnderWay'
  BY <1>1, <1>2 DEF IInv, TypeOK, Sampled, SamplesAnswerTheirRequests, Phase1,
                    TargetHasAnswered, Verdict, UnderWay, Posted, Genuine, Sent
<1> QED BY <1>3, <1>4 DEF IInv

-----------------------------------------------------------------------------
(* Peers and network.                                                      *)

LEMMA WorldUnchanged ==
  ASSUME IInv, UNCHANGED <<slice, now, pc, turn, deadline, wake, origin, out, first>>,
         served \subseteq served'
  PROVE  Sampled' /\ TargetHasAnswered' /\ Verdict' /\ Timed'
BY DEF IInv, Sampled, SamplesAnswerTheirRequests, Phase1, TargetHasAnswered, Verdict, Timed,
       Elapsed

LEMMA ServeKeeps == IInv /\ Serve => IInv'
<1> SUFFICES ASSUME IInv, Serve PROVE IInv'
  OBVIOUS
<1>1. PICK r \in asked :
       /\ asked' = asked \ {r}
       /\ answers' = answers \cup {[nonce |-> r.nonce, port |-> origin[r.nonce],
                                    family |-> IF r.to \in Ipv6Peers THEN 6 ELSE 4,
                                    layout |-> speaks[r.to]]}
       /\ served' = served \cup {r.to}
  BY DEF Serve
<1>2. UNCHANGED <<speaks, slice, now, pc, turn, deadline, wake, queue, copies, origin, out, first>>
  BY DEF Serve, exchange, result
<1> DEFINE new == [nonce |-> r.nonce, port |-> origin[r.nonce],
                   family |-> IF r.to \in Ipv6Peers THEN 6 ELSE 4, layout |-> speaks[r.to]]
<1>3. r.nonce \in 1..Exchanges /\ r.to \in Peers /\ r \in Posted
  BY DEF IInv, TypeOK, Requests, UnderWay
<1>4. new \in Packets
  BY <1>3 DEF IInv, TypeOK, Posted, Packets, Families
<1>5. new.nonce = r.nonce /\ new.port = origin[r.nonce]
  OBVIOUS
<1> HIDE DEF new
<1>6. TypeOK'
  BY <1>1, <1>2, <1>3, <1>4 DEF IInv, TypeOK, Phase1, new
<1>7. UnderWay'
  <2>1. Genuine \subseteq Genuine'
    BY <1>1, <1>2 DEF Genuine, Sent
  <2>2. new \in Genuine'
    BY <1>1, <1>2, <1>3, <1>4, <1>5 DEF Genuine, Posted, Sent
  <2>3. answers' \subseteq Genuine'
    BY <1>1, <2>1, <2>2 DEF IInv, UnderWay, new
  <2>4. \A i \in 1..Len(queue') : queue'[i] \in Genuine'
    BY <1>2, <2>1 DEF IInv, UnderWay
  <2>5. asked' \subseteq Posted'
    BY <1>1, <1>2 DEF IInv, UnderWay, Posted, Sent
  <2> QED BY <2>3, <2>4, <2>5 DEF UnderWay
<1>8. Sampled' /\ TargetHasAnswered' /\ Verdict' /\ Timed'
  BY <1>1, <1>2, WorldUnchanged
<1> QED BY <1>6, <1>7, <1>8 DEF IInv

LEMMA DeliverKeeps == IInv /\ Deliver => IInv'
<1> SUFFICES ASSUME IInv, Deliver PROVE IInv'
  OBVIOUS
<1>1. PICK a \in answers, keep \in BOOLEAN :
       /\ Passes(keep)
       /\ queue' = Append(queue, a)
       /\ answers' = IF keep THEN answers ELSE answers \ {a}
  BY DEF Deliver
<1>2. UNCHANGED <<speaks, slice, now, pc, turn, deadline, wake, asked, served, origin, out, first>>
  BY DEF Deliver, exchange, result
<1>3. a \in Packets /\ queue \in Seq(Packets) /\ a \in Genuine
  BY DEF IInv, TypeOK, UnderWay
<1>4. /\ queue' \in Seq(Packets) /\ Len(queue') = Len(queue) + 1 /\ Len(queue) \in Nat
      /\ queue'[Len(queue) + 1] = a
      /\ \A i \in 1..Len(queue) : queue'[i] = queue[i]
  BY <1>1, <1>3
<1>5. TypeOK'
  <2>1. answers' \subseteq Packets /\ copies' \in Nat
    BY <1>1 DEF IInv, TypeOK, Passes
  <2> QED BY <1>2, <1>4, <2>1 DEF IInv, TypeOK, Phase1
<1>6. UnderWay'
  <2>1. Genuine' = Genuine
    BY <1>2 DEF Genuine, Sent
  <2>2. \A i \in 1..Len(queue') : queue'[i] \in Genuine'
    <3>1. SUFFICES ASSUME NEW i \in 1..Len(queue') PROVE queue'[i] \in Genuine
      BY <2>1
    <3>2. CASE i = Len(queue) + 1
      BY <1>3, <1>4, <3>2
    <3>3. CASE i # Len(queue) + 1
      <4>1. i \in 1..Len(queue)
        BY <1>4, <3>3
      <4> QED BY <1>4, <4>1 DEF IInv, UnderWay
    <3> QED BY <3>2, <3>3
  <2>3. answers' \subseteq Genuine'
    BY <1>1, <2>1 DEF IInv, UnderWay
  <2>4. asked' \subseteq Posted'
    BY <1>2 DEF IInv, UnderWay, Posted, Sent
  <2> QED BY <2>2, <2>3, <2>4 DEF UnderWay
<1>7. Sampled' /\ TargetHasAnswered' /\ Verdict' /\ Timed'
  BY <1>2, WorldUnchanged
<1> QED BY <1>5, <1>6, <1>7 DEF IInv

-----------------------------------------------------------------------------
(* The theorems.                                                           *)

LEMMA StepKeeps == IInv /\ [Next]_vars => IInv'
<1> SUFFICES ASSUME IInv, [Next]_vars PROVE IInv'
  OBVIOUS
<1>1. CASE Send
  BY <1>1, SendKeeps
<1>2. CASE GiveUp \/ SendFails \/ ReceiveFails
  <2>1. /\ pc # "done" /\ Proceed(FALSE, out, first, queue)
        /\ UNCHANGED <<speaks, slice, now, network>>
    BY <1>2 DEF GiveUp, SendFails, ReceiveFails
  <2> QED BY <2>1, SilenceIsAnOutcome, ProceedKeeps
<1>3. CASE Accept
  <2>1. /\ pc = "wait" /\ queue # <<>> /\ Accepts(Head(queue), turn)
        /\ Proceed(TRUE, Answered(Head(queue), out), IF first = 0 THEN turn ELSE first,
                   Tail(queue))
        /\ UNCHANGED <<speaks, slice, now, network>>
    BY <1>3 DEF Accept
  <2> QED BY <2>1, AnswerIsAnOutcome, ProceedKeeps
<1>4. CASE StartWait \/ WaitEnds \/ Ignore
  BY <1>4, WithinKeeps
<1>5. CASE Serve
  BY <1>5, ServeKeeps
<1>6. CASE Deliver
  BY <1>6, DeliverKeeps
<1>7. CASE Tick
  BY <1>7, TickKeeps
<1>8. CASE UNCHANGED vars
  BY <1>8 DEF vars, exchange, result, network, IInv, TypeOK, UnderWay, Posted, Genuine, Sent,
              Sampled, SamplesAnswerTheirRequests, Phase1, TargetHasAnswered, Timed, Elapsed,
              Verdict
<1> QED BY <1>1, <1>2, <1>3, <1>4, <1>5, <1>6, <1>7, <1>8 DEF Next, Work, Stop

\* What the theorems below follow from holds in every reachable state.
THEOREM InductiveInvariant == Spec => []IInv
BY InitInv, StepKeeps, PTL DEF Spec

\* Type correctness of probing.
THEOREM TypeCorrect == Spec => []TypeOK
<1>1. IInv => TypeOK
  BY DEF IInv
<1> QED BY <1>1, InductiveInvariant, PTL

\* Sample i is the port the NAT used for request i, whatever the network
\* delays or repeats: the receive loop of probing.c compares the nonce.
THEOREM SamplesAreInOrder == Spec => []SamplesAnswerTheirRequests
<1>1. IInv => SamplesAnswerTheirRequests
  BY DEF IInv, Sampled
<1> QED BY <1>1, InductiveInvariant, PTL

\* Phase 2 asks a peer that has answered phase 1, and only then is the peer
\* side called reachable.
THEOREM TargetIsAlive == Spec => []TargetHasAnswered
<1>1. IInv => TargetHasAnswered
  BY DEF IInv
<1> QED BY <1>1, InductiveInvariant, PTL

\* No exchange costs more than its slice and one late wake-up, and the call
\* fails only when every peer was asked.
THEOREM EachKeepsItsSlice == Spec => []SlicesAreKept
<1>1. IInv => SlicesAreKept
  BY DEF IInv, Timed, Verdict, Elapsed, SlicesAreKept
<1> QED BY <1>1, InductiveInvariant, PTL
=============================================================================

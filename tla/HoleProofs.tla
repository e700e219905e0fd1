----------------------------- MODULE HoleProofs -----------------------------
(***************************************************************************)
(* Theorems about hole punching, for every timeout, interval, wake-up      *)
(* delay, length of a round, queue and number of attempts.                 *)
(***************************************************************************)
EXTENDS Hole, TLAPS

\* A punch in the queue has been heard; while no one else sends there is
\* nothing but the peer's punches in it, and all count if the caller has
\* spelled the address as the system does.
Queued(p) ==
  \A i \in 1..Len(queue[p]) :
    /\ FromPeer(p, queue[p][i]) => heard[p]
    /\ quiet[p] /\ given[p] = "canonical" => FromPeer(p, queue[p][i])

\* An attempt that polls has punched.
Punched(p) == pc[p] \in {"check", "test", "sleep"} => mapping[p] # "none"

\* The sleeper's alarm is set no later than the deadline; whoever is awake
\* woke no later than a late wake-up after it, and not long ago.
OnTime(p) ==
  pc[p] # "idle" =>
    /\ wake[p] <= deadline[p] + (IF pc[p] = "sleep" THEN 0 ELSE Slop) \/ deadline[p] = 0
    /\ now <= wake[p] + Patience(p)
    /\ pc[p] # "sleep" => wake[p] <= now

\* An early punch is still in the queue, and a round that has polled without
\* it began early enough to sleep once more.
Noticed(p) ==
  early[p] =>
    /\ pc[p] # "idle"
    /\ quiet[p] /\ given[p] = "canonical" =>
         queue[p] # <<>> /\ (pc[p] = "test" => wake[p] + Held < deadline[p])

IInv == TypeOK /\ \A p \in Peers : Queued(p) /\ Punched(p) /\ OnTime(p) /\ Noticed(p)

Step(p) == Begin(p) \/ Run(p) \/ Deliver(p) \/ Lose(p) \/ Noise(p)

LEMMA OtherPeer == \A p \in Peers : Other(p) \in Peers /\ Other(p) # p
BY DEF Peers, Other

LEMMA TypeInit == Init => TypeOK
BY HoleAssumption DEF Init, TypeOK, Peers, Mappings, Verdicts, Spellings

\* Every way out of an attempt keeps the types.
LEMMA FinishType ==
  ASSUME TypeOK, NEW p \in Peers, NEW verdict \in Verdicts, Finish(p, verdict), UNCHANGED world
  PROVE  TypeOK'
BY DEF TypeOK, Finish, GoTo, world, Mappings, Spellings

LEMMA TypeStep ==
  ASSUME TypeOK, NEW p \in Peers, Step(p)
  PROVE  TypeOK'
<1>1. CASE Begin(p)
  <2>1. PICK verdict \in {"refused", "none"} : end' = [end EXCEPT ![p] = verdict]
    BY <1>1 DEF Begin
  <2>2. PICK timeout \in Timeouts :
          \/ deadline' = [deadline EXCEPT ![p] = IF timeout = 0 THEN 0 ELSE now + timeout]
          \/ deadline' = deadline
    BY <1>1 DEF Begin
  <2>3. PICK spelling \in Spellings :
          /\ given' = [given EXCEPT ![p] = spelling] \/ given' = given
          /\ wake' = [wake EXCEPT ![p] = now] \/ wake' = wake
    BY <1>1 DEF Begin, Spellings
  <2>4. now \in Nat
    BY HoleAssumption DEF TypeOK
  <2>5. wake' \in [Peers -> Nat] /\ given' \in [Peers -> Spellings]
    BY <2>3, <2>4 DEF TypeOK
  <2>6. now + timeout \in Nat
    BY HoleAssumption DEF TypeOK
  <2>7. deadline' \in [Peers -> Nat]
    <3> DEFINE x == IF timeout = 0 THEN 0 ELSE now + timeout
    <3>1. x \in Nat BY <2>6
    <3> HIDE DEF x
    <3> QED BY <2>2, <3>1 DEF TypeOK, x
  <2>8. /\ pc' \in [Peers -> {"idle", "open", "send", "check", "test", "sleep"}]
        /\ \A q \in Peers : pc'[q] \in {"idle", "open"} => pc[q] \in {"idle", "open"}
    BY <1>1 DEF TypeOK, Begin, GoTo
  <2>9. attempts' \in [Peers -> Nat]
    BY <1>1 DEF TypeOK, Begin
  <2>10. UNCHANGED <<now, mapping, queue, net, noise, heard, early, quiet>>
    BY <1>1 DEF Begin, socket
  <2> QED BY <2>1, <2>9, <2>7, <2>8, <2>5, <2>10 DEF TypeOK, Verdicts
<1>2. CASE OpenSocket(p)
  <2>1. CASE Finish(p, "error") BY <2>1, <1>2, FinishType DEF OpenSocket, Verdicts
  <2>2. CASE GoTo(p, "send") /\ UNCHANGED <<deadline, given, wake, end, socket>>
    BY <2>2, <1>2 DEF TypeOK, OpenSocket, GoTo, socket, world
  <2> QED BY <2>1, <2>2, <1>2 DEF OpenSocket
<1>3. CASE SendFails(p)
  BY <1>3, FinishType DEF SendFails, Verdicts
<1>4. CASE SendPunch(p)
  BY <1>4 DEF TypeOK, SendPunch, GoTo, Mappings
<1>5. CASE CheckFails(p)
  BY <1>5, FinishType DEF CheckFails, Verdicts
<1>6. CASE CheckNothing(p)
  BY <1>6 DEF TypeOK, CheckNothing, GoTo, socket, world
<1>7. CASE CheckDiscards(p)
  BY <1>7 DEF TypeOK, CheckDiscards, GoTo, world
<1>8. CASE CheckGotPunch(p)
  BY <1>8, FinishType DEF CheckGotPunch, Verdicts
<1>9. CASE GiveUp(p)
  BY <1>9, FinishType DEF GiveUp, Verdicts
<1>10. CASE GoToSleep(p)
  <2>1. now + Nap(p) \in Nat
    BY <1>10, HoleAssumption DEF TypeOK, GoToSleep, TimedOut, Nap
  <2> QED BY <2>1, <1>10 DEF TypeOK, GoToSleep, GoTo, socket, world
<1>11. CASE WakeUp(p)
  BY <1>11 DEF TypeOK, WakeUp, AfterSleep, GoTo, socket, world
<1>12. CASE Deliver(p)
  <2> DEFINE d == [ip |-> Other(p), body |-> "XHOL"]
  <2>1. d \in Datagrams BY OtherPeer DEF Datagrams
  <2> HIDE DEF d
  <2>2. PICK b, c \in BOOLEAN : /\ heard' = [heard EXCEPT ![p] = b]
                                /\ early' = [early EXCEPT ![p] = c]
    BY <1>12 DEF TypeOK, Deliver, Arrives
  <2>3. queue' = [queue EXCEPT ![p] = Append(@, d)] /\ mapping[p] = "as_told" 
    BY <1>12 DEF Deliver, Arrives, d
  <2> QED BY <2>1, <2>2, <2>3, <1>12 DEF TypeOK, Deliver
<1>13. CASE Lose(p)
  BY <1>13 DEF TypeOK, Lose, socket
<1>14. CASE Noise(p)
  <2>1. PICK d \in Datagrams : Arrives(p, d) BY <1>14 DEF Noise
  <2>2. PICK b \in BOOLEAN : heard' = [heard EXCEPT ![p] = b]
    BY <2>1 DEF TypeOK, Arrives
  <2>3. queue' = [queue EXCEPT ![p] = Append(@, d)] /\ mapping[p] # "none"
    BY <2>1, <1>14 DEF Noise, Arrives
  <2> QED BY <2>2, <2>3, <1>14 DEF TypeOK, Noise
<1> QED
  BY <1>1, <1>2, <1>3, <1>4, <1>5, <1>6, <1>7, <1>8, <1>9, <1>10, <1>11, <1>12, <1>13, <1>14
  DEF Step, Run

LEMMA TypeNext == TypeOK /\ [Next]_vars => TypeOK'
<1> SUFFICES ASSUME TypeOK, [Next]_vars PROVE TypeOK'
  OBVIOUS
<1>1. CASE \E p \in Peers : Step(p)
  BY <1>1, TypeStep
<1>2. CASE Tick
  BY <1>2, HoleAssumption DEF TypeOK, Tick, socket
<1>3. CASE Stop \/ UNCHANGED vars
  BY <1>3 DEF TypeOK, Stop, vars
<1> QED BY <1>1, <1>2, <1>3 DEF Next, Step

\* What another peer's steps leave alone.
Same(p) ==
  /\ pc'[p] = pc[p] /\ mapping'[p] = mapping[p] /\ queue'[p] = queue[p]
  /\ deadline'[p] = deadline[p] /\ wake'[p] = wake[p] /\ given'[p] = given[p]
  /\ heard'[p] = heard[p] /\ early'[p] = early[p] /\ quiet'[p] = quiet[p]

Local(p) == Queued(p) /\ Punched(p) /\ OnTime(p) /\ Noticed(p)

LEMMA OthersStep ==
  ASSUME TypeOK, NEW p \in Peers, Step(p), NEW q \in Peers \ {p}
  PROVE  Same(q) /\ now' = now
BY DEF TypeOK, Step, Run, Begin, OpenSocket, SendFails, SendPunch, CheckFails, CheckNothing,
   CheckDiscards, CheckGotPunch, GiveUp, GoToSleep, WakeUp, Deliver, Lose, Noise, Arrives,
   Finish, GoTo, Same, world, socket

LEMMA SameLocal ==
  ASSUME NEW q \in Peers, Local(q), Same(q), now' = now
  PROVE  Local(q)'
BY DEF Local, Same, Queued, Punched, OnTime, Noticed, FromPeer, Patience

\* A finished attempt leaves nothing behind.
LEMMA FinishLocal ==
  ASSUME TypeOK, NEW p \in Peers, NEW verdict, Finish(p, verdict)
  PROVE  Local(p)'
<1>1. /\ pc'[p] = "idle" /\ queue'[p] = <<>> /\ early'[p] = FALSE
  BY DEF TypeOK, Finish, GoTo
<1> QED BY <1>1 DEF Local, Queued, Punched, OnTime, Noticed

\* An arrival keeps the queue honest.
LEMMA ArrivalQueued ==
  ASSUME TypeOK, NEW p \in Peers, NEW d \in Datagrams, Arrives(p, d), Queued(p),
         given'[p] = given[p],
         quiet'[p] => quiet[p] /\ d.ip = Other(p) /\ d.body = "XHOL"
  PROVE  Queued(p)' /\ queue'[p] # <<>>
<1>1. queue[p] \in Seq(Datagrams) /\ queue'[p] = Append(queue[p], d)
  BY DEF TypeOK, Arrives
<1>2. /\ heard[p] \/ FromPeer(p, d) => heard'[p]
      /\ quiet'[p] /\ given[p] = "canonical" => FromPeer(p, d)
  BY DEF TypeOK, Arrives, FromPeer, sockaddr_to_ep
<1>3. ASSUME NEW i \in 1..Len(queue'[p])
      PROVE  /\ FromPeer(p, queue'[p][i]) => heard'[p]
             /\ quiet'[p] /\ given[p] = "canonical" => FromPeer(p, queue'[p][i])
  <2>1. CASE i \in 1..Len(queue[p])
    <3>1. queue'[p][i] = queue[p][i]
      BY <2>1, <1>1
    <3> QED BY <3>1, <2>1, <1>2 DEF Queued
  <2>2. CASE i = Len(queue[p]) + 1
    <3>1. queue'[p][i] = d
      BY <2>2, <1>1
    <3> QED BY <3>1, <1>2
  <2> QED BY <2>1, <2>2, <1>1, <1>3
<1>4. queue'[p] # <<>>
  BY <1>1
<1>5. Queued(p)'
  BY <1>3 DEF Queued, FromPeer
<1> QED BY <1>4, <1>5

LEMMA LocalStep ==
  ASSUME TypeOK, NEW p \in Peers, Local(p), Step(p)
  PROVE  Local(p)'
<1>0. now \in Nat /\ deadline[p] \in Nat /\ wake[p] \in Nat /\ Slop \in Nat /\ Held \in Nat
  BY HoleAssumption DEF TypeOK
<1>1. CASE Begin(p)
  <2>1. /\ queue' = queue /\ mapping' = mapping /\ now' = now
        /\ pc'[p] \in {"idle", "open"} /\ queue[p] = <<>>
    BY <1>1 DEF Begin, GoTo, socket, TypeOK
  <2>2. \/ pc'[p] = "idle" /\ early' = early /\ quiet' = quiet /\ given' = given
        \/ /\ pc'[p] = "open" /\ wake'[p] = now
           /\ deadline'[p] = 0 \/ now <= deadline'[p]
    BY <1>1, <1>0, HoleAssumption DEF TypeOK, Begin, GoTo, socket
  <2>3. deadline'[p] \in Nat
    BY TypeStep, <1>1 DEF TypeOK, Step
  <2>4. ~early[p] /\ early' = early
    BY <1>1 DEF Begin, socket, Local, Noticed
  <2> QED
    BY <2>1, <2>2, <2>3, <2>4, <1>0 DEF Local, Queued, Punched, OnTime, Noticed, Patience
<1>2. CASE OpenSocket(p)
  <2>1. CASE Finish(p, "error") BY <2>1, FinishLocal
  <2>2. CASE GoTo(p, "send") /\ UNCHANGED <<deadline, given, wake, end, socket>>
    <3>1. pc[p] = "open" /\ pc'[p] = "send" /\ now' = now
      BY <2>2, <1>2 DEF TypeOK, OpenSocket, GoTo, world
    <3> QED BY <3>1, <2>2 DEF Local, Queued, Punched, OnTime, Noticed, FromPeer, Patience, socket
  <2> QED BY <2>1, <2>2, <1>2 DEF OpenSocket
<1>3. CASE SendFails(p) \/ CheckFails(p) \/ CheckGotPunch(p) \/ GiveUp(p)
  BY <1>3, FinishLocal DEF SendFails, CheckFails, CheckGotPunch, GiveUp
<1>4. CASE SendPunch(p)
  <2>1. /\ pc[p] = "send" /\ pc'[p] = "check" /\ mapping'[p] # "none"
        /\ UNCHANGED <<now, deadline, given, wake, queue, heard, early, quiet>>
    BY <1>4 DEF TypeOK, SendPunch, GoTo
  <2> QED BY <2>1 DEF Local, Queued, Punched, OnTime, Noticed, FromPeer, Patience
<1>5. CASE CheckNothing(p)
  <2>1. /\ pc[p] = "check" /\ pc'[p] = "test" /\ queue[p] = <<>>
        /\ UNCHANGED <<now, deadline, given, wake, queue, mapping, heard, early, quiet>>
    BY <1>5 DEF TypeOK, CheckNothing, GoTo, world, socket
  <2> QED BY <2>1 DEF Local, Queued, Punched, OnTime, Noticed, FromPeer, Patience
<1>6. CASE CheckDiscards(p)
  <2>1. /\ pc[p] = "check" /\ pc'[p] = "test" /\ queue'[p] = Tail(queue[p])
        /\ UNCHANGED <<now, deadline, given, wake, mapping, heard, early, quiet>>
    BY <1>6 DEF TypeOK, CheckDiscards, GoTo, world
  <2>2. queue[p] \in Seq(Datagrams) /\ queue[p] # <<>> /\ ~FromPeer(p, Head(queue[p]))
    BY <1>6 DEF TypeOK, CheckDiscards
  <2>3. Head(queue[p]) = queue[p][1] /\ 1 \in 1..Len(queue[p])
    BY <2>2
  <2>4. ~(quiet[p] /\ given[p] = "canonical")
    BY <2>2, <2>3 DEF Local, Queued
  <2>5. \A i \in 1..Len(queue'[p]) : i + 1 \in 1..Len(queue[p]) /\ queue'[p][i] = queue[p][i + 1]
    BY <2>1, <2>2
  <2>6. Queued(p)'
    BY <2>1, <2>5 DEF Local, Queued, FromPeer
  <2> QED BY <2>1, <2>4, <2>6 DEF Local, Punched, OnTime, Noticed, Patience
<1>7. CASE GoToSleep(p)
  <2>1. /\ pc[p] = "test" /\ pc'[p] = "sleep" /\ wake'[p] = now + Nap(p) /\ ~TimedOut(p)
        /\ UNCHANGED <<now, deadline, given, queue, mapping, heard, early, quiet>>
    BY <1>7 DEF TypeOK, GoToSleep, GoTo, world, socket
  <2>2. deadline[p] # 0 => now + Nap(p) <= deadline[p]
    BY <2>1, <1>0, HoleAssumption DEF TimedOut, Nap
  <2>3. Nap(p) \in Nat
    BY <2>1, <1>0, HoleAssumption DEF TimedOut, Nap
  <2> HIDE DEF Nap
  <2> QED
    BY <2>1, <2>2, <2>3, <1>0 DEF Local, Queued, Punched, OnTime, Noticed, FromPeer, Patience
<1>8. CASE WakeUp(p)
  <2>1. /\ pc[p] = "sleep" /\ pc'[p] = "send" /\ wake'[p] = now
        /\ UNCHANGED <<now, deadline, given, queue, mapping, heard, early, quiet>>
    BY <1>8 DEF TypeOK, WakeUp, AfterSleep, GoTo, world, socket
  <2> QED
    BY <2>1, <1>0 DEF Local, Queued, Punched, OnTime, Noticed, FromPeer, Patience
<1>9. CASE Lose(p)
  <2>1. UNCHANGED <<now, pc, deadline, given, wake, queue, mapping, heard, early, quiet>>
    BY <1>9 DEF Lose, socket
  <2> QED BY <2>1 DEF Local, Queued, Punched, OnTime, Noticed, FromPeer, Patience
<1>10. CASE Deliver(p)
  <2> DEFINE d == [ip |-> Other(p), body |-> "XHOL"]
  <2>1. d \in Datagrams /\ d.ip = Other(p) /\ d.body = "XHOL"
    BY OtherPeer DEF Datagrams
  <2>2. Arrives(p, d)
    BY <1>10 DEF Deliver
  <2>3. /\ UNCHANGED <<now, pc, deadline, given, wake, mapping, quiet>>
        /\ early'[p] = (early[p] \/ now + Held < deadline[p])
    BY <1>10 DEF TypeOK, Deliver
  <2> HIDE DEF d
  <2>4. Queued(p)' /\ queue'[p] # <<>>
    BY <2>1, <2>2, <2>3, ArrivalQueued DEF Local
  <2>5. pc[p] # "idle" /\ (pc[p] = "test" => wake[p] <= now)
    BY <1>10 DEF Local, OnTime, Deliver, TypeOK
  <2>6. Noticed(p)'
    <3>1. CASE early[p] BY <2>3, <2>4, <3>1 DEF Local, Noticed
    <3>2. CASE now + Held < deadline[p]
      <4>1. pc[p] = "test" => wake[p] + Held < deadline[p] BY <2>5, <3>2, <1>0
      <4> QED BY <2>3, <2>4, <2>5, <4>1 DEF Noticed
    <3>3. CASE ~early'[p] BY <3>3 DEF Noticed
    <3> QED BY <2>3, <3>1, <3>2, <3>3
  <2> QED BY <2>3, <2>4, <2>6 DEF Local, Punched, OnTime, Patience
<1>11. CASE Noise(p)
  <2>1. PICK d \in Datagrams : Arrives(p, d)
    BY <1>11 DEF Noise
  <2>2. quiet'[p] = FALSE /\ UNCHANGED <<now, pc, deadline, given, wake, mapping, early>>
    BY <1>11 DEF TypeOK, Noise
  <2>3. Queued(p)'
    BY <2>1, <2>2, ArrivalQueued DEF Local
  <2> QED BY <2>2, <2>3 DEF Local, Punched, OnTime, Noticed, Patience
<1> QED
  BY <1>1, <1>2, <1>3, <1>4, <1>5, <1>6, <1>7, <1>8, <1>9, <1>10, <1>11 DEF Step, Run

LEMMA TickLocal ==
  ASSUME TypeOK, NEW p \in Peers, Local(p), Tick
  PROVE  Local(p)'
<1>1. /\ UNCHANGED <<pc, deadline, given, wake, queue, mapping, heard, early, quiet>>
      /\ now' = now + 1
      /\ pc[p] = "idle" \/ now < wake[p] + Patience(p)
  BY DEF Tick, socket
<1>2. now \in Nat /\ deadline[p] \in Nat /\ wake[p] \in Nat /\ Patience(p) \in Nat
  BY HoleAssumption DEF TypeOK, Patience
<1>3. Patience(p)' = Patience(p)
  BY <1>1 DEF Patience
<1> HIDE DEF Patience
<1> QED BY <1>1, <1>2, <1>3 DEF Local, Queued, Punched, OnTime, Noticed, FromPeer

\* What the alarm says of the deadline.
LEMMA InTime ==
  ASSUME TypeOK, NEW p \in Peers, OnTime(p), pc[p] # "idle", deadline[p] # 0
  PROVE  now <= deadline[p] + Late
BY HoleAssumption DEF TypeOK, OnTime, Patience, Late

\* Every reachable state satisfies the inductive invariant: what waits in a
\* queue has been heard, and a punctual punch is noticed (hole.c's rounds).
THEOREM Inductive == Spec => []IInv
<1>1. Init => IInv
  BY TypeInit, HoleAssumption DEF Init, IInv, Queued, Punched, OnTime, Noticed
<1>2. IInv /\ [Next]_vars => IInv'
  <2> SUFFICES ASSUME IInv, [Next]_vars, NEW p \in Peers PROVE Local(p)'
    BY TypeNext DEF IInv, Local
  <2>0. TypeOK /\ \A q \in Peers : Local(q)
    BY DEF IInv, Local
  <2>1. ASSUME NEW q \in Peers, Step(q) PROVE Local(p)'
    BY <2>0, <2>1, LocalStep, OthersStep, SameLocal
  <2>2. CASE Tick
    BY <2>0, <2>2, TickLocal
  <2>3. CASE Stop \/ UNCHANGED vars
    BY <2>0, <2>3 DEF Stop, vars, Local, Queued, Punched, OnTime, Noticed, FromPeer, Patience
  <2> QED BY <2>1, <2>2, <2>3 DEF Next, Step
<1> QED BY <1>1, <1>2, PTL DEF Spec

\* Types, and an idle peer that holds neither socket nor datagram.
THEOREM TypeCorrect == Spec => []TypeOK
BY Inductive, PTL DEF IInv

\* weapon_ops.h: no attempt outlives its budget by more than one late wake-up
\* and the round it wakes to.
THEOREM BudgetIsKept == Spec => []EndsOnTime
<1>1. IInv => EndsOnTime
  BY InTime DEF IInv, EndsOnTime
<1> QED BY <1>1, Inductive, PTL

\* Which step ends an attempt which way.
LEMMA Endings ==
  ASSUME TypeOK, Next, NEW p \in Peers, NEW verdict \in {"success", "timeout"}, Ends(p, verdict)
  PROVE  (verdict = "success" /\ CheckGotPunch(p)) \/ (verdict = "timeout" /\ GiveUp(p))
<1>1. end \in [Peers -> Verdicts] /\ end'[p] # end[p] /\ end'[p] = verdict
  BY DEF Ends, TypeOK
<1>2. CASE Tick \/ Stop \/ \E q \in Peers : Deliver(q) \/ Lose(q) \/ Noise(q)
  BY <1>1, <1>2 DEF Tick, Stop, Deliver, Lose, Noise, vars
<1>3. ASSUME NEW q \in Peers,
             OpenSocket(q) \/ SendPunch(q) \/ CheckNothing(q) \/ CheckDiscards(q)
             \/ GoToSleep(q) \/ WakeUp(q) \/ SendFails(q) \/ CheckFails(q)
      PROVE  FALSE
  <2>1. end' = end \/ Finish(q, "error")
    BY <1>3 DEF OpenSocket, SendPunch, CheckNothing, CheckDiscards, GoToSleep, WakeUp, SendFails,
       CheckFails
  <2> QED BY <1>1, <2>1 DEF Finish
<1>4. ASSUME NEW q \in Peers, Begin(q) PROVE FALSE
  BY <1>1, <1>4 DEF Begin
<1>5. ASSUME NEW q \in Peers, CheckGotPunch(q) PROVE verdict = "success" /\ q = p
  BY <1>1, <1>5 DEF CheckGotPunch, Finish
<1>6. ASSUME NEW q \in Peers, GiveUp(q) PROVE verdict = "timeout" /\ q = p
  BY <1>1, <1>6 DEF GiveUp, Finish
<1> QED BY <1>2, <1>3, <1>4, <1>5, <1>6 DEF Next, Run

\* A success means the attempt has punched and has heard the peer's address.
THEOREM SuccessIsContact == Spec => SuccessIsHeard
<1> DEFINE Good == \A p \in Peers : Ends(p, "success") => mapping[p] # "none" /\ heard[p]
<1>1. IInv /\ [Next]_vars => [Good]_vars
  <2> SUFFICES ASSUME IInv, Next, NEW p \in Peers, Ends(p, "success")
               PROVE  mapping[p] # "none" /\ heard[p]
    BY DEF Ends
  <2>1. CheckGotPunch(p)
    BY Endings DEF IInv
  <2>2. queue[p] \in Seq(Datagrams) /\ queue[p] # <<>> /\ FromPeer(p, Head(queue[p]))
    BY <2>1 DEF CheckGotPunch, IInv, TypeOK
  <2>3. Head(queue[p]) = queue[p][1] /\ 1 \in 1..Len(queue[p])
    BY <2>2
  <2> QED BY <2>1, <2>2, <2>3 DEF IInv, Queued, Punched, CheckGotPunch
<1> QED BY <1>1, Inductive, PTL DEF Spec, SuccessIsHeard

\* A punch that reaches a socket no one else writes to by as much as a round
\* may take before the deadline is not waited for in vain, provided the caller
\* has spelled the peer's address as inet_ntop does (hole.c:320-325).
THEOREM PunctualPunchIsSeen == Spec => PunctualPunchWins
<1> DEFINE Good ==
      \A p \in Peers : Ends(p, "timeout") /\ quiet[p] /\ given[p] = "canonical" => ~early[p]
<1>1. IInv /\ [Next]_vars => [Good]_vars
  <2> SUFFICES ASSUME IInv, Next, NEW p \in Peers, Ends(p, "timeout"), quiet[p], early[p],
                      given[p] = "canonical"
               PROVE  FALSE
    BY DEF Ends
  <2>1. GiveUp(p)
    BY Endings DEF IInv
  <2>2. now \in Nat /\ deadline[p] \in Nat /\ wake[p] \in Nat /\ Held \in Nat
    BY HoleAssumption DEF IInv, TypeOK
  <2>3. now <= wake[p] + Held /\ wake[p] + Held < deadline[p]
    BY <2>1 DEF GiveUp, IInv, OnTime, Noticed, Patience
  <2> QED BY <2>1, <2>2, <2>3 DEF GiveUp, TimedOut
<1> QED BY <1>1, Inductive, PTL DEF Spec, PunctualPunchWins
-----------------------------------------------------------------------------
(* Hole implements WeaponPromise.                                          *)

\* A peer without an attempt has heard nothing.
Fresh == \A p \in Peers : pc[p] = "idle" => ~heard[p]

LEMMA FreshStep == TypeOK /\ Fresh /\ [Next]_vars => Fresh'
<1> SUFFICES ASSUME TypeOK, Fresh, [Next]_vars, NEW p \in Peers, pc'[p] = "idle"
             PROVE  ~heard'[p]
  BY DEF Fresh
<1>1. CASE Tick \/ Stop \/ UNCHANGED vars
  BY <1>1 DEF Tick, Stop, vars, socket, Fresh
<1>2. ASSUME NEW q \in Peers, Step(q), q # p PROVE ~heard'[p]
  BY <1>2, OthersStep DEF Same, Fresh
<1>3. CASE Step(p)
  <2>1. ASSUME NEW verdict, Finish(p, verdict) PROVE ~heard'[p] BY <2>1 DEF Finish, TypeOK
  <2>2. CASE Begin(p) \/ Lose(p)
    BY <2>2 DEF Begin, Lose, GoTo, socket, Fresh, TypeOK
  <2>3. CASE Run(p)
    <3>1. pc'[p] = "idle" => \E verdict : Finish(p, verdict)
      BY <2>3 DEF TypeOK, Run, OpenSocket, SendFails, SendPunch, CheckFails, CheckNothing,
         CheckDiscards, CheckGotPunch, GiveUp, GoToSleep, WakeUp, AfterSleep, GoTo
    <3> QED BY <2>1, <3>1
  <2>4. CASE Deliver(p) \/ Noise(p)
    BY <2>4 DEF Deliver, Noise, TypeOK
  <2> QED BY <1>3, <2>2, <2>3, <2>4 DEF Step
<1> QED BY <1>1, <1>2, <1>3 DEF Next, Step

\* An attempt that goes on spends nothing and keeps what it has heard.
LEMMA GoesOn ==
  ASSUME IInv, NEW p \in Peers, pc[p] # "idle", pc'[p] # "idle", now' = now, deadline'[p] = deadline[p],
         end'[p] = end[p], heard[p] => heard'[p]
  PROVE  Promise(p)!Next
<1> DEFINE left == IF deadline[p] = 0 THEN -1 ELSE deadline[p] + Late - now
<1>1. now \in Nat /\ deadline[p] \in Nat /\ Late \in Nat BY HoleAssumption DEF IInv, TypeOK, Late
<1>2. deadline[p] # 0 => now <= deadline[p] + Late BY InTime DEF IInv
<1>3. left # -1 => left \in 0..(left - 0) BY <1>1, <1>2
<1> HIDE DEF left
<1>4. (IF pc[p] = "idle" THEN 0 ELSE IF deadline[p] = 0 THEN -1 ELSE deadline[p] + Late - now) = left
  BY DEF left
<1>5. (IF pc'[p] = "idle" THEN 0
       ELSE IF deadline'[p] = 0 THEN -1 ELSE deadline'[p] + Late - now') = left
  BY DEF left
<1>6. Promise(p)!Work
  BY <1>3, <1>4, <1>5 DEF Promise!Work, Promise!Spends, Promise!Restarts, Promise!Forever
<1> QED BY <1>6 DEF Promise!Next

\* An attempt that ends succeeds only if it has heard the other.
LEMMA Returns ==
  ASSUME IInv, NEW p \in Peers, pc[p] # "idle", NEW verdict \in Verdicts, Finish(p, verdict),
         now' = now, verdict = "success" => heard[p]
  PROVE  Promise(p)!Next
<1>1. pc'[p] = "idle" /\ end'[p] = verdict /\ ~heard'[p] BY DEF Finish, GoTo, IInv, TypeOK
<1>2. Promise(p)!Return BY <1>1 DEF Promise!Return, Promise!Restarts
<1> QED BY <1>2 DEF Promise!Next

LEMMA PromiseStep ==
  ASSUME IInv, Fresh, NEW p \in Peers, Step(p)
  PROVE  [Promise(p)!Next]_(Promise(p)!promiseVars)
<1>1. CASE Begin(p)
  <2>1. now' = now /\ heard' = heard /\ pc[p] = "idle" /\ ~heard[p]
    BY <1>1 DEF Begin, socket, Fresh
  <2>2. PICK verdict \in {"refused", "none"}, timeout \in Timeouts :
          /\ end' = [end EXCEPT ![p] = verdict]
          /\ IF verdict = "none"
             THEN /\ GoTo(p, "open")
                  /\ deadline' = [deadline EXCEPT ![p] = IF timeout = 0 THEN 0 ELSE now + timeout]
             ELSE UNCHANGED <<pc, deadline>>
    BY <1>1 DEF Begin
  <2>3. end'[p] = verdict BY <2>2 DEF IInv, TypeOK
  <2>4. CASE verdict = "none"
    <3>1. pc'[p] = "open" /\ deadline'[p] = IF timeout = 0 THEN 0 ELSE now + timeout
      BY <2>2, <2>4 DEF GoTo, IInv, TypeOK
    <3>2. now \in Nat /\ timeout \in Nat /\ Late \in Nat BY HoleAssumption DEF IInv, TypeOK, Late
    <3>3. PICK left : left = IF timeout = 0 THEN -1 ELSE timeout + Late OBVIOUS
    <3>4. left \in {t + Late : t \in Timeouts \ {0}} \cup {-1} BY <3>3
    <3>5. (IF pc'[p] = "idle" THEN 0
           ELSE IF deadline'[p] = 0 THEN -1 ELSE deadline'[p] + Late - now') = left
      BY <2>1, <3>1, <3>2, <3>3
    <3>6. Promise(p)!Start
      BY <2>1, <2>3, <2>4, <3>1, <3>4, <3>5 DEF Promise!Start, Promise!Restarts
    <3> QED BY <3>6 DEF Promise!Next
  <2>5. CASE verdict = "refused"
    <3>1. Promise(p)!Refuse
      BY <2>1, <2>2, <2>3, <2>5 DEF Promise!Refuse, Promise!Restarts
    <3> QED BY <3>1 DEF Promise!Next
  <2> QED BY <2>4, <2>5
<1>2. ASSUME NEW verdict \in {"error", "timeout"}, pc[p] # "idle", Finish(p, verdict), now' = now
      PROVE  Promise(p)!Next
  <2>1. verdict \in Verdicts /\ verdict # "success" BY DEF Verdicts
  <2> QED BY <1>2, <2>1, Returns
<1>3. CASE SendFails(p) \/ CheckFails(p)
  BY <1>2, <1>3 DEF SendFails, CheckFails, world
<1>4. CASE GiveUp(p)
  BY <1>2, <1>4 DEF GiveUp, world
<1>5. CASE CheckGotPunch(p)
  <2>1. queue[p] \in Seq(Datagrams) /\ queue[p] # <<>> /\ FromPeer(p, Head(queue[p]))
    BY <1>5 DEF CheckGotPunch, IInv, TypeOK
  <2>2. Head(queue[p]) = queue[p][1] /\ 1 \in 1..Len(queue[p]) BY <2>1
  <2>3. heard[p] BY <2>1, <2>2 DEF IInv, Queued
  <2>4. pc[p] # "idle" /\ Finish(p, "success") /\ now' = now /\ "success" \in Verdicts
    BY <1>5 DEF CheckGotPunch, world, Verdicts
  <2> QED BY <2>3, <2>4, Returns
<1>6. CASE OpenSocket(p)
  <2>1. CASE Finish(p, "error") BY <1>2, <1>6, <2>1 DEF OpenSocket, world
  <2>2. CASE GoTo(p, "send") /\ UNCHANGED <<deadline, given, wake, end, socket>>
    <3>1. /\ pc[p] # "idle" /\ pc'[p] = "send" /\ now' = now
          /\ UNCHANGED <<deadline, end, heard>>
      BY <1>6, <2>2 DEF OpenSocket, GoTo, world, socket, IInv, TypeOK
    <3> QED BY <3>1, GoesOn
  <2> QED BY <1>6, <2>1, <2>2 DEF OpenSocket
<1>7. CASE SendPunch(p) \/ CheckNothing(p) \/ CheckDiscards(p) \/ GoToSleep(p) \/ WakeUp(p)
  <2>1. pc[p] # "idle" /\ pc'[p] # "idle"
    BY <1>7 DEF SendPunch, CheckNothing, CheckDiscards, GoToSleep, WakeUp, AfterSleep, GoTo,
       IInv, TypeOK
  <2>2. now' = now /\ UNCHANGED <<deadline, end, heard>>
    BY <1>7 DEF SendPunch, CheckNothing, CheckDiscards, GoToSleep, WakeUp, world, socket
  <2> QED BY <2>1, <2>2, GoesOn
<1>8. CASE Deliver(p) \/ Noise(p)
  <2>1. pc[p] # "idle" BY <1>8 DEF Deliver, Noise, IInv, TypeOK
  <2>2. now' = now /\ UNCHANGED <<pc, deadline, end>> BY <1>8 DEF Deliver, Noise
  <2>3. heard[p] => heard'[p] BY <1>8 DEF Deliver, Noise, Arrives, IInv, TypeOK
  <2> QED BY <2>1, <2>2, <2>3, GoesOn
<1>9. CASE Lose(p)
  BY <1>9 DEF Lose, socket, Promise!promiseVars
<1> QED BY <1>1, <1>3, <1>4, <1>5, <1>6, <1>7, <1>8, <1>9 DEF Step, Run

\* What one peer does is nothing to the other's attempt.
LEMMA OthersKeepPromise ==
  ASSUME TypeOK, NEW q \in Peers, Step(q), NEW p \in Peers, p # q
  PROVE  [Promise(p)!Next]_(Promise(p)!promiseVars)
<1>1. Same(p) /\ now' = now BY OthersStep
<1>2. end'[p] = end[p]
  BY DEF TypeOK, Step, Run, Begin, OpenSocket, SendFails, SendPunch, CheckFails, CheckNothing,
     CheckDiscards, CheckGotPunch, GiveUp, GoToSleep, WakeUp, Deliver, Lose, Noise, Finish
<1> QED BY <1>1, <1>2 DEF Same, Promise!promiseVars

LEMMA TickPromise ==
  ASSUME IInv, EndsOnTime', NEW p \in Peers, Tick
  PROVE  Promise(p)!Next
<1> DEFINE left == IF deadline[p] = 0 THEN -1 ELSE deadline[p] + Late - now
<1>1. UNCHANGED <<pc, deadline, end, heard>> /\ now' = now + 1 BY DEF Tick, socket
<1>2. now \in Nat /\ deadline[p] \in Nat /\ Late \in Nat BY HoleAssumption DEF IInv, TypeOK, Late
<1>3. pc[p] # "idle" /\ deadline[p] # 0 => now + 1 <= deadline[p] + Late
  BY <1>1 DEF EndsOnTime
<1>4. PICK after : after = IF deadline[p] = 0 THEN -1 ELSE deadline[p] + Late - (now + 1) OBVIOUS
<1>5. pc[p] # "idle" => IF left = -1 THEN after = -1 ELSE after \in 0..(left - 1)
  BY <1>2, <1>3, <1>4
<1> HIDE DEF left
<1>6. (IF pc[p] = "idle" THEN 0 ELSE IF deadline[p] = 0 THEN -1 ELSE deadline[p] + Late - now)
        = IF pc[p] = "idle" THEN 0 ELSE left
  BY DEF left
<1>7. (IF pc'[p] = "idle" THEN 0
       ELSE IF deadline'[p] = 0 THEN -1 ELSE deadline'[p] + Late - now')
        = IF pc[p] = "idle" THEN 0 ELSE after
  BY <1>1, <1>4
<1>8. Promise(p)!Pass
  BY <1>1, <1>5, <1>6, <1>7 DEF Promise!Pass, Promise!Spends, Promise!Forever
<1> QED BY <1>8 DEF Promise!Next

\* Either peer's attempts are calls of the abstract weapon: refused, or over
\* within budget and wake-up, and successful only after a punch was heard.
THEOREM Refinement == Spec => KeepsPromise
<1> DEFINE Kept == \A p \in Peers : [Promise(p)!Next]_(Promise(p)!promiseVars)
<1>1. Init => Fresh /\ \A p \in Peers : Promise(p)!Init
  BY DEF Init, Fresh, Promise!Init
<1>2. IInv /\ Fresh /\ [Next]_vars => Fresh' BY FreshStep DEF IInv
<1>3. IInv /\ EndsOnTime' /\ Fresh /\ [Next]_vars => [Kept]_vars
  <2> SUFFICES ASSUME IInv, EndsOnTime', Fresh, Next, NEW p \in Peers
               PROVE  [Promise(p)!Next]_(Promise(p)!promiseVars)
    OBVIOUS
  <2>1. ASSUME NEW q \in Peers, Step(q) PROVE [Promise(p)!Next]_(Promise(p)!promiseVars)
    BY <2>1, PromiseStep, OthersKeepPromise DEF IInv
  <2>2. CASE Tick BY <2>2, TickPromise
  <2>3. CASE Stop BY <2>3 DEF Stop, vars, Promise!promiseVars
  <2> QED BY <2>1, <2>2, <2>3 DEF Next, Step
<1> QED BY <1>1, <1>2, <1>3, Inductive, BudgetIsKept, PTL DEF Spec, KeepsPromise
=============================================================================

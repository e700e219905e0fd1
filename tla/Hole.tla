-------------------------------- MODULE Hole --------------------------------
(***************************************************************************)
(* Hole punching (src/weapons/hole.c): the two peers of a connection, each *)
(* running xury_weapon_hole_try, and the world between them.  An attempt   *)
(* opens a fresh socket and, until its deadline, sends a punch, polls for  *)
(* one datagram, and sleeps.                                               *)
(*                                                                         *)
(* The world is external: a NAT maps a socket to some port when it first   *)
(* sends, punches may be lost, delayed beyond the attempt that sent them,  *)
(* duplicated and reordered, and other hosts send datagrams of their own.  *)
(* A sleeper wakes up to Slop late, and a thread that is awake is held up  *)
(* for at most Held before it sleeps again.  Every attempt opens a socket  *)
(* on a fresh port, and a peer was told one port of the other: whether the *)
(* socket gets mapped "as_told" or "elsewhere" is up to the NAT.           *)
(***************************************************************************)
EXTENDS Integers, Sequences

CONSTANTS Timeouts,      \* the values of ctx->timeout_ms
          Interval,      \* XHOL_SEND_INTERVAL_MS
          Slop,          \* how late a sleeper may wake
          Held,          \* how long a round may take
          Open,          \* the peers whose NAT lets any sender in
          QueueCap,      \* bound on a socket's receive queue
          MaxNow, MaxAttempts, MaxNoise      \* bounds of the model

Peers == {"A", "B"}
Other(p) == IF p = "A" THEN "B" ELSE "A"
Spellings == {"canonical", "other"}              \* as inet_ntop spells an address, or not
Mappings == {"none", "as_told", "elsewhere"}     \* "none": no socket, or it has not sent

ASSUME HoleAssumption ==
  /\ Timeouts \subseteq Nat
  /\ Interval \in Nat \ {0} /\ Slop \in Nat /\ Held \in Nat
  /\ Open \subseteq Peers
  /\ QueueCap \in Nat /\ MaxNow \in Nat /\ MaxAttempts \in Nat /\ MaxNoise \in Nat

VARIABLES
  now,       \* xury_platform_time_ms()
  pc,        \* "idle", "open", "send", "check", "test", "sleep"
  deadline,  \* deadline_ms, 0 for none
  given,     \* how the caller has spelled ctx->peer.ip
  wake,      \* when the sleep ends; of a thread that is awake, when it woke
  mapping,   \* where the NAT has mapped each peer's socket
  queue,     \* the datagrams waiting at each peer's socket
  end,       \* how the last attempt ended, "none" while one runs
  net,       \* the peers that have a punch in flight
  attempts,  \* how many attempts each peer has begun
  noise,     \* how many datagrams others have sent
  heard,     \* history: has a punch from the peer's address reached it
  early,     \* history: did the peer's punch arrive a round before the deadline
  quiet      \* history: has no one else sent to this attempt

world == <<now, net, noise, attempts>>
socket == <<mapping, queue, heard, early, quiet>>
vars == <<now, pc, deadline, given, wake, mapping, queue, end, net, attempts, noise,
          heard, early, quiet>>

\* A datagram's source port is never looked at.
Datagrams == [ip : Peers \cup {"stranger"}, body : {"XHOL", "junk"}]

Init ==
  /\ now = 0
  /\ pc = [p \in Peers |-> "idle"]
  /\ deadline = [p \in Peers |-> 0] /\ wake = [p \in Peers |-> 0]
  /\ given = [p \in Peers |-> "canonical"]
  /\ mapping = [p \in Peers |-> "none"] /\ queue = [p \in Peers |-> <<>>]
  /\ end = [p \in Peers |-> "none"]
  /\ net = {} /\ noise = 0
  /\ attempts = [p \in Peers |-> 0]
  /\ heard = [p \in Peers |-> FALSE]
  /\ early = [p \in Peers |-> FALSE] /\ quiet = [p \in Peers |-> TRUE]

GoTo(p, label) == pc' = [pc EXCEPT ![p] = label]

\* The call begins.  A bad argument or peer, or a peer the context calls
\* unreachable, is refused without a socket.  The model's clock has room for
\* an overrun.
Begin(p) ==
  /\ pc[p] = "idle" /\ attempts[p] < MaxAttempts
  /\ attempts' = [attempts EXCEPT ![p] = @ + 1]
  /\ \E verdict \in {"refused", "none"}, timeout \in Timeouts, spelling \in Spellings :
       /\ end' = [end EXCEPT ![p] = verdict]
       /\ IF verdict = "none"
          THEN /\ now + timeout + Slop + Held < MaxNow
               /\ GoTo(p, "open")
               /\ deadline' = [deadline EXCEPT ![p] = IF timeout = 0 THEN 0 ELSE now + timeout]
               /\ given' = [given EXCEPT ![p] = spelling]
               /\ wake' = [wake EXCEPT ![p] = now]
          ELSE UNCHANGED <<pc, deadline, given, wake>>
  /\ UNCHANGED <<now, socket, net, noise>>

\* Every way out closes the socket.
Finish(p, verdict) ==
  /\ GoTo(p, "idle")
  /\ end' = [end EXCEPT ![p] = verdict]
  /\ mapping' = [mapping EXCEPT ![p] = "none"]
  /\ queue' = [queue EXCEPT ![p] = <<>>]
  /\ deadline' = [deadline EXCEPT ![p] = 0] /\ wake' = [wake EXCEPT ![p] = 0]
  /\ given' = [given EXCEPT ![p] = "canonical"]
  /\ heard' = [heard EXCEPT ![p] = FALSE]
  /\ early' = [early EXCEPT ![p] = FALSE] /\ quiet' = [quiet EXCEPT ![p] = TRUE]

\* Create and bind; either may be refused.
OpenSocket(p) ==
  /\ pc[p] = "open"
  /\ \/ Finish(p, "error")
     \/ GoTo(p, "send") /\ UNCHANGED <<deadline, given, wake, end, socket>>
  /\ UNCHANGED world

\* send_punch: the first one makes the NAT allocate a port.
SendFails(p) ==
  /\ pc[p] = "send"
  /\ Finish(p, "error")
  /\ UNCHANGED world

SendPunch(p) ==
  /\ pc[p] = "send"
  /\ \E where \in IF mapping[p] = "none" THEN {"as_told", "elsewhere"} ELSE {mapping[p]} :
       mapping' = [mapping EXCEPT ![p] = where]
  /\ net' = net \cup {p}
  /\ GoTo(p, "check")
  /\ UNCHANGED <<now, noise, attempts, deadline, given, wake, end, queue, heard, early, quiet>>

\* A datagram's source is spelled as inet_ntop does.
sockaddr_to_ep(ip) == <<ip, "canonical">>

\* A punch counts when its source, whatever the port, is the text the caller
\* gave: an IPv6 address may be spelled otherwise.
\* Fault: any sender's punch counts.
AnySender(p, d) == d.body = "XHOL"
FromPeer(p, d) == sockaddr_to_ep(d.ip) = <<Other(p), given[p]>> /\ d.body = "XHOL"

\* check_incoming: at most one datagram is taken from the queue.
CheckFails(p) ==
  /\ pc[p] = "check"
  /\ Finish(p, "error")
  /\ UNCHANGED world

CheckNothing(p) ==
  /\ pc[p] = "check"
  /\ queue[p] = <<>>
  /\ GoTo(p, "test")
  /\ UNCHANGED <<deadline, given, wake, end, socket, world>>

CheckDiscards(p) ==
  /\ pc[p] = "check"
  /\ queue[p] # <<>> /\ ~FromPeer(p, Head(queue[p]))
  /\ queue' = [queue EXCEPT ![p] = Tail(@)]
  /\ GoTo(p, "test")
  /\ UNCHANGED <<deadline, given, wake, end, mapping, heard, early, quiet, world>>

CheckGotPunch(p) ==
  /\ pc[p] = "check"
  /\ queue[p] # <<>> /\ FromPeer(p, Head(queue[p]))
  /\ Finish(p, "success")
  /\ UNCHANGED world

\* The deadline test, then a sleep of at most what is left.
\* Faults: a deadline slept past is missed; always a whole interval.
EqualOnly(p) == deadline[p] # 0 /\ now = deadline[p]
TimedOut(p) == deadline[p] # 0 /\ now >= deadline[p]
WholeNap(p) == Interval
Nap(p) ==
  IF deadline[p] # 0 /\ deadline[p] - now < Interval THEN deadline[p] - now ELSE Interval

GiveUp(p) ==
  /\ pc[p] = "test"
  /\ TimedOut(p)
  /\ Finish(p, "timeout")
  /\ UNCHANGED world

GoToSleep(p) ==
  /\ pc[p] = "test"
  /\ ~TimedOut(p)
  /\ wake' = [wake EXCEPT ![p] = now + Nap(p)]
  /\ GoTo(p, "sleep")
  /\ UNCHANGED <<deadline, given, end, socket, world>>

\* The loop sends and polls once more before it looks at the clock again.
\* Fault: it looks at the clock first.
TestFirst == "test"
AfterSleep == "send"

WakeUp(p) ==
  /\ pc[p] = "sleep"
  /\ now >= wake[p]
  /\ wake' = [wake EXCEPT ![p] = now]
  /\ GoTo(p, AfterSleep)
  /\ UNCHANGED <<deadline, given, end, socket, world>>

-----------------------------------------------------------------------------
(* The world.                                                              *)

Arrives(p, d) ==
  /\ Len(queue[p]) < QueueCap
  /\ queue' = [queue EXCEPT ![p] = Append(@, d)]
  /\ heard' = [heard EXCEPT ![p] = @ \/ (d.ip = Other(p) /\ d.body = "XHOL")]

\* A punch reaches the socket that is mapped where it was sent to; it may
\* arrive again later.
Deliver(p) ==
  /\ Other(p) \in net
  /\ mapping[p] = "as_told"
  /\ Arrives(p, [ip |-> Other(p), body |-> "XHOL"])
  /\ early' = [early EXCEPT ![p] = @ \/ now + Held < deadline[p]]
  /\ net' \in {net, net \ {Other(p)}}
  /\ UNCHANGED <<now, noise, attempts, pc, deadline, given, wake, end, mapping, quiet>>

Lose(p) ==
  /\ p \in net
  /\ net' = net \ {p}
  /\ UNCHANGED <<now, noise, attempts, pc, deadline, given, wake, end, socket>>

\* Someone else sends: a stranger where the NAT lets it in, or another host
\* at the peer's public address.
Noise(p) ==
  /\ noise < MaxNoise /\ mapping[p] # "none"
  /\ \E d \in Datagrams :
       /\ d.ip = Other(p) \/ (d.ip = "stranger" /\ p \in Open)
       /\ Arrives(p, d)
  /\ noise' = noise + 1
  /\ quiet' = [quiet EXCEPT ![p] = FALSE]
  /\ UNCHANGED <<now, net, attempts, pc, deadline, given, wake, end, mapping, early>>

\* How long a peer lets time pass.
Patience(p) == IF pc[p] = "sleep" THEN Slop ELSE Held

Tick ==
  /\ now < MaxNow
  /\ \A p \in Peers : pc[p] = "idle" \/ now < wake[p] + Patience(p)
  /\ now' = now + 1
  /\ UNCHANGED <<net, noise, attempts, pc, deadline, given, wake, end, socket>>

\* The model's clock has run out.
Stop == now = MaxNow /\ UNCHANGED vars

Run(p) == \/ OpenSocket(p) \/ SendFails(p) \/ SendPunch(p)
          \/ CheckFails(p) \/ CheckNothing(p) \/ CheckDiscards(p) \/ CheckGotPunch(p)
          \/ GiveUp(p) \/ GoToSleep(p) \/ WakeUp(p)

Next == \/ \E p \in Peers : Begin(p) \/ Run(p) \/ Deliver(p) \/ Lose(p) \/ Noise(p)
        \/ Tick \/ Stop

\* A running thread runs on, and time passes; nothing is assumed of the net.
Spec == Init /\ [][Next]_vars /\ WF_vars(Tick) /\ \A p \in Peers : WF_vars(Run(p))
-----------------------------------------------------------------------------
Verdicts == {"none", "refused", "error", "timeout", "success"}

TypeOK ==
  /\ now \in 0..MaxNow
  /\ pc \in [Peers -> {"idle", "open", "send", "check", "test", "sleep"}]
  /\ deadline \in [Peers -> Nat] /\ wake \in [Peers -> Nat]
  /\ given \in [Peers -> Spellings]
  /\ mapping \in [Peers -> Mappings]
  /\ queue \in [Peers -> Seq(Datagrams)]
  /\ end \in [Peers -> Verdicts]
  /\ net \subseteq Peers
  /\ attempts \in [Peers -> Nat] /\ noise \in Nat
  /\ \A p \in Peers : pc[p] \in {"idle", "open"} => mapping[p] = "none" /\ queue[p] = <<>>
  /\ heard \in [Peers -> BOOLEAN]
  /\ early \in [Peers -> BOOLEAN] /\ quiet \in [Peers -> BOOLEAN]

\* Success is mutual contact, not luck: the attempt itself has punched (its
\* socket is mapped), and a punch from the peer's address has reached it.
Ends(p, verdict) == end[p] = "none" /\ end'[p] = verdict

SuccessIsHeard ==
  [][\A p \in Peers : Ends(p, "success") => mapping[p] # "none" /\ heard[p]]_vars

\* A punch that reached the socket before the deadline, by as much as a round
\* may take, is never overlooked: a round polls before it looks at the clock.
\* So such an attempt does not time out, unless others crowd the queue or the
\* caller has spelled the peer's address otherwise than the system does.
PunctualPunchWins ==
  [][\A p \in Peers :
       Ends(p, "timeout") /\ quiet[p] /\ given[p] = "canonical" => ~early[p]]_vars

\* weapon_ops.h: the budget is an upper bound.  A running attempt outlives
\* its deadline by no more than one late wake-up and the round it wakes to.
Late == Slop + Held
EndsOnTime ==
  \A p \in Peers : pc[p] # "idle" /\ deadline[p] # 0 => now <= deadline[p] + Late

\* An attempt with a deadline ends.
Terminates ==
  \A p \in Peers : (pc[p] = "open" /\ deadline[p] # 0) ~> pc[p] = "idle"

\* The attempts of either peer are calls of WeaponPromise; the evidence is a
\* punch from the other's address.
Promise(p) == INSTANCE WeaponPromise WITH
  Budgets  <- {t + Late : t \in Timeouts \ {0}} \cup {-1},
  clock    <- now,
  running  <- pc[p] # "idle",
  left     <- IF pc[p] = "idle" THEN 0
              ELSE IF deadline[p] = 0 THEN -1 ELSE deadline[p] + Late - now,
  evidence <- heard[p],
  won      <- end[p] = "success"

KeepsPromise ==
  /\ \A p \in Peers : Promise(p)!Init
  /\ [][\A p \in Peers : [Promise(p)!Next]_(Promise(p)!promiseVars)]_vars
=============================================================================

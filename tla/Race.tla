-------------------------------- MODULE Race --------------------------------
(***************************************************************************)
(* xury_blitz_race (src/blitz/race.c): one call of the sequential race.    *)
(* A strategy is a list of weapons; each applicable one is called in turn  *)
(* with whatever is left of the caller's budget, its answer is recorded,   *)
(* and the first that works wins.                                          *)
(*                                                                         *)
(* A weapon is its contract (src/weapons/internal/weapon_ops.h): it runs   *)
(* for some time, then returns an error code and a success flag.  How long *)
(* it may run is what its source says: ipv6, hole and predict stop at      *)
(* ctx->timeout_ms, upnp, natpmp and pcp run on limits of their own, and   *)
(* five catalog entries have no implementation.  Time passes only inside a *)
(* weapon or the advisor; Overhead stands for the rest.                    *)
(***************************************************************************)
EXTENDS Weapon, Integers, Sequences

CONSTANTS Contexts,       \* the network contexts a call may be given
          MaxTimeout,     \* the largest state->timeout_ms considered
          MaxAttempts,    \* XURY_BLITZ_MAX_ATTEMPTS
          OwnLimit,       \* how long upnp/natpmp/pcp run, whatever the budget
          Overhead,       \* what a weapon adds to the timeout it honours
          AdvisorLimit    \* how long the advisor takes to answer

\* The strategy catalog (strategy_by_id knows these two).
Strategies == {"PRIORITY_ORDER", "TRAVERSAL_ONLY"}

\* Fault: the traversal strategy lists its two weapons the wrong way round.
StepsSwapped(s) ==
  IF s = "PRIORITY_ORDER"
  THEN <<"IPV6", "LAN", "UPNP", "NATPMP", "PCP", "HOLE", "PREDICT",
         "MIRROR", "RELAY", "UPGRADE", "BIRTHDAY">>
  ELSE <<"PREDICT", "HOLE">>

\* steps[] of the two entries of the strategy catalog.
Steps(s) ==
  IF s = "PRIORITY_ORDER"
  THEN <<"IPV6", "LAN", "UPNP", "NATPMP", "PCP", "HOLE", "PREDICT",
         "MIRROR", "RELAY", "UPGRADE", "BIRTHDAY">>
  ELSE <<"HOLE", "PREDICT">>

MaxSteps == 11

Unlimited == {"UPNP", "NATPMP", "PCP"}       \* ignore ctx->timeout_ms
Missing   == {"LAN", "MIRROR", "RELAY", "UPGRADE", "BIRTHDAY"}

ASSUME RaceAssumption ==
  /\ Contexts \subseteq Context
  /\ MaxTimeout \in Nat \ {0}
  /\ MaxAttempts \in Nat /\ MaxAttempts >= MaxSteps
  /\ OwnLimit \in [Unlimited -> Nat]
  /\ Overhead \in Nat
  /\ AdvisorLimit \in Nat

VARIABLES
  pc,        \* "call", "advise", "step", "weapon", "record", "done"
  state,     \* the caller's request: peer usable?, ctx, timeout, advisor?
  now,       \* xury_platform_time_ms(); the call starts at 0, so t0 = 0
  strategy,  \* the selected strategy
  step,      \* index of the next step, from 1
  actx,      \* the running attempt: weapon, timeout given, start time
  wres,      \* what the weapon returned: error code and success
  history,   \* the attempt records
  stop,      \* out->stop_reason, "NONE" until it is set
  winner,    \* out->winner
  rc         \* the return code, "NONE" until the call returns

vars == <<pc, state, now, strategy, step, actx, wres, history, stop, winner, rc>>

deadline_ms == state.timeout
mask == ApplicableMask(state.ctx)
NoAttempt == [weapon |-> NoWeapon, timeout |-> 0, started |-> 0]
NoResult == [err |-> "NONE", success |-> FALSE]

\* The budget check at the top of the loop.  Fault: it is left out.
AlwaysInBudget == TRUE
InBudget == now < deadline_ms

\* The latest moment the running weapon can return.
WeaponLimit(a) ==
  CASE a.weapon \in Missing   -> a.started
    [] a.weapon \in Unlimited -> a.started + OwnLimit[a.weapon]
    [] OTHER                  -> a.started + a.timeout + Overhead

\* What is left for the next weapon; the clip to 32 bits never bites, since
\* the timeout itself is a 32-bit number.  Fault: the whole timeout.
WholeTimeout == state.timeout
GivenTimeout == deadline_ms - now

\* Fault: the loop goes round without moving on.
SameStep == step
NextStep == step + 1

\* history_contains_state: the same (strategy, step, weapon) was visited.
\* Fault: the strategy alone is compared.
VisitedStrategy(w) == Len(history) > 0
Visited(w) == \E i \in 1..Len(history) :
  /\ history[i].step = step
  /\ history[i].weapon = w

Init ==
  /\ pc = "call"
  /\ state \in [peer_ok : BOOLEAN, ctx : Contexts, timeout : 0..MaxTimeout,
                advisor : BOOLEAN]
  /\ now = 0
  /\ strategy = "NONE"
  /\ step = 1
  /\ actx = NoAttempt
  /\ wres = NoResult
  /\ history = <<>>
  /\ stop = "NONE"
  /\ winner = NoWeapon
  /\ rc = "NONE"

\* Argument validation: an unusable peer or a zero timeout is INVAL.
Validate ==
  /\ pc = "call"
  /\ IF state.peer_ok /\ state.timeout # 0
     THEN pc' = "advise" /\ rc' = rc
     ELSE pc' = "done" /\ rc' = "INVAL"
  /\ UNCHANGED <<state, now, strategy, step, actx, wres, history, stop, winner>>

\* The advisor thinks; the budget is already running.
AdvisorRuns ==
  /\ pc = "advise" /\ state.advisor
  /\ now < AdvisorLimit
  /\ now' = now + 1
  /\ UNCHANGED <<pc, state, strategy, step, actx, wres, history, stop, winner, rc>>

\* select_initial_strategy: the advisor's answer when it names a known
\* strategy; priority_order on an error, an unknown id, or without advisor.
Selectable == IF state.advisor THEN Strategies ELSE {"PRIORITY_ORDER"}

SelectStrategy ==
  /\ pc = "advise"
  /\ strategy' \in Selectable
  /\ pc' = "step"
  /\ UNCHANGED <<state, now, step, actx, wres, history, stop, winner, rc>>

\* Leaving the call through the label done.
Return(reason) ==
  /\ pc' = "done" /\ stop' = reason /\ rc' = "OK"
  /\ UNCHANGED <<state, now, strategy, step, actx, wres, history>>

\* The loop ran off the end of the strategy.
Exhausted ==
  /\ pc = "step"
  /\ step > Len(Steps(strategy))
  /\ Return("ALL_EXHAUSTED")
  /\ UNCHANGED winner

\* The budget check comes before the applicability check.
OutOfBudget ==
  /\ pc = "step"
  /\ step <= Len(Steps(strategy))
  /\ ~InBudget
  /\ Return("BUDGET")
  /\ UNCHANGED winner

SkipStep ==
  /\ pc = "step"
  /\ step <= Len(Steps(strategy))
  /\ InBudget
  /\ Steps(strategy)[step] \notin mask
  /\ step' = NextStep
  /\ UNCHANGED <<pc, state, now, strategy, actx, wres, history, stop, winner, rc>>

\* The loop detector, then the call with the whole remaining budget.
CallWeapon ==
  /\ pc = "step"
  /\ step <= Len(Steps(strategy))
  /\ InBudget
  /\ Steps(strategy)[step] \in mask
  /\ IF Visited(Steps(strategy)[step])
     THEN Return("LOOP_DETECTED")
     ELSE /\ actx' = [weapon |-> Steps(strategy)[step],
                      timeout |-> GivenTimeout, started |-> now]
          /\ pc' = "weapon"
          /\ UNCHANGED <<state, now, strategy, step, wres, history, stop, rc>>
  /\ UNCHANGED winner

WeaponRuns ==
  /\ pc = "weapon"
  /\ now < WeaponLimit(actx)
  /\ now' = now + 1
  /\ UNCHANGED <<pc, state, strategy, step, actx, wres, history, stop, winner, rc>>

\* An implemented weapon answers success, failure, or a platform error.
WeaponReturns ==
  /\ pc = "weapon"
  /\ wres' \in IF actx.weapon \in Missing
               THEN {[err |-> "NOT_IMPLEMENTED", success |-> FALSE]}
               ELSE {[err |-> "OK", success |-> TRUE], [err |-> "OK", success |-> FALSE],
                     [err |-> "PLATFORM", success |-> FALSE]}
  /\ pc' = "record"
  /\ UNCHANGED <<state, now, strategy, step, actx, history, stop, winner, rc>>

Won(r) == r.err = "OK" /\ r.success

\* The test that ends the race.  Fault: a win after the deadline is a failure.
WinsInTime == Won(wres) /\ now < deadline_ms
Wins == Won(wres)

\* history_append's record of the attempt.
Attempt == [step |-> step, weapon |-> actx.weapon, err |-> wres.err,
            success |-> wres.success, started |-> actx.started]

\* A working weapon ends the race; anything else moves to the next step.
Win ==
  /\ pc' = "done" /\ stop' = "SUCCESS" /\ rc' = "OK"
  /\ winner' = actx.weapon
  /\ step' = step
MoveOn ==
  /\ pc' = "step"
  /\ step' = NextStep
  /\ UNCHANGED <<stop, winner, rc>>

\* history_append, then the interpretation of the result.
Record ==
  /\ pc = "record"
  /\ IF Len(history) >= MaxAttempts
     THEN Return("HISTORY_FULL") /\ UNCHANGED winner
     ELSE /\ history' = Append(history, Attempt)
          /\ IF Wins THEN Win ELSE MoveOn
          /\ UNCHANGED <<state, now, strategy, actx, wres>>

Done == pc = "done" /\ UNCHANGED vars

Next == \/ Validate \/ AdvisorRuns \/ SelectStrategy
        \/ Exhausted \/ OutOfBudget \/ SkipStep \/ CallWeapon
        \/ WeaponRuns \/ WeaponReturns \/ Record
        \/ Done

\* The call runs on one thread that is scheduled, and both waits are bounded,
\* so the thread's next step always comes.
Spec == Init /\ [][Next]_vars /\ WF_vars(Next)
-----------------------------------------------------------------------------
Errors == {"OK", "PLATFORM", "NOT_IMPLEMENTED"}
Records == [step : 1..MaxSteps, weapon : Weapons, err : Errors,
            success : BOOLEAN, started : Nat]

TypeOK ==
  /\ pc \in {"call", "advise", "step", "weapon", "record", "done"}
  /\ state \in [peer_ok : BOOLEAN, ctx : Contexts, timeout : 0..MaxTimeout,
                advisor : BOOLEAN]
  /\ now \in Nat
  /\ strategy \in Strategies \cup {"NONE"}
  /\ step \in 1..(MaxSteps + 1)
  /\ actx \in [weapon : Weapons \cup {NoWeapon}, timeout : Nat, started : Nat]
  /\ wres \in [err : Errors \cup {"NONE"}, success : BOOLEAN]
  /\ history \in Seq(Records)
  /\ stop \in {"NONE", "SUCCESS", "BUDGET", "LOOP_DETECTED", "HISTORY_FULL",
               "ALL_EXHAUSTED"}
  /\ winner \in Weapons \cup {NoWeapon}
  /\ rc \in {"NONE", "OK", "INVAL"}

\* A weapon never gets timeout 0, which ipv6, hole and predict read as "wait
\* forever", and never more than what is left before the deadline.
BudgetHandedDown ==
  pc \in {"weapon", "record"} =>
    /\ actx.timeout > 0
    /\ actx.started + actx.timeout = deadline_ms

\* Every applicable weapon of the strategy before the current step has been
\* tried, and a race that gives up with budget left has gone through them all:
\* the loop detector and the full history never cut it short.
NoneSkipped ==
  strategy # "NONE" =>
    /\ \A k \in 1..(step - 1) :
         Steps(strategy)[k] \in mask <=>
           \E i \in 1..Len(history) : history[i].step = k
    /\ pc = "done" /\ stop \notin {"SUCCESS", "BUDGET"} =>
         stop = "ALL_EXHAUSTED" /\ step > Len(Steps(strategy))

\* The call overruns its deadline by at most one weapon: the longest of the
\* limits a weapon sets itself, the overhead, and the advisor's answer.
Limit == {OwnLimit[w] : w \in Unlimited} \cup {Overhead, AdvisorLimit}
OverrunLimit == CHOOSE m \in Limit : \A n \in Limit : n <= m

OverrunBounded == now <= deadline_ms + OverrunLimit

\* A weapon that worked is never thrown away: the step that handles its
\* answer ends the race with it.
WinIsKept ==
  [][pc = "record" /\ Won(wres) => stop' = "SUCCESS" /\ winner' = actx.weapon]_vars

\* The call returns.
Termination == <>(pc = "done")

\* Every execution is one of RacePromise: the weapons in the history have
\* been tried, the stop reason is the verdict.
Promise == INSTANCE RacePromise WITH
  usable  <- mask,
  tried   <- {history[i].weapon : i \in 1..Len(history)},
  verdict <- IF pc # "done" THEN "open"
             ELSE IF stop = "SUCCESS" THEN winner ELSE "none"

KeepsPromise == Promise!Spec

-----------------------------------------------------------------------------
(* The inductive invariant of the proofs: which phase sets which variable, *)
(* how the history mirrors the steps walked, and how far the clock is.     *)

Phase ==
  /\ pc \in {"call", "advise"} => strategy = "NONE" /\ step = 1
  /\ pc \in {"step", "weapon", "record"} => strategy \in Strategies
  /\ pc = "record" => wres.err \in Errors
  /\ pc # "done" => stop = "NONE" /\ winner = NoWeapon /\ rc = "NONE"
  /\ strategy = "NONE" => history = <<>> /\ stop = "NONE" /\ winner = NoWeapon

Position ==
  strategy \in Strategies =>
    /\ step <= Len(Steps(strategy)) + 1
    /\ pc \in {"weapon", "record"} =>
         step <= Len(Steps(strategy)) /\ actx.weapon = Steps(strategy)[step]
         /\ actx.weapon \in mask
    /\ pc # "done" => Len(history) < step
    /\ \A i \in 1..Len(history) :
         /\ history[i].step \in 1..Len(Steps(strategy))
         /\ pc # "done" => history[i].step < step
         /\ history[i].weapon = Steps(strategy)[history[i].step]
         /\ history[i].weapon \in mask

Clock ==
  /\ pc = "call" => now = 0
  /\ pc = "advise" => now <= AdvisorLimit
  /\ pc \in {"weapon", "record"} =>
       now <= WeaponLimit(actx) /\ actx.started < deadline_ms
  /\ OverrunBounded

IInv == TypeOK /\ Phase /\ Position /\ Clock /\ BudgetHandedDown /\ NoneSkipped
=============================================================================

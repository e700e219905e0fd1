---------------------------- MODULE EngineProofs ----------------------------
(***************************************************************************)
(* Proofs about what runs on the engine's thread: the race and the hooks.  *)
(* Of Race, for all contexts, timeouts and limits: its type invariant, its *)
(* inductive invariant, the safety properties the runs check, and that it  *)
(* implements RacePromise.  Of Hooks, for every set of workers, every      *)
(* setup and every depth: the flag never stays up without a holder, and    *)
(* what the guard is worth on an engine without workers.                   *)
(***************************************************************************)
EXTENDS Race, Hooks, FiniteSetTheorems, SequenceTheorems, TLAPS


-----------------------------------------------------------------------------
(* The strategy catalog. *)

\* Both strategies are short lists of weapons.
LEMMA StepsType ==
  \A s \in Strategies : /\ Steps(s) \in Seq(Weapons)
                        /\ Len(Steps(s)) \in 2..MaxSteps
<1>1. Steps("PRIORITY_ORDER") \in Seq(Weapons) /\ Len(Steps("PRIORITY_ORDER")) = 11
  BY DEF Steps, Weapons
<1>2. Steps("TRAVERSAL_ONLY") \in Seq(Weapons) /\ Len(Steps("TRAVERSAL_ONLY")) = 2
  BY DEF Steps, Weapons
<1> QED BY <1>1, <1>2 DEF Strategies, MaxSteps

\* A step of a strategy, and the one after it, are in range.
LEMMA StepRange ==
  \A l \in 2..MaxSteps, n \in Nat :
    1 <= n /\ n <= l => n \in 1..MaxSteps /\ n + 1 \in 1..(MaxSteps + 1)
  BY DEF MaxSteps

\* Priorities are natural numbers.
LEMMA PriorityType == \A w \in Weapons : Priority[w] \in 1..11
  BY DEF Weapons, Priority

\* A strategy never goes back to a weapon of a better priority: race.c's lists
\* and api/weapon.c's table agree.
LEMMA StepsSorted ==
  ASSUME NEW s \in Strategies,
         NEW i \in 1..Len(Steps(s)), NEW j \in 1..Len(Steps(s)), i < j
  PROVE  Priority[Steps(s)[i]] < Priority[Steps(s)[j]]
<1>1. CASE s = "PRIORITY_ORDER"
  <2>1. \A k \in 1..11 : Steps(s)[k] \in Weapons /\ Priority[Steps(s)[k]] = k
    BY <1>1 DEF Steps, Priority, Weapons
  <2>2. Len(Steps(s)) = 11
    BY <1>1 DEF Steps
  <2> QED BY <2>1, <2>2
<1>2. CASE s = "TRAVERSAL_ONLY"
  <2>1. Len(Steps(s)) = 2 /\ Steps(s)[1] = "HOLE" /\ Steps(s)[2] = "PREDICT"
    BY <1>2 DEF Steps
  <2>2. Priority["HOLE"] = 6 /\ Priority["PREDICT"] = 7
    BY DEF Priority, Weapons
  <2>3. i = 1 /\ j = 2
    BY <2>1
  <2> QED BY <2>1, <2>2, <2>3
<1> QED BY <1>1, <1>2 DEF Strategies

-----------------------------------------------------------------------------
(* The overrun limit is the largest of its five parts. *)
LEMMA OverrunLimitIsMax ==
  /\ OverrunLimit \in Nat
  /\ Overhead <= OverrunLimit
  /\ AdvisorLimit <= OverrunLimit
  /\ \A w \in Unlimited : OwnLimit[w] <= OverrunLimit
<1>1. Limit = {OwnLimit["UPNP"], OwnLimit["NATPMP"], OwnLimit["PCP"],
               Overhead, AdvisorLimit}
  BY DEF Limit, Unlimited
<1>2. /\ OwnLimit["UPNP"] \in Nat /\ OwnLimit["NATPMP"] \in Nat
      /\ OwnLimit["PCP"] \in Nat /\ Overhead \in Nat /\ AdvisorLimit \in Nat
  BY RaceAssumption DEF Unlimited
<1>3. \E m \in Limit : \A n \in Limit : n <= m
  <2> DEFINE Larger(a, b) == IF a <= b THEN b ELSE a
  <2> DEFINE m1 == Larger(OwnLimit["UPNP"], OwnLimit["NATPMP"])
             m2 == Larger(OwnLimit["PCP"], Overhead)
             m3 == Larger(Larger(m1, m2), AdvisorLimit)
  <2>1. m3 \in Limit /\ \A n \in Limit : n <= m3
    BY <1>1, <1>2
  <2> QED BY <2>1
<1>4. OverrunLimit \in Limit /\ \A n \in Limit : n <= OverrunLimit
  BY <1>3 DEF OverrunLimit
<1> QED BY <1>1, <1>2, <1>4 DEF Limit, Unlimited

-----------------------------------------------------------------------------
(* The inductive invariant. *)

LEMMA InitIInv == Init => IInv
<1> SUFFICES ASSUME Init PROVE IInv
  OBVIOUS
<1>1. TypeOK
  BY RaceAssumption DEF Init, TypeOK, NoAttempt, NoResult, MaxSteps, NoWeapon
<1>2. Phase /\ Position /\ BudgetHandedDown /\ NoneSkipped
  BY DEF Init, Phase, Position, BudgetHandedDown, NoneSkipped, Strategies
<1>3. Clock
  BY <1>1, OverrunLimitIsMax, RaceAssumption
     DEF Init, TypeOK, Clock, OverrunBounded, deadline_ms
<1> QED BY <1>1, <1>2, <1>3 DEF IInv

\* The clock never passes the limit of the running weapon, and that limit is
\* within the overrun allowed.
LEMMA LimitWithinOverrun ==
  ASSUME TypeOK, Clock, BudgetHandedDown, pc \in {"weapon", "record"}
  PROVE  /\ WeaponLimit(actx) \in Nat
         /\ WeaponLimit(actx) <= deadline_ms + OverrunLimit
<1>1. /\ actx.started \in Nat /\ actx.timeout \in Nat /\ deadline_ms \in Nat
      /\ actx.started < deadline_ms /\ actx.started + actx.timeout = deadline_ms
  BY RaceAssumption DEF TypeOK, Clock, BudgetHandedDown, deadline_ms
<1>2. CASE actx.weapon \in Missing
  BY <1>1, <1>2, OverrunLimitIsMax DEF WeaponLimit, Missing, Unlimited
<1>3. CASE actx.weapon \in Unlimited
  BY <1>1, <1>3, OverrunLimitIsMax, RaceAssumption DEF WeaponLimit, Missing, Unlimited
<1>4. CASE actx.weapon \notin Missing \cup Unlimited
  BY <1>1, <1>4, OverrunLimitIsMax, RaceAssumption DEF WeaponLimit
<1> QED BY <1>2, <1>3, <1>4

LEMMA ValidateStep == IInv /\ Validate => IInv'
<1> SUFFICES ASSUME IInv, Validate PROVE IInv'
  OBVIOUS
<1>1. TypeOK'
  BY DEF IInv, Validate, TypeOK
<1>2. Phase' /\ Position'
  BY DEF IInv, Validate, Phase, Position, Strategies
<1>3. Clock'
  BY RaceAssumption DEF IInv, Validate, TypeOK, Clock, OverrunBounded, deadline_ms
<1>4. BudgetHandedDown' /\ NoneSkipped'
  BY DEF IInv, Validate, BudgetHandedDown, NoneSkipped, Phase
<1> QED BY <1>1, <1>2, <1>3, <1>4 DEF IInv

LEMMA AdvisorRunsStep == IInv /\ AdvisorRuns => IInv'
<1> SUFFICES ASSUME IInv, AdvisorRuns PROVE IInv'
  OBVIOUS
<1>1. TypeOK'
  BY DEF IInv, AdvisorRuns, TypeOK
<1>2. Phase' /\ Position'
  BY DEF IInv, AdvisorRuns, Phase, Position, Strategies
<1>3. Clock'
  BY OverrunLimitIsMax, RaceAssumption
     DEF IInv, AdvisorRuns, TypeOK, Clock, OverrunBounded, deadline_ms
<1>4. BudgetHandedDown' /\ NoneSkipped'
  BY DEF IInv, AdvisorRuns, BudgetHandedDown, NoneSkipped, Phase
<1> QED BY <1>1, <1>2, <1>3, <1>4 DEF IInv

LEMMA SelectStrategyStep == IInv /\ SelectStrategy => IInv'
<1> SUFFICES ASSUME IInv, SelectStrategy PROVE IInv'
  OBVIOUS
<1>0. strategy' \in Strategies /\ history = <<>> /\ step = 1
  BY DEF IInv, Phase, SelectStrategy, Selectable, Strategies
<1>1. TypeOK'
  BY <1>0 DEF IInv, SelectStrategy, TypeOK
<1>2. Phase' /\ Position'
  BY <1>0, StepsType DEF IInv, SelectStrategy, Phase, Position, Strategies
<1>3. Clock'
  BY DEF IInv, SelectStrategy, Clock, OverrunBounded, deadline_ms
<1>4. BudgetHandedDown' /\ NoneSkipped'
  BY <1>0 DEF IInv, SelectStrategy, BudgetHandedDown, NoneSkipped
<1> QED BY <1>1, <1>2, <1>3, <1>4 DEF IInv

\* The two ways off the loop without an attempt.
LEMMA StopStep == IInv /\ (Exhausted \/ OutOfBudget) => IInv'
<1> SUFFICES ASSUME IInv, Exhausted \/ OutOfBudget PROVE IInv'
  OBVIOUS
<1>0. /\ pc = "step" /\ pc' = "done" /\ rc' = "OK"
      /\ UNCHANGED <<state, now, strategy, step, actx, wres, history, winner>>
      /\ \/ stop' = "BUDGET"
         \/ stop' = "ALL_EXHAUSTED" /\ step > Len(Steps(strategy))
  BY DEF Exhausted, OutOfBudget, Return
<1>1. TypeOK'
  BY <1>0 DEF IInv, TypeOK
<1>2. Phase' /\ Position'
  BY <1>0 DEF IInv, Phase, Position, Strategies, mask
<1>3. Clock'
  BY <1>0 DEF IInv, Clock, OverrunBounded, deadline_ms
<1>4. BudgetHandedDown' /\ NoneSkipped'
  BY <1>0 DEF IInv, BudgetHandedDown, NoneSkipped, mask
<1> QED BY <1>1, <1>2, <1>3, <1>4 DEF IInv

LEMMA SkipStepStep == IInv /\ SkipStep => IInv'
<1> SUFFICES ASSUME IInv, SkipStep PROVE IInv'
  OBVIOUS
<1>0. /\ pc = "step" /\ strategy \in Strategies /\ step \in Nat
      /\ step' = step + 1 /\ step <= Len(Steps(strategy))
      /\ Steps(strategy)[step] \notin mask
      /\ UNCHANGED <<pc, state, now, strategy, actx, wres, history, stop, winner, rc>>
  BY DEF IInv, TypeOK, Phase, SkipStep, NextStep
<1>a. Len(Steps(strategy)) \in 2..MaxSteps
  BY <1>0, StepsType
<1>b. \A i \in 1..Len(history) : history[i].step \in Nat /\ history[i].step < step
  BY <1>0, <1>a DEF IInv, Position, MaxSteps
<1>c. step' \in 1..(MaxSteps + 1)
  <2>1. 1 <= step
    BY DEF IInv, TypeOK
  <2> QED BY <1>0, <1>a, <2>1, StepRange, Zenon
<1>1. TypeOK'
  BY <1>0, <1>c DEF IInv, TypeOK
<1>2. Phase' /\ Position'
  <2>1. Phase'
    BY <1>0, <1>a DEF IInv, TypeOK, Phase, Strategies, mask, MaxSteps
  <2>2. Position'
    BY <1>0, <1>a, <1>b DEF IInv, TypeOK, Position, mask, MaxSteps
  <2> QED BY <2>1, <2>2
<1>3. Clock'
  BY <1>0 DEF IInv, Clock, OverrunBounded, deadline_ms
<1>4. BudgetHandedDown' /\ NoneSkipped'
  <2>1. BudgetHandedDown'
    BY <1>0 DEF IInv, BudgetHandedDown
  <2>2. NoneSkipped'
    BY <1>0, <1>b DEF IInv, NoneSkipped, mask
  <2> QED BY <2>1, <2>2
<1> QED BY <1>1, <1>2, <1>3, <1>4 DEF IInv

\* The loop detector never fires: recorded steps are behind the current one.
LEMMA NotVisited ==
  ASSUME IInv, pc = "step"
  PROVE  ~Visited(Steps(strategy)[step])
<1>1. step \in Nat /\ strategy \in Strategies
  BY DEF IInv, TypeOK, Phase
<1>2. \A i \in 1..Len(history) : history[i].step # step
  BY <1>1, StepsType DEF IInv, Position, MaxSteps
<1> QED BY <1>2 DEF Visited

LEMMA CallWeaponStep == IInv /\ CallWeapon => IInv'
<1> SUFFICES ASSUME IInv, CallWeapon PROVE IInv'
  OBVIOUS
<1>0. /\ pc = "step" /\ pc' = "weapon" /\ strategy \in Strategies
      /\ step \in Nat /\ step <= Len(Steps(strategy))
      /\ Steps(strategy)[step] \in mask
      /\ now < deadline_ms
      /\ actx' = [weapon |-> Steps(strategy)[step],
                  timeout |-> deadline_ms - now, started |-> now]
      /\ UNCHANGED <<state, now, strategy, step, wres, history, stop, winner, rc>>
  BY NotVisited DEF IInv, TypeOK, Phase, CallWeapon, InBudget, GivenTimeout
<1>a. Steps(strategy)[step] \in Weapons
  BY <1>0 DEF mask, ApplicableMask
<1>b. now \in Nat /\ deadline_ms \in Nat
  BY RaceAssumption DEF IInv, TypeOK, deadline_ms
<1>1. TypeOK'
  BY <1>0, <1>a, <1>b DEF IInv, TypeOK
<1>2. Phase' /\ Position'
  BY <1>0 DEF IInv, Phase, Position, Strategies, mask
<1>3. BudgetHandedDown' /\ NoneSkipped'
  BY <1>0, <1>b DEF IInv, BudgetHandedDown, NoneSkipped, mask, deadline_ms
<1>4. now' <= WeaponLimit(actx)'
  <2>1. actx'.started = now /\ actx'.timeout \in Nat
    BY <1>0, <1>b
  <2> QED BY <2>1, <1>0, <1>b, RaceAssumption DEF WeaponLimit, Unlimited, Missing
<1>5. Clock'
  BY <1>0, <1>4 DEF IInv, Clock, OverrunBounded, deadline_ms
<1> QED BY <1>1, <1>2, <1>3, <1>5 DEF IInv

LEMMA WeaponRunsStep == IInv /\ WeaponRuns => IInv'
<1> SUFFICES ASSUME IInv, WeaponRuns PROVE IInv'
  OBVIOUS
<1>0. /\ pc = "weapon" /\ now < WeaponLimit(actx) /\ now' = now + 1 /\ now \in Nat
      /\ UNCHANGED <<pc, state, strategy, step, actx, wres, history, stop, winner, rc>>
  BY DEF IInv, TypeOK, WeaponRuns
<1>1. TypeOK'
  BY <1>0 DEF IInv, TypeOK
<1>2. Phase' /\ Position'
  BY <1>0 DEF IInv, Phase, Position, Strategies, mask
<1>3. BudgetHandedDown' /\ NoneSkipped'
  BY <1>0 DEF IInv, BudgetHandedDown, NoneSkipped, mask, deadline_ms
<1>4. WeaponLimit(actx) \in Nat /\ WeaponLimit(actx) <= deadline_ms + OverrunLimit
  BY <1>0, LimitWithinOverrun DEF IInv
<1>5. deadline_ms + OverrunLimit \in Nat
  BY OverrunLimitIsMax, RaceAssumption DEF IInv, TypeOK, deadline_ms
<1>6. WeaponLimit(actx)' = WeaponLimit(actx)
  BY <1>0 DEF WeaponLimit
<1>7. Clock'
  BY <1>0, <1>4, <1>5, <1>6 DEF IInv, Clock, OverrunBounded, deadline_ms
<1> QED BY <1>1, <1>2, <1>3, <1>7 DEF IInv

LEMMA WeaponReturnsStep == IInv /\ WeaponReturns => IInv'
<1> SUFFICES ASSUME IInv, WeaponReturns PROVE IInv'
  OBVIOUS
<1>0. /\ pc = "weapon" /\ pc' = "record"
      /\ wres' \in [err : Errors, success : BOOLEAN]
      /\ UNCHANGED <<state, now, strategy, step, actx, history, stop, winner, rc>>
  <2>1. wres' \in {[err |-> "NOT_IMPLEMENTED", success |-> FALSE],
                   [err |-> "OK", success |-> TRUE], [err |-> "OK", success |-> FALSE],
                   [err |-> "PLATFORM", success |-> FALSE]}
    BY Zenon DEF WeaponReturns
  <2>2. wres' \in [err : Errors, success : BOOLEAN]
    <3>1. \A e \in Errors, b \in BOOLEAN :
            [err |-> e, success |-> b] \in [err : Errors, success : BOOLEAN]
      OBVIOUS
    <3>2. /\ "NOT_IMPLEMENTED" \in Errors /\ "OK" \in Errors /\ "PLATFORM" \in Errors
          /\ TRUE \in BOOLEAN /\ FALSE \in BOOLEAN
      BY DEF Errors
    <3> QED BY <2>1, <3>1, <3>2, Zenon
  <2> QED BY <2>2 DEF WeaponReturns
<1>1. TypeOK'
  BY <1>0 DEF IInv, TypeOK
<1>2. Phase' /\ Position'
  BY <1>0 DEF IInv, Phase, Position, Strategies, mask
<1>3. BudgetHandedDown' /\ NoneSkipped'
  BY <1>0 DEF IInv, BudgetHandedDown, NoneSkipped, mask, deadline_ms
<1>4. Clock'
  BY <1>0 DEF IInv, Clock, OverrunBounded, deadline_ms, WeaponLimit
<1> QED BY <1>1, <1>2, <1>3, <1>4 DEF IInv

\* There is always room for the record, and it names the current step.
LEMMA RecordAppends ==
  ASSUME IInv, Record
  PROVE  /\ pc = "record" /\ strategy \in Strategies
         /\ step \in 1..MaxSteps
         /\ step \in 1..Len(Steps(strategy)) /\ Len(Steps(strategy)) \in 2..MaxSteps
         /\ actx.weapon = Steps(strategy)[step] /\ actx.weapon \in mask
         /\ Attempt \in Records
         /\ history' = Append(history, Attempt)
         /\ Len(history') = Len(history) + 1 /\ Len(history) \in Nat
         /\ \A i \in 1..Len(history) : history'[i] = history[i]
         /\ history'[Len(history) + 1] = Attempt
         /\ IF Wins THEN Win ELSE MoveOn
         /\ UNCHANGED <<state, now, strategy, actx, wres>>
<1>1. /\ pc = "record" /\ strategy \in Strategies
      /\ step \in Nat \ {0} /\ step <= Len(Steps(strategy))
      /\ actx.weapon = Steps(strategy)[step] /\ actx.weapon \in mask
      /\ Len(history) < step
  BY DEF IInv, TypeOK, Phase, Position, Record
<1>2. Len(Steps(strategy)) \in 2..MaxSteps
  BY <1>1, StepsType
<1>a. step \in 1..MaxSteps
  <2>1. 1 <= step /\ step \in Nat
    BY DEF IInv, TypeOK
  <2> QED BY <1>1, <1>2, <2>1, StepRange, Zenon
<1>3. history \in Seq(Records) /\ Len(history) \in Nat
  BY DEF IInv, TypeOK
<1>4. Len(history) < MaxAttempts
  <2>1. MaxSteps \in Nat /\ MaxSteps <= MaxAttempts /\ MaxAttempts \in Nat
    BY RaceAssumption DEF MaxSteps
  <2>2. step \in Nat /\ Len(Steps(strategy)) \in Nat /\ Len(Steps(strategy)) <= MaxSteps
    BY <1>1, <1>2, <2>1
  <2> QED BY <1>1, <1>3, <2>1, <2>2
<1>5. /\ history' = Append(history, Attempt)
      /\ IF Wins THEN Win ELSE MoveOn
      /\ UNCHANGED <<state, now, strategy, actx, wres>>
  BY <1>3, <1>4, RaceAssumption DEF Record
<1>6. Attempt \in Records
  <2>2. actx.weapon \in Weapons /\ actx.started \in Nat
    BY <1>1 DEF IInv, TypeOK, mask, ApplicableMask
  <2>3. wres.err \in Errors /\ wres.success \in BOOLEAN
    BY <1>1 DEF IInv, TypeOK, Phase
  <2> QED BY <1>a, <2>2, <2>3 DEF Attempt, Records
<1> QED BY <1>a, <1>1, <1>2, <1>3, <1>5, <1>6

LEMMA RecordStep == IInv /\ Record => IInv'
<1> SUFFICES ASSUME IInv, Record PROVE IInv'
  OBVIOUS
<1> USE RecordAppends
<1>1. TypeOK'
  <2>1. history' \in Seq(Records)
    <3>1. PICK R : R = Records OBVIOUS
    <3>2. history \in Seq(R) /\ Attempt \in R BY <3>1 DEF IInv, TypeOK
    <3>3. Append(history, Attempt) \in Seq(R) BY <3>2
    <3> QED BY <3>1, <3>3
  <2>2. CASE Wins
    BY <2>1, <2>2 DEF Win, IInv, TypeOK, mask, ApplicableMask
  <2>3. CASE ~Wins
    <3>1. step + 1 \in 1..(MaxSteps + 1)
      BY DEF MaxSteps
    <3> QED BY <2>1, <2>3, <3>1 DEF MoveOn, NextStep, IInv, TypeOK
  <2> QED BY <2>2, <2>3
<1>2. /\ \/ pc' = "done" /\ step' = step /\ stop' = "SUCCESS"
         \/ pc' = "step" /\ step' = step + 1 /\ UNCHANGED <<stop, winner, rc>>
  BY DEF Win, MoveOn, NextStep
<1>3. Phase'
  BY <1>2 DEF IInv, Phase, Strategies
<1>4. \A i \in 1..Len(history') :
         /\ history'[i].step \in 1..Len(Steps(strategy))
         /\ history'[i].step <= step
         /\ history'[i].weapon = Steps(strategy)[history'[i].step]
         /\ history'[i].weapon \in mask
  <2> TAKE i \in 1..Len(history')
  <2>1. CASE i = Len(history) + 1
    BY <2>1 DEF Attempt
  <2>2. CASE i # Len(history) + 1
    <3>1. i \in 1..Len(history) /\ history'[i] = history[i]
      BY <2>2
    <3> QED BY <3>1 DEF IInv, Position
  <2> QED BY <2>1, <2>2
<1>5. mask' = mask /\ deadline_ms' = deadline_ms
  BY DEF mask, deadline_ms
<1>6. Position'
  BY <1>2, <1>4, <1>5 DEF IInv, Position, MaxSteps
<1>7. Clock' /\ BudgetHandedDown'
  BY <1>2 DEF IInv, Clock, OverrunBounded, BudgetHandedDown, deadline_ms
<1>8. NoneSkipped'
  <2>1. ASSUME NEW k \in 1..step
        PROVE  Steps(strategy)[k] \in mask <=>
                 \E i \in 1..Len(history') : history'[i].step = k
    <3>1. CASE k = step
      BY <3>1 DEF Attempt
    <3>2. CASE k # step
      <4>1. k \in 1..(step - 1)
        BY <3>2
      <4>2. Steps(strategy)[k] \in mask <=>
              \E i \in 1..Len(history) : history[i].step = k
        BY <4>1 DEF IInv, NoneSkipped, Strategies
      <4>3. history'[Len(history) + 1].step # k
        BY <3>2 DEF Attempt
      <4> QED BY <4>2, <4>3
    <3> QED BY <3>1, <3>2
  <2>2. \A k \in 1..(step' - 1) : k \in 1..step
    BY <1>2
  <2> QED BY <1>2, <1>5, <2>1, <2>2 DEF NoneSkipped
<1> QED BY <1>1, <1>3, <1>6, <1>7, <1>8 DEF IInv

LEMMA StutterStep == IInv /\ UNCHANGED vars => IInv'
  BY DEF vars, IInv, TypeOK, Phase, Position, Clock, OverrunBounded, mask,
         deadline_ms, WeaponLimit, BudgetHandedDown, NoneSkipped

LEMMA NextIInv == IInv /\ [Next]_vars => IInv'
  BY ValidateStep, AdvisorRunsStep, SelectStrategyStep, StopStep, SkipStepStep,
     CallWeaponStep, WeaponRunsStep, WeaponReturnsStep, RecordStep, StutterStep
     DEF Next, Done

\* The inductive invariant holds in every reachable state.
THEOREM InductiveInvariant == Spec => []IInv
<1> QED BY InitIInv, NextIInv, PTL DEF Spec

-----------------------------------------------------------------------------
(* What the caller gets from it. *)

\* Every variable keeps its type.
THEOREM TypeCorrect == Spec => []TypeOK
<1>1. IInv => TypeOK
  BY DEF IInv
<1> QED BY <1>1, InductiveInvariant, PTL

\* No weapon is called with the timeout that means "for ever", nor with more
\* than what is left of the budget (race.c:489-499).
THEOREM BudgetIsHandedDown == Spec => []BudgetHandedDown
<1>1. IInv => BudgetHandedDown
  BY DEF IInv
<1> QED BY <1>1, InductiveInvariant, PTL

\* Nothing but the context rules a weapon out, and with budget left the race
\* ends without a winner only after the last step.
THEOREM NothingSkipped == Spec => []NoneSkipped
<1>1. IInv => NoneSkipped
  BY DEF IInv
<1> QED BY <1>1, InductiveInvariant, PTL

\* The call is over at most one weapon limit after its deadline.
THEOREM OverrunIsBounded == Spec => []OverrunBounded
<1>1. IInv => OverrunBounded
  BY DEF IInv, Clock
<1> QED BY <1>1, InductiveInvariant, PTL

\* A weapon that worked ends the race as its winner: the history always has
\* room for it, since an attempt is recorded once per step.
THEOREM WorkingPathIsKept == Spec => WinIsKept
<1> DEFINE Kept == pc = "record" /\ Won(wres) =>
                     stop' = "SUCCESS" /\ winner' = actx.weapon
<1>1. ASSUME IInv, [Next]_vars PROVE [Kept]_vars
  <2> SUFFICES ASSUME Next, pc = "record", Won(wres)
               PROVE  stop' = "SUCCESS" /\ winner' = actx.weapon
    BY <1>1
  <2>1. Record
    BY DEF Next, Validate, AdvisorRuns, SelectStrategy, Exhausted, OutOfBudget,
           SkipStep, CallWeapon, WeaponRuns, WeaponReturns, Done
  <2>2. IF Wins THEN Win ELSE MoveOn
    BY <1>1, <2>1, RecordAppends
  <2> QED BY <2>2 DEF Wins, Win
<1> QED BY <1>1, InductiveInvariant, PTL DEF Spec, WinIsKept

-----------------------------------------------------------------------------
(* Race implements RacePromise. *)

\* The promise is about the same catalog.
LEMMA SameCatalog == Promise!Weapons = Weapons /\ Promise!Priority = Priority
  BY DEF Promise!Weapons, Weapons, Promise!Priority, Priority

LEMMA InitPromise == Init => Promise!Init
<1> SUFFICES ASSUME Init PROVE Promise!Init
  OBVIOUS
<1>1. mask \subseteq Weapons
  BY DEF mask, ApplicableMask
<1>2. {history[i].weapon : i \in 1..Len(history)} = {}
  BY DEF Init
<1> QED BY <1>1, <1>2, SameCatalog DEF Init, Promise!Init

\* The attempts already recorded have better priorities than the next one.
LEMMA TriedAreEarlier ==
  ASSUME IInv, pc = "record", NEW i \in 1..Len(history)
  PROVE  Priority[history[i].weapon] < Priority[actx.weapon]
<1>1. /\ strategy \in Strategies /\ step \in 1..Len(Steps(strategy))
      /\ actx.weapon = Steps(strategy)[step]
  BY StepsType DEF IInv, TypeOK, Phase, Position, MaxSteps
<1>2. /\ history[i].step \in 1..Len(Steps(strategy)) /\ history[i].step < step
      /\ history[i].weapon = Steps(strategy)[history[i].step]
  BY <1>1 DEF IInv, Position
<1> QED BY <1>1, <1>2, StepsSorted

LEMMA RecordKeepsPromise ==
  ASSUME IInv, Record
  PROVE  Promise!Next
<1> DEFINE tried == {history[i].weapon : i \in 1..Len(history)}
           tried2 == {history'[i].weapon : i \in 1..Len(history')}
           verdict == IF pc # "done" THEN "open"
                      ELSE IF stop = "SUCCESS" THEN winner ELSE "none"
           verdict2 == IF pc' # "done" THEN "open"
                       ELSE IF stop' = "SUCCESS" THEN winner' ELSE "none"
<1> USE RecordAppends
<1>1. tried2 = tried \cup {actx.weapon}
  <2>1. \A i \in 1..Len(history) : i \in 1..Len(history') /\ history'[i] = history[i]
    OBVIOUS
  <2>2. history'[Len(history')].weapon = actx.weapon /\ Len(history') \in 1..Len(history')
    BY DEF Attempt
  <2>3. \A i \in 1..Len(history') : i = Len(history') \/ i \in 1..Len(history)
    OBVIOUS
  <2> QED BY <2>1, <2>2, <2>3
<1>2. verdict = "open" /\ verdict2 \in {"open", actx.weapon}
  BY DEF Win, MoveOn
<1>3. \A v \in tried : Priority[v] < Priority[actx.weapon]
  BY TriedAreEarlier
<1>4. actx.weapon \in mask /\ actx.weapon \in Weapons /\ mask' = mask
  BY DEF mask, ApplicableMask
<1>5. actx.weapon \in Promise!Weapons
  BY <1>4, SameCatalog
<1>6. \E w \in Promise!Weapons : Promise!Try(w)
  BY <1>1, <1>2, <1>3, <1>4, <1>5, SameCatalog DEF Promise!Try
<1> QED BY ONLY <1>6 DEF Promise!Next

LEMMA NextPromise == IInv /\ [Next]_vars => [Promise!Next]_(Promise!promiseVars)
<1> SUFFICES ASSUME IInv, [Next]_vars
             PROVE  Promise!Next \/ UNCHANGED Promise!promiseVars
  OBVIOUS
<1>1. CASE Record
  BY <1>1, RecordKeepsPromise
<1>2. CASE Exhausted \/ OutOfBudget
  BY <1>2 DEF Exhausted, OutOfBudget, Return, mask, Promise!Next, Promise!GiveUp
<1>3. CASE Validate
  BY <1>3 DEF Validate, IInv, Phase, mask, Promise!Next, Promise!GiveUp,
              Promise!promiseVars
<1>4. CASE CallWeapon
  <2>1. /\ pc # "done" /\ pc' # "done"
        /\ UNCHANGED <<state, history>>
    BY <1>4, NotVisited DEF CallWeapon
  <2> QED BY <2>1 DEF mask, Promise!promiseVars
<1>5. CASE AdvisorRuns \/ SelectStrategy \/ SkipStep \/ WeaponRuns \/ WeaponReturns
  <2>1. /\ pc # "done" /\ pc' # "done"
        /\ UNCHANGED <<state, history>>
    BY <1>5 DEF AdvisorRuns, SelectStrategy, SkipStep, WeaponRuns, WeaponReturns
  <2> QED BY <2>1 DEF mask, Promise!promiseVars
<1>6. CASE UNCHANGED vars
  BY <1>6 DEF vars, mask, Promise!promiseVars
<1> QED BY <1>1, <1>2, <1>3, <1>4, <1>5, <1>6 DEF Next, Done

\* Every race is a race of the abstract promise.
THEOREM Refinement == Spec => KeepsPromise
<1> QED BY InitPromise, NextPromise, InductiveInvariant, PTL
        DEF Spec, KeepsPromise, Promise!Spec
-----------------------------------------------------------------------------
(* Hooks.                                                                  *)

Frame == [site : Sites, pc : Pcs]

\* Only a hook set with a flag reaches the code that raises it.
FlagInUse ==
  ~setup.flag =>
    /\ flag = 0
    /\ \A t \in Threads : \A i \in 1..Len(stack[t]) : stack[t][i].pc # "set"

FlagInv == HooksTypeOK /\ FlagInUse /\ FlagHasHolder

-----------------------------------------------------------------------------
(* Stacks. *)

LEMMA PushFacts ==
  ASSUME NEW s \in Seq(Frame), NEW f \in Frame
  PROVE  /\ Append(s, f) \in Seq(Frame)
         /\ Len(Append(s, f)) = Len(s) + 1
         /\ \A i \in 1..Len(s) : Append(s, f)[i] = s[i]
         /\ Append(s, f)[Len(s) + 1] = f
  OBVIOUS

LEMMA PopFacts ==
  ASSUME NEW s \in Seq(Frame), s # <<>>
  PROVE  /\ SubSeq(s, 1, Len(s) - 1) \in Seq(Frame)
         /\ Len(SubSeq(s, 1, Len(s) - 1)) = Len(s) - 1
         /\ \A i \in 1..(Len(s) - 1) : SubSeq(s, 1, Len(s) - 1)[i] = s[i]
<1>0. Len(s) \in Nat /\ Len(s) > 0
  OBVIOUS
<1>1. Len(s) \in Nat /\ Len(s) > 0 /\ \A i \in 1..(Len(s) - 1) : s[i] \in Frame
  OBVIOUS
<1>2. /\ SubSeq(s, 1, Len(s) - 1) \in Seq(Frame)
      /\ Len(SubSeq(s, 1, Len(s) - 1)) = IF 1 <= Len(s) - 1 THEN Len(s) - 1 - 1 + 1 ELSE 0
      /\ \A i \in 1..(Len(s) - 1 - 1 + 1) : SubSeq(s, 1, Len(s) - 1)[i] = s[1 + i - 1]
  <2> HIDE DEF Frame
  <2>1. Len(s) - 1 \in Int /\ 1 \in Int
    BY <1>1
  <2> QED BY <1>1, <2>1, SubSeqProperties
<1>3. Len(SubSeq(s, 1, Len(s) - 1)) = Len(s) - 1
  <2>1. CASE Len(s) = 1
    BY <1>1, <1>2, <2>1
  <2>2. CASE Len(s) > 1
    <3>1. 1 <= Len(s) - 1 /\ Len(s) - 1 - 1 + 1 = Len(s) - 1
      BY <1>1, <2>2
    <3> QED BY <1>2, <3>1, Zenon
  <2>3. Len(s) = 1 \/ Len(s) > 1
    <3>1. \A n \in Nat : n > 0 => n = 1 \/ n > 1
      OBVIOUS
    <3> QED BY <1>0, <3>1, Zenon
  <2> QED BY <2>1, <2>2, <2>3, Zenon
<1>4. ASSUME NEW i \in 1..(Len(s) - 1)
      PROVE  SubSeq(s, 1, Len(s) - 1)[i] = s[i]
  <2>1. i \in 1..(Len(s) - 1 - 1 + 1) /\ 1 + i - 1 = i
    BY <1>1
  <2> QED BY <1>2, <2>1
<1> QED BY <1>2, <1>3, <1>4

LEMMA ReplaceFacts ==
  ASSUME NEW s \in Seq(Frame), s # <<>>, NEW f \in Frame
  PROVE  /\ [s EXCEPT ![Len(s)] = f] \in Seq(Frame)
         /\ Len([s EXCEPT ![Len(s)] = f]) = Len(s)
         /\ \A i \in 1..(Len(s) - 1) : [s EXCEPT ![Len(s)] = f][i] = s[i]
         /\ [s EXCEPT ![Len(s)] = f][Len(s)] = f
<1>1. Len(s) \in Nat /\ Len(s) > 0
  OBVIOUS
<1> QED BY <1>1

\* What the three stack operations do to the stacks, in a typed state.
LEMMA PushStep ==
  ASSUME HooksTypeOK, NEW t \in Threads, NEW site \in Sites, Push(t, site)
  PROVE  /\ stack' \in [Threads -> Seq(Frame)]
         /\ \A u \in Threads \ {t} : stack'[u] = stack[u]
         /\ Len(stack'[t]) = Len(stack[t]) + 1 /\ Len(stack[t]) \in Nat
         /\ \A i \in 1..Len(stack[t]) : stack'[t][i] = stack[t][i]
         /\ stack'[t][Len(stack[t]) + 1] = [site |-> site, pc |-> "test"]
<1> DEFINE f == [site |-> site, pc |-> "test"]
<1>1. f \in Frame /\ stack[t] \in Seq(Frame) /\ stack \in [Threads -> Seq(Frame)]
  BY DEF Frame, Pcs, HooksTypeOK
<1>2. stack' = [stack EXCEPT ![t] = Append(stack[t], f)]
  BY DEF Push
<1> HIDE DEF f
<1>3. stack'[t] = Append(stack[t], f) /\ \A u \in Threads \ {t} : stack'[u] = stack[u]
  BY <1>1, <1>2
<1>4. Append(stack[t], f) \in Seq(Frame)
  BY <1>1
<1>5. stack' \in [Threads -> Seq(Frame)]
  BY <1>1, <1>2, <1>4
<1>6. /\ Len(stack'[t]) = Len(stack[t]) + 1 /\ Len(stack[t]) \in Nat
      /\ \A i \in 1..Len(stack[t]) : stack'[t][i] = stack[t][i]
      /\ stack'[t][Len(stack[t]) + 1] = f
  BY <1>1, <1>3, PushFacts
<1> QED BY <1>3, <1>5, <1>6 DEF f

LEMMA PopStep ==
  ASSUME HooksTypeOK, NEW t \in Threads, stack[t] # <<>>, Pop(t)
  PROVE  /\ stack' \in [Threads -> Seq(Frame)]
         /\ \A u \in Threads \ {t} : stack'[u] = stack[u]
         /\ Len(stack'[t]) = Len(stack[t]) - 1 /\ Len(stack[t]) \in Nat \ {0}
         /\ \A i \in 1..(Len(stack[t]) - 1) : stack'[t][i] = stack[t][i]
<1>1. stack[t] \in Seq(Frame) /\ stack \in [Threads -> Seq(Frame)]
  BY DEF Frame, HooksTypeOK
<1>2. stack' = [stack EXCEPT ![t] = SubSeq(stack[t], 1, Len(stack[t]) - 1)]
  BY DEF Pop
<1>3. /\ stack'[t] = SubSeq(stack[t], 1, Len(stack[t]) - 1)
      /\ \A u \in Threads \ {t} : stack'[u] = stack[u]
  BY <1>1, <1>2
<1>4. SubSeq(stack[t], 1, Len(stack[t]) - 1) \in Seq(Frame)
  BY <1>1, PopFacts
<1>5. stack' \in [Threads -> Seq(Frame)]
  BY <1>1, <1>2, <1>4
<1>6. Len(stack[t]) \in Nat \ {0}
  BY <1>1
<1> QED BY <1>1, <1>3, <1>5, <1>6, PopFacts

LEMMA GoToStep ==
  ASSUME HooksTypeOK, NEW t \in Threads, stack[t] # <<>>, NEW place \in Pcs, GoTo(t, place)
  PROVE  /\ stack' \in [Threads -> Seq(Frame)]
         /\ \A u \in Threads \ {t} : stack'[u] = stack[u]
         /\ Len(stack'[t]) = Len(stack[t]) /\ Len(stack[t]) \in Nat \ {0}
         /\ \A i \in 1..(Len(stack[t]) - 1) : stack'[t][i] = stack[t][i]
         /\ stack'[t][Len(stack[t])].pc = place
<1> DEFINE f == [site |-> Top(t).site, pc |-> place]
<1>1. /\ stack[t] \in Seq(Frame) /\ stack \in [Threads -> Seq(Frame)]
      /\ Len(stack[t]) \in Nat \ {0}
  <2>1. stack[t] \in Seq(Frame) /\ stack \in [Threads -> Seq(Frame)]
    BY DEF Frame, HooksTypeOK
  <2> QED BY <2>1
<1>2. f \in Frame /\ f.pc = place
  <2>1. Top(t) \in Frame
    <3> HIDE DEF Frame
    <3> QED BY <1>1 DEF Top
  <2> QED BY <2>1 DEF Frame
<1>3. stack' = [stack EXCEPT ![t] = [stack[t] EXCEPT ![Len(stack[t])] = f]]
  BY DEF GoTo, Replace
<1> HIDE DEF f
<1>4. /\ stack'[t] = [stack[t] EXCEPT ![Len(stack[t])] = f]
      /\ \A u \in Threads \ {t} : stack'[u] = stack[u]
  BY <1>1, <1>3
<1>5. [stack[t] EXCEPT ![Len(stack[t])] = f] \in Seq(Frame)
  BY <1>1, <1>2, ReplaceFacts
<1>6. stack' \in [Threads -> Seq(Frame)]
  BY <1>1, <1>3, <1>5
<1> QED BY <1>1, <1>2, <1>4, <1>6, ReplaceFacts

-----------------------------------------------------------------------------
(* The flag and its holders. *)

LEMMA InitFlagInv == HooksInit => FlagInv
<1> SUFFICES ASSUME HooksInit PROVE FlagInv
  OBVIOUS
<1>1. stack \in [Threads -> Seq([site : Sites, pc : Pcs])]
  BY DEF HooksInit
<1>2. \A t \in Threads : Len(stack[t]) = 0
  BY DEF HooksInit
<1> QED BY <1>1, <1>2 DEF HooksInit, FlagInv, HooksTypeOK, FlagInUse, FlagHasHolder

\* A step that leaves the flag alone and drops no holder keeps the invariant.
LEMMA FlagUntouched ==
  ASSUME FlagInv, NEW t \in Threads, UNCHANGED <<setup, flag>>,
         stack' \in [Threads -> Seq(Frame)],
         \A u \in Threads \ {t} : stack'[u] = stack[u],
         \A i \in 1..Len(stack[t]) : Holds(stack[t][i]) =>
            i \in 1..Len(stack'[t]) /\ Holds(stack'[t][i]),
         \A i \in 1..Len(stack'[t]) : stack'[t][i].pc = "set" =>
            setup.flag \/ (i \in 1..Len(stack[t]) /\ stack[t][i].pc = "set")
  PROVE  FlagInv'
<1>1. HooksTypeOK'
  BY DEF FlagInv, HooksTypeOK, Frame
<1>2. FlagInUse'
  BY DEF FlagInv, FlagInUse
<1>3. FlagHasHolder'
  BY DEF FlagInv, FlagHasHolder
<1> QED BY <1>1, <1>2, <1>3 DEF FlagInv

LEMMA PushFlagInv ==
  ASSUME FlagInv, NEW t \in Threads, NEW site \in Sites, Push(t, site),
         UNCHANGED <<setup, flag>>
  PROVE  FlagInv'
<1>1. HooksTypeOK
  BY DEF FlagInv
<1>2. /\ stack' \in [Threads -> Seq(Frame)]
      /\ \A u \in Threads \ {t} : stack'[u] = stack[u]
      /\ Len(stack'[t]) = Len(stack[t]) + 1 /\ Len(stack[t]) \in Nat
      /\ \A i \in 1..Len(stack[t]) : stack'[t][i] = stack[t][i]
      /\ stack'[t][Len(stack[t]) + 1] = [site |-> site, pc |-> "test"]
  BY <1>1, PushStep
<1>3. \A i \in 1..Len(stack'[t]) : i \in 1..Len(stack[t]) \/ i = Len(stack[t]) + 1
  BY <1>2
<1>4. \A i \in 1..Len(stack'[t]) : stack'[t][i].pc = "set" =>
        (i \in 1..Len(stack[t]) /\ stack[t][i].pc = "set")
  BY <1>2, <1>3
<1>5. \A i \in 1..Len(stack[t]) : Holds(stack[t][i]) =>
        i \in 1..Len(stack'[t]) /\ Holds(stack'[t][i])
  BY <1>2
<1> QED BY <1>2, <1>4, <1>5, FlagUntouched

LEMMA PopFlagInv ==
  ASSUME FlagInv, NEW t \in Threads, stack[t] # <<>>, ~Holds(Top(t)), Pop(t),
         UNCHANGED <<setup, flag>>
  PROVE  FlagInv'
<1>1. HooksTypeOK
  BY DEF FlagInv
<1>2. \A i \in 1..Len(stack[t]) : Holds(stack[t][i]) => i \in 1..Len(stack'[t])
  BY <1>1, PopStep DEF Top
<1>3. \A i \in 1..Len(stack'[t]) : i \in 1..Len(stack[t]) /\ stack'[t][i] = stack[t][i]
  BY <1>1, PopStep
<1> QED BY <1>1, <1>2, <1>3, PopStep, FlagUntouched

LEMMA GoToFlagInv ==
  ASSUME FlagInv, NEW t \in Threads, stack[t] # <<>>, NEW place \in Pcs, GoTo(t, place),
         UNCHANGED <<setup, flag>>,
         Holds(Top(t)) => place \in {"user", "clear"},
         place = "set" => setup.flag
  PROVE  FlagInv'
<1>1. HooksTypeOK
  BY DEF FlagInv
<1>2. \A i \in 1..Len(stack[t]) : i = Len(stack[t]) \/ stack'[t][i] = stack[t][i]
  BY <1>1, GoToStep
<1>3. \A i \in 1..Len(stack[t]) : Holds(stack[t][i]) =>
            i \in 1..Len(stack'[t]) /\ Holds(stack'[t][i])
  BY <1>1, <1>2, GoToStep DEF Top, Holds
<1>4. \A i \in 1..Len(stack'[t]) : stack'[t][i].pc = "set" =>
            setup.flag \/ (i \in 1..Len(stack[t]) /\ stack[t][i].pc = "set")
  BY <1>1, <1>2, GoToStep
<1> QED BY <1>1, <1>3, <1>4, GoToStep, FlagUntouched

LEMMA SetFlagInv == ASSUME FlagInv, NEW t \in Threads, Set(t) PROVE FlagInv'
<1>1. /\ HooksTypeOK /\ stack[t] # <<>> /\ Top(t).pc = "set" /\ GoTo(t, "user")
      /\ flag' = 1 /\ setup' = setup
  BY DEF FlagInv, Set, At, Raised
<1>2. setup.flag
  <2>1. Len(stack[t]) \in 1..Len(stack[t])
    BY <1>1 DEF HooksTypeOK
  <2> QED BY <1>1, <2>1 DEF Top, FlagInv, FlagInUse
<1>3. /\ stack' \in [Threads -> Seq(Frame)]
      /\ Len(stack[t]) \in 1..Len(stack'[t])
      /\ stack'[t][Len(stack[t])].pc = "user"
  BY <1>1, GoToStep DEF Pcs
<1>4. HooksTypeOK'
  BY <1>1, <1>3 DEF HooksTypeOK, Frame
<1> QED BY <1>1, <1>2, <1>3, <1>4 DEF FlagInv, FlagInUse, FlagHasHolder, Holds

LEMMA ClearFlagInv == ASSUME FlagInv, NEW t \in Threads, Clear(t) PROVE FlagInv'
<1>1. /\ HooksTypeOK /\ stack[t] # <<>> /\ GoTo(t, "time") /\ setup' = setup
      /\ flag' = 0
  BY DEF FlagInv, Clear, At, FlagInUse
<1>2. /\ stack' \in [Threads -> Seq(Frame)]
      /\ \A u \in Threads \ {t} : stack'[u] = stack[u]
      /\ Len(stack'[t]) = Len(stack[t]) /\ Len(stack[t]) \in Nat \ {0}
      /\ \A i \in 1..(Len(stack[t]) - 1) : stack'[t][i] = stack[t][i]
      /\ stack'[t][Len(stack[t])].pc = "time"
  BY <1>1, GoToStep DEF Pcs
<1>3. \A i \in 1..Len(stack'[t]) : stack'[t][i].pc = "set" =>
         i \in 1..Len(stack[t]) /\ stack[t][i].pc = "set"
  BY <1>2
<1>4. HooksTypeOK'
  BY <1>1, <1>2 DEF HooksTypeOK, Frame
<1>5. FlagInUse'
  BY <1>1, <1>2, <1>3 DEF FlagInv, FlagInUse
<1> QED BY <1>1, <1>4, <1>5 DEF FlagInv, FlagHasHolder

LEMMA NextFlagInv == FlagInv /\ [HooksNext]_hookVars => FlagInv'
<1> SUFFICES ASSUME FlagInv, [HooksNext]_hookVars PROVE FlagInv'
  OBVIOUS
<1>1. ASSUME NEW t \in Threads, NEW site \in Sites,
             Fire(t, site) \/ FireNested(t, site)
      PROVE  FlagInv'
  BY <1>1, PushFlagInv DEF Fire, FireNested
<1>2. ASSUME NEW t \in Threads, Step(t)
      PROVE  FlagInv'
  <2>1. CASE TestUnguarded(t) \/ TestFree(t) \/ HookReturns(t) \/ Slow(t)
    BY <2>1, GoToFlagInv
       DEF TestUnguarded, TestFree, HookReturns, Slow, At, Holds, Pcs
  <2>2. CASE TestBusy(t) \/ Quick(t) \/ WarnReturns(t)
    BY <2>2, PopFlagInv DEF TestBusy, Quick, WarnReturns, At, Holds
  <2>3. CASE Set(t)
    BY <2>3, SetFlagInv
  <2>4. CASE Clear(t)
    BY <2>4, ClearFlagInv
  <2> QED BY <1>2, <2>1, <2>2, <2>3, <2>4 DEF Step
<1>3. CASE UNCHANGED hookVars
  BY <1>3 DEF hookVars, FlagInv, HooksTypeOK, FlagInUse, FlagHasHolder
<1> QED BY <1>1, <1>2, <1>3 DEF HooksNext

-----------------------------------------------------------------------------
(* An engine without workers. *)

\* Below the top there is host code only; a hook proper holds the flag, and
\* nothing runs above it but a test that finds the flag up; above a warning
\* something runs only if the log hook fires hooks.
AloneAt(i) ==
  /\ i < Len(stack[Engine]) => stack[Engine][i].pc \in InHost
  /\ stack[Engine][i].pc = "user" =>
       /\ flag = 1
       /\ \/ i = Len(stack[Engine])
          \/ i = Len(stack[Engine]) - 1 /\ Top(Engine).pc = "test"
  /\ stack[Engine][i].pc = "set" => flag = 0
  /\ stack[Engine][i].pc = "warn" =>
       setup.warn /\ (i = Len(stack[Engine]) \/ \E c \in setup.calls : c[1] = "log")

Alone ==
  setup.flag /\ ~setup.workers =>
    /\ \A w \in Workers : stack[w] = <<>>
    /\ \A i \in 1..Len(stack[Engine]) : AloneAt(i)

LEMMA InitAlone == HooksInit => Alone
BY DEF HooksInit, Alone, Threads

LEMMA PushAlone ==
  ASSUME HooksTypeOK, setup.flag, ~setup.workers, Alone, NEW site \in Sites, Push(Engine, site),
         UNCHANGED <<setup, flag>>,
         stack[Engine] # <<>> =>
           Top(Engine).pc \in InHost /\ <<HostSite(Top(Engine)), site>> \in setup.calls
  PROVE  Alone'
<1> DEFINE s == stack[Engine]
           n == Len(stack[Engine])
<1>1. Engine \in Threads
  BY DEF Threads
<1>2. /\ \A u \in Threads \ {Engine} : stack'[u] = stack[u]
      /\ Len(stack'[Engine]) = n + 1 /\ n \in Nat
      /\ \A i \in 1..n : stack'[Engine][i] = s[i]
      /\ stack'[Engine][n + 1] = [site |-> site, pc |-> "test"]
  BY <1>1, PushStep
<1>3. \A w \in Workers : stack'[w] = <<>>
  BY <1>2, HooksAssumption DEF Alone, Threads
<1>4. Top(Engine)'.pc = "test" /\ Top(Engine) = s[n]
  BY <1>2 DEF Top
<1>5. ASSUME NEW i \in 1..n PROVE AloneAt(i)'
  <2>1. AloneAt(i) /\ stack'[Engine][i] = s[i] /\ n # 0 /\ stack[Engine] # <<>>
    BY <1>2 DEF Alone
  <2>2. s[n].pc \in InHost
    BY <1>4, <2>1
  <2>3. i < n + 1 /\ s[i].pc \in InHost
    BY <1>2, <2>1, <2>2 DEF AloneAt
  <2>4. s[i].pc = "user" => flag = 1 /\ i = (n + 1) - 1
    <3>1. "test" \notin InHost
      BY DEF InHost
    <3> QED BY <1>2, <1>4, <2>1, <2>2, <3>1 DEF AloneAt
  <2>5. s[i].pc = "warn" => setup.warn /\ \E c \in setup.calls : c[1] = "log"
    <3>1. SUFFICES ASSUME s[i].pc = "warn" PROVE setup.warn /\ \E c \in setup.calls : c[1] = "log"
      OBVIOUS
    <3>2. CASE i # n
      BY <2>1, <3>1, <3>2 DEF AloneAt
    <3>3. CASE i = n
      <4>1. HostSite(Top(Engine)) = "log"
        BY <1>4, <3>1, <3>3 DEF HostSite
      <4>2. <<"log", site>> \in setup.calls /\ <<"log", site>>[1] = "log"
        BY <2>1, <4>1
      <4>3. setup.warn
        BY <2>1, <3>1 DEF AloneAt
      <4> QED BY <4>2, <4>3
    <3> QED BY <3>2, <3>3
  <2>6. s[i].pc # "set"
    BY <2>3 DEF InHost
  <2> QED BY <1>2, <1>4, <2>1, <2>3, <2>4, <2>5, <2>6 DEF AloneAt
<1>6. ASSUME NEW i \in Nat, i = n + 1 PROVE AloneAt(i)'
  BY <1>2, <1>6 DEF AloneAt
<1>7. \A i \in 1..Len(stack'[Engine]) : i \in 1..n \/ (i \in Nat /\ i = n + 1)
  BY <1>2
<1>8. \A i \in 1..Len(stack'[Engine]) : AloneAt(i)'
  BY <1>5, <1>6, <1>7
<1> QED BY <1>3, <1>8 DEF Alone

LEMMA PopAlone ==
  ASSUME HooksTypeOK, setup.flag, ~setup.workers, Alone, stack[Engine] # <<>>, Pop(Engine),
         UNCHANGED <<setup, flag>>
  PROVE  Alone'
<1> DEFINE s == stack[Engine]
           n == Len(stack[Engine])
<1>1. Engine \in Threads
  BY DEF Threads
<1>2. /\ \A u \in Threads \ {Engine} : stack'[u] = stack[u]
      /\ Len(stack'[Engine]) = n - 1 /\ n \in Nat \ {0}
      /\ \A i \in 1..(n - 1) : stack'[Engine][i] = s[i]
  BY <1>1, PopStep
<1>3. \A w \in Workers : stack'[w] = <<>>
  BY <1>2, HooksAssumption DEF Alone, Threads
<1>4. ASSUME NEW i \in 1..(n - 1) PROVE AloneAt(i)'
  <2>1. AloneAt(i) /\ stack'[Engine][i] = s[i] /\ i < n /\ i # n
    BY <1>2 DEF Alone
  <2>2. s[i].pc \in InHost /\ (s[i].pc = "user" => flag = 1 /\ i = n - 1)
    BY <2>1 DEF AloneAt
  <2>3. s[i].pc # "set"
    BY <2>2 DEF InHost
  <2>4. s[i].pc = "warn" => setup.warn /\ \E c \in setup.calls : c[1] = "log"
    BY <2>1 DEF AloneAt
  <2> QED BY <1>2, <2>1, <2>2, <2>3, <2>4 DEF AloneAt
<1> QED BY <1>2, <1>3, <1>4 DEF Alone

LEMMA GoToAlone ==
  ASSUME HooksTypeOK, setup.flag, ~setup.workers, Alone, stack[Engine] # <<>>,
         NEW place \in Pcs, GoTo(Engine, place), setup' = setup,
         Top(Engine).pc # "test" \/ flag = 0,
         place = "user" => flag' = 1, place = "set" => flag' = 0, place = "warn" => setup.warn
  PROVE  Alone'
<1> DEFINE s == stack[Engine]
           n == Len(stack[Engine])
<1>1. Engine \in Threads
  BY DEF Threads
<1>2. /\ \A u \in Threads \ {Engine} : stack'[u] = stack[u]
      /\ Len(stack'[Engine]) = n /\ n \in Nat \ {0}
      /\ \A i \in 1..(n - 1) : stack'[Engine][i] = s[i]
      /\ stack'[Engine][n].pc = place
  BY <1>1, GoToStep
<1>3. \A w \in Workers : stack'[w] = <<>>
  BY <1>2, HooksAssumption DEF Alone, Threads
<1>4. ASSUME NEW i \in 1..(n - 1) PROVE AloneAt(i)'
  <2>1. AloneAt(i) /\ stack'[Engine][i] = s[i] /\ i < n /\ i # n
    BY <1>2 DEF Alone
  <2>2. s[i].pc \in InHost /\ s[i].pc # "user"
    BY <2>1 DEF AloneAt
  <2>3. s[i].pc = "warn"
    BY <2>2 DEF InHost
  <2>4. setup.warn /\ \E c \in setup.calls : c[1] = "log"
    BY <2>1, <2>3 DEF AloneAt
  <2> QED BY <1>2, <2>1, <2>2, <2>3, <2>4 DEF AloneAt
<1>5. AloneAt(n)'
  BY <1>2 DEF AloneAt
<1>6. \A i \in 1..Len(stack'[Engine]) : i \in 1..(n - 1) \/ i = n
  BY <1>2
<1> QED BY <1>3, <1>4, <1>5, <1>6 DEF Alone

LEMMA NextAlone == HooksTypeOK /\ FlagInUse /\ Alone /\ [HooksNext]_hookVars => Alone'
<1> SUFFICES ASSUME HooksTypeOK, FlagInUse, Alone, [HooksNext]_hookVars PROVE Alone'
  OBVIOUS
<1>1. CASE UNCHANGED hookVars
  BY <1>1 DEF hookVars, Alone, AloneAt, Top
<1>2. CASE HooksNext
  <2>0. setup' = setup
    BY <1>2 DEF HooksNext, Fire, FireNested, Step, TestUnguarded, TestBusy, TestFree, Set,
                HookReturns, Clear, Quick, Slow, WarnReturns
  <2>1. SUFFICES ASSUME setup.flag, ~setup.workers PROVE Alone'
    BY <2>0 DEF Alone
  <2>2. \A w \in Workers : stack[w] = <<>>
    BY <2>1 DEF Alone
  <2>3. ASSUME NEW t \in Threads, NEW site \in Sites, Fire(t, site) \/ FireNested(t, site)
        PROVE  Alone'
    <3>1. t = Engine
      BY <2>1, <2>2, <2>3 DEF Fire, FireNested, Threads
    <3> QED BY <2>1, <2>3, <3>1, PushAlone DEF Fire, FireNested
  <2>4. ASSUME NEW t \in Threads, Step(t)
        PROVE  Alone'
    <3>1. t = Engine /\ stack[Engine] # <<>>
      BY <2>2, <2>4 DEF Step, TestUnguarded, TestBusy, TestFree, Set, HookReturns, Clear,
                        Quick, Slow, WarnReturns, At, Threads
    <3>2. CASE TestBusy(Engine) \/ Quick(Engine) \/ WarnReturns(Engine)
      BY <2>1, <3>1, <3>2, PopAlone DEF TestBusy, Quick, WarnReturns
    <3>3. CASE TestFree(Engine) \/ HookReturns(Engine) \/ Slow(Engine)
      BY <2>1, <3>1, <3>3, GoToAlone DEF TestFree, HookReturns, Slow, At, Busy, Pcs
    <3>4. CASE Set(Engine) \/ Clear(Engine)
      BY <2>1, <3>1, <3>4, GoToAlone DEF Set, Clear, Raised, At, Pcs
    <3> QED BY <2>1, <2>4, <3>1, <3>2, <3>3, <3>4 DEF Step, TestUnguarded
  <2> QED BY <1>2, <2>3, <2>4 DEF HooksNext
<1> QED BY <1>1, <1>2

LEMMA AloneIsGuarded == HooksTypeOK /\ Alone => GuardHoldsAlone
<1> SUFFICES ASSUME HooksTypeOK, Alone, setup.flag, ~setup.workers
             PROVE  /\ \A i \in HostFrames(Engine), j \in HostFrames(Engine) :
                         i < j => stack[Engine][i].pc = "warn"
                    /\ ~setup.warn \/ (\A c \in setup.calls : c[1] # "log") =>
                         Cardinality(HostFrames(Engine)) <= 1
  BY DEF GuardHoldsAlone
<1>1. Len(stack[Engine]) \in Nat
  BY DEF HooksTypeOK, Threads
<1>2. \A i \in HostFrames(Engine) :
        i \in 1..Len(stack[Engine]) /\ AloneAt(i) /\ stack[Engine][i].pc \in InHost
  BY DEF Alone, HostFrames
<1>3. ASSUME NEW i \in HostFrames(Engine), NEW j \in HostFrames(Engine), i < j
      PROVE  stack[Engine][i].pc = "warn"
  <2>1. SUFFICES ASSUME stack[Engine][i].pc = "user" PROVE FALSE
    BY <1>2 DEF InHost
  <2>2. i = Len(stack[Engine]) - 1 /\ Top(Engine).pc = "test"
    BY <1>1, <1>2, <1>3, <2>1 DEF AloneAt
  <2>3. j = Len(stack[Engine])
    BY <1>1, <1>2, <1>3, <2>2
  <2> QED BY <1>2, <2>2, <2>3 DEF Top, InHost
<1>4. ASSUME ~setup.warn \/ (\A c \in setup.calls : c[1] # "log")
      PROVE  Cardinality(HostFrames(Engine)) <= 1
  <2>1. \A i, j \in HostFrames(Engine) : ~(i < j)
    <3>1. SUFFICES ASSUME NEW i \in HostFrames(Engine), NEW j \in HostFrames(Engine), i < j
                   PROVE  FALSE
      OBVIOUS
    <3>2. stack[Engine][i].pc = "warn" /\ i # Len(stack[Engine])
      BY <1>1, <1>2, <1>3, <3>1
    <3> QED BY <1>2, <1>4, <3>2 DEF AloneAt
  <2>2. \A i, j \in HostFrames(Engine) : i = j
    <3>1. \A i \in HostFrames(Engine) : i \in Int
      BY <1>2
    <3> QED BY <2>1, <3>1
  <2>3. CASE HostFrames(Engine) = {}
    BY <2>3, FS_EmptySet
  <2>4. CASE HostFrames(Engine) # {}
    <3>1. PICK k \in HostFrames(Engine) : TRUE
      BY <2>4
    <3>2. HostFrames(Engine) = {k}
      BY <2>2, <3>1
    <3>3. Cardinality({k}) = 1
      BY FS_Singleton
    <3> QED BY <3>2, <3>3
  <2> QED BY <2>3, <2>4
<1> QED BY <1>3, <1>4

-----------------------------------------------------------------------------
(* The theorems. *)

\* Every variable keeps its type.
THEOREM StacksAreTyped == HooksSpec => []HooksTypeOK
<1>1. FlagInv => HooksTypeOK
  BY DEF FlagInv
<1> QED BY <1>1, InitFlagInv, NextFlagInv, PTL DEF HooksSpec

\* However the threads interleave inside xury_hooks_enter, and however deep
\* hooks fire hooks, a raised flag always has a fire that will lower it.
THEOREM FlagNeverStuck == HooksSpec => []FlagHasHolder
<1>1. FlagInv => FlagHasHolder
  BY DEF FlagInv
<1> QED BY <1>1, InitFlagInv, NextFlagInv, PTL DEF HooksSpec

\* On an engine without workers, however deep hooks fire hooks, host code runs
\* inside host code only below a slow-hook warning.
THEOREM GuardIsEnough == HooksSpec => []GuardHoldsAlone
<1>1. FlagInv /\ Alone => GuardHoldsAlone
  BY AloneIsGuarded DEF FlagInv
<1>2. HooksInit => FlagInv /\ Alone
  BY InitFlagInv, InitAlone
<1>3. FlagInv /\ Alone /\ [HooksNext]_hookVars => (FlagInv /\ Alone)'
  BY NextFlagInv, NextAlone DEF FlagInv
<1> QED BY <1>1, <1>2, <1>3, PTL DEF HooksSpec
=============================================================================

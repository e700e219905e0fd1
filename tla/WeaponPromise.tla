---------------------------- MODULE WeaponPromise ----------------------------
(***************************************************************************)
(* What whoever calls a weapon is promised (weapon_ops.h:60-118), with     *)
(* sockets, packets and the network forgotten: a call is refused at once,  *)
(* or it runs and returns before the time it was given is used up; it      *)
(* claims success only on evidence, and the evidence is of this call.      *)
(* What counts as evidence, and how much time there is, is each weapon's.  *)
(***************************************************************************)
EXTENDS Integers

CONSTANTS Budgets    \* how long a call may take, Forever for no limit

VARIABLES clock,     \* the weapon's clock; a call may start it again
          running,   \* is a call under way
          left,      \* how long it may still take
          evidence,  \* has this call something to show for a success
          won        \* did the last call succeed

promiseVars == <<clock, running, left, evidence, won>>

Forever == -1

Restarts == clock' \in {0, clock}
Spends(n) == IF left = Forever THEN left' = Forever ELSE left' \in 0..(left - n)

Init == clock = 0 /\ ~running /\ left = 0 /\ ~evidence /\ ~won

Refuse ==
  /\ ~running
  /\ ~won' /\ Restarts
  /\ UNCHANGED <<running, left, evidence>>

Start ==
  /\ ~running
  /\ running' /\ left' \in Budgets /\ ~evidence' /\ ~won' /\ Restarts

\* The call, or the world it talks to, does something; that takes no time.
Work ==
  /\ running
  /\ Spends(0) /\ (evidence => evidence') /\ Restarts
  /\ UNCHANGED <<running, won>>

\* Time passes: never more than there is.
Pass ==
  /\ clock' = clock + 1
  /\ IF running THEN Spends(1) ELSE UNCHANGED left
  /\ UNCHANGED <<running, evidence, won>>

Return ==
  /\ running
  /\ ~running' /\ left' = 0 /\ ~evidence' /\ (won' => evidence) /\ Restarts

Next == Refuse \/ Start \/ Work \/ Pass \/ Return

Spec == Init /\ [][Next]_promiseVars
=============================================================================

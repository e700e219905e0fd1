---------------------------- MODULE RacePromise ----------------------------
(***************************************************************************)
(* What a caller of xury_blitz_race is promised, with the loop, the clock  *)
(* and the history forgotten: usable weapons are tried one after another   *)
(* in increasing priority number, each at most once, and the race ends     *)
(* either at the first weapon that works, which is the winner, or with no  *)
(* winner.  An ended race changes no more.                                 *)
(***************************************************************************)
EXTENDS Weapon

VARIABLES usable,   \* the weapons the context allows
          tried,    \* the weapons that have answered
          verdict   \* "open", "none", or the winning weapon

promiseVars == <<usable, tried, verdict>>

Init == /\ usable \in SUBSET Weapons
        /\ tried = {}
        /\ verdict = "open"

\* The next weapon answers: it works and wins, or the race goes on.
Try(w) ==
  /\ verdict = "open"
  /\ w \in usable
  /\ \A v \in tried : Priority[v] < Priority[w]
  /\ tried' = tried \cup {w}
  /\ verdict' \in {"open", w}
  /\ UNCHANGED usable

\* Budget spent, strategy exhausted, or the call was rejected.
GiveUp ==
  /\ verdict = "open"
  /\ verdict' = "none"
  /\ UNCHANGED <<usable, tried>>

Next == GiveUp \/ \E w \in Weapons : Try(w)

Spec == Init /\ [][Next]_promiseVars
=============================================================================

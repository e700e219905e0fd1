------------------------------ MODULE MCHooks ------------------------------
(***************************************************************************)
(* Hooks with an engine thread and one worker.  The host's hooks all log, *)
(* or all but the log hook do; with and without slow-hook warnings,        *)
(* workers and a flag.                                                     *)
(***************************************************************************)
EXTENDS Hooks

Logging  == {<<"phase", "log">>, <<"weapon_result", "log">>}
Chatty   == Logging \cup {<<"log", "log">>, <<"log", "phase">>}

SomeSetups ==
  {s \in Setup : s.calls \in {Logging, Chatty} /\ (s.flag \/ ~s.workers)
                /\ s.installed = {"log", "phase", "weapon_result"}}
=============================================================================

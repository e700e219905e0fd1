------------------------------- MODULE Hooks -------------------------------
(***************************************************************************)
(* The hook dispatcher of src/src/api/hooks.c: the xury_hooks_fire_*       *)
(* functions, their shared reentrancy flag and the slow-hook warning.      *)
(*                                                                         *)
(* One engine thread fires any hook; worker threads (the BLITZ workers of  *)
(* the comments) fire weapon_result only.  A fire is a frame on its        *)
(* thread's stack that walks                                               *)
(*     test -> set -> user -> clear -> time -> (warn) -> popped            *)
(* where "user" and "warn" run the host's code, which may itself fire      *)
(* hooks.  The flag is a plain int that several threads read and write:    *)
(* the test and the set of xury_hooks_enter are two steps.                 *)
(***************************************************************************)
EXTENDS Naturals, Sequences, FiniteSets

CONSTANTS Engine,        \* the engine's thread
          Workers,       \* the worker threads
          Setups,        \* the configurations of the hook set considered
          MaxDepth       \* bound on nested fires

Threads == {Engine} \cup Workers
Sites == {"log", "phase", "scan_done", "weapon_result"}

\* A configuration: the hooks the host installed, whether the engine gave the
\* hook set a flag, whether slow_hook_warn_us is non-zero, whether there are
\* workers, and the pairs <<f, g>> such that the host's hook f fires hook g.
Setup == [installed : SUBSET Sites, flag : BOOLEAN, warn : BOOLEAN,
          workers : BOOLEAN, calls : SUBSET (Sites \X Sites)]

ASSUME HooksAssumption ==
  /\ Engine \notin Workers
  /\ Setups \subseteq Setup
  /\ MaxDepth \in Nat \ {0}

VARIABLES setup,   \* the hook set, fixed by xury_hooks_init
          flag,    \* *in_hook_flag
          stack    \* per thread, its nested fires, innermost last

hookVars == <<setup, flag, stack>>

Top(t) == stack[t][Len(stack[t])]
At(t, pc) == stack[t] # <<>> /\ Top(t).pc = pc
Replace(t, frame) == stack' = [stack EXCEPT ![t] = [@ EXCEPT ![Len(@)] = frame]]
GoTo(t, pc) == Replace(t, [site |-> Top(t).site, pc |-> pc])
Pop(t) == stack' = [stack EXCEPT ![t] = SubSeq(@, 1, Len(@) - 1)]
Push(t, site) == stack' = [stack EXCEPT ![t] = Append(@, [site |-> site, pc |-> "test"])]

\* Frames that run host code: the hook proper, and the warning handed to the
\* log hook by xury_hooks_leave.
InHost == {"user", "warn"}
HostSite(f) == IF f.pc = "warn" THEN "log" ELSE f.site

HooksInit ==
  /\ setup \in Setups
  /\ flag = 0
  /\ stack = [t \in Threads |-> <<>>]

\* The library fires a hook the host installed; one that is not installed is
\* dropped before the guard.
Fire(t, site) ==
  /\ stack[t] = <<>>
  /\ t \in Workers => setup.workers /\ site = "weapon_result"
  /\ site \in setup.installed
  /\ Push(t, site)
  /\ UNCHANGED <<setup, flag>>

\* Host code running inside a hook fires another one.
FireNested(t, site) ==
  /\ stack[t] # <<>> /\ Top(t).pc \in InHost
  /\ Len(stack[t]) < MaxDepth
  /\ <<HostSite(Top(t)), site>> \in setup.calls
  /\ site \in setup.installed
  /\ Push(t, site)
  /\ UNCHANGED <<setup, flag>>

\* The test of the guard, and what it writes to close it.  Fault: the flag
\* is never looked at.
NeverBusy == FALSE
Busy == flag # 0
Raised == 1

\* xury_hooks_enter, first half.  Without a flag there is no guard.
TestUnguarded(t) ==
  /\ At(t, "test") /\ ~setup.flag
  /\ GoTo(t, "user")
  /\ UNCHANGED <<setup, flag>>

TestBusy(t) ==
  /\ At(t, "test") /\ setup.flag
  /\ Busy
  /\ Pop(t)
  /\ UNCHANGED <<setup, flag>>

TestFree(t) ==
  /\ At(t, "test") /\ setup.flag
  /\ ~Busy
  /\ GoTo(t, "set")
  /\ UNCHANGED <<setup, flag>>

\* Second half: the flag is raised, and the host's hook is called.
Set(t) ==
  /\ At(t, "set")
  /\ flag' = Raised
  /\ GoTo(t, "user")
  /\ UNCHANGED setup

\* The host's hook returns.
HookReturns(t) ==
  /\ At(t, "user")
  /\ GoTo(t, "clear")
  /\ UNCHANGED <<setup, flag>>

\* xury_hooks_leave drops the flag first.  Fault: only a fire that was not
\* slow drops it, the warning being sent "inside the guard".
ClearLate(t) ==
  /\ At(t, "clear")
  /\ IF setup.flag /\ ~setup.warn THEN flag' = 0 ELSE UNCHANGED flag
  /\ GoTo(t, "time")
  /\ UNCHANGED setup

Clear(t) ==
  /\ At(t, "clear")
  /\ IF setup.flag THEN flag' = 0 ELSE UNCHANGED flag
  /\ GoTo(t, "time")
  /\ UNCHANGED setup

\* Then it looks at the time.  The hook was fast, the warning is off, or
\* there is no log hook to send it to: the fire is over.
Quick(t) ==
  /\ At(t, "time")
  /\ Pop(t)
  /\ UNCHANGED <<setup, flag>>

\* The hook was slow: the log hook is called directly, whatever its level.
Slow(t) ==
  /\ At(t, "time")
  /\ setup.warn /\ "log" \in setup.installed
  /\ GoTo(t, "warn")
  /\ UNCHANGED <<setup, flag>>

WarnReturns(t) ==
  /\ At(t, "warn")
  /\ Pop(t)
  /\ UNCHANGED <<setup, flag>>

Step(t) == \/ TestUnguarded(t) \/ TestBusy(t) \/ TestFree(t) \/ Set(t)
           \/ HookReturns(t) \/ Clear(t) \/ Quick(t) \/ Slow(t) \/ WarnReturns(t)

HooksNext == \E t \in Threads :
  \/ \E site \in Sites : Fire(t, site) \/ FireNested(t, site)
  \/ Step(t)

HooksSpec == HooksInit /\ [][HooksNext]_hookVars
-----------------------------------------------------------------------------
Pcs == {"test", "set", "user", "clear", "time", "warn"}

HooksTypeOK ==
  /\ setup \in Setups
  /\ flag \in {0, 1}
  /\ stack \in [Threads -> Seq([site : Sites, pc : Pcs])]

\* The frames of a thread that hold the guard, and those in host code.
Holds(f) == f.pc \in {"user", "clear"}
HostFrames(t) == {i \in 1..Len(stack[t]) : stack[t][i].pc \in InHost}

\* A raised flag has a holder.  A flag left up with nobody inside would drop
\* every later hook of the engine in silence; the races the comments accept
\* (hooks.c:166-172) may lose a hook, never the flag.
FlagHasHolder ==
  flag = 1 => \E t \in Threads : \E i \in 1..Len(stack[t]) : Holds(stack[t][i])

\* What is left of the guard on an engine without workers: host code runs
\* inside host code only below a slow-hook warning, and not even there if the
\* log hook never fires a hook or warnings are off.
GuardHoldsAlone ==
  setup.flag /\ ~setup.workers =>
    /\ \A i \in HostFrames(Engine), j \in HostFrames(Engine) :
         i < j => stack[Engine][i].pc = "warn"
    /\ ~setup.warn \/ (\A c \in setup.calls : c[1] # "log") =>
         Cardinality(HostFrames(Engine)) <= 1

=============================================================================

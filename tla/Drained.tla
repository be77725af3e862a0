-------------------------------- MODULE Drained --------------------------------
(***************************************************************************)
(* Session::wait_drained and the Activity guards (backend/src/session.rs): *)
(* an atomic counter, and a Notify that wakes only the waiters registered  *)
(* when it fires.  Task::wait and Task::finish (transfer.rs) follow the    *)
(* same protocol with a single guard, the unfinished task.                 *)
(*                                                                         *)
(* The session is cancelled and unpublished, so that guards are cloned     *)
(* from live ones (a transfer that starts) and not created otherwise.      *)
(***************************************************************************)
EXTENDS Naturals, FiniteSets

CONSTANT Guards

VARIABLES
    guard,       \* none, live, or about to notify after its last decrement
    active,      \* Session::active
    waiter,      \* where wait_drained is
    registered,  \* its Notified future is in the list of waiters
    woken        \* and has been notified

vars == <<guard, active, waiter, registered, woken>>

TypeOK ==
    /\ guard \in [Guards -> {"none", "live", "notifying"}]
    /\ active \in 0 .. Cardinality(Guards)
    /\ waiter \in {"enable", "check", "sleep", "asleep", "returned"}
    /\ registered \in BOOLEAN
    /\ woken \in BOOLEAN

Live == {g \in Guards : guard[g] = "live"}

Init ==
    /\ guard \in [Guards -> {"none", "live"}]
    /\ active = Cardinality(Live)
    /\ waiter = "enable"
    /\ registered = FALSE
    /\ woken = FALSE

(* Mutant of Clone: the new guard is not counted.                          *)
CloneUncounted(g, h) ==
    /\ guard[g] = "live" /\ guard[h] = "none"
    /\ guard' = [guard EXCEPT ![h] = "live"]
    /\ UNCHANGED <<active, waiter, registered, woken>>

(* Session::activity, called by the holder of a guard.                     *)
Clone(g, h) ==
    /\ guard[g] = "live" /\ guard[h] = "none"
    /\ guard' = [guard EXCEPT ![h] = "live"]
    /\ active' = active + 1
    /\ UNCHANGED <<waiter, registered, woken>>

(* Activity::drop: the decrement, and then, for the last guard, notify.    *)
Decrement(g) ==
    /\ guard[g] = "live"
    /\ active' = active - 1
    /\ guard' = [guard EXCEPT ![g] = IF active = 1 THEN "notifying" ELSE "none"]
    /\ UNCHANGED <<waiter, registered, woken>>

NotifyWaiters(g) ==
    /\ guard[g] = "notifying"
    /\ guard' = [guard EXCEPT ![g] = "none"]
    /\ woken' = (woken \/ registered)
    /\ UNCHANGED <<active, waiter, registered>>

(* Mutant of Enable: the waiter registers only when it goes to sleep.      *)
EnableOnSleep ==
    /\ waiter = "enable"
    /\ registered' = FALSE
    /\ woken' = FALSE
    /\ waiter' = "check"
    /\ UNCHANGED <<guard, active>>

(* One turn of the loop of wait_drained: register first, then look, and    *)
(* sleep until notified (awaiting registers what is not registered yet).   *)
Enable ==
    /\ waiter = "enable"
    /\ registered' = TRUE
    /\ woken' = FALSE
    /\ waiter' = "check"
    /\ UNCHANGED <<guard, active>>

Check ==
    /\ waiter = "check"
    /\ waiter' = IF active = 0 THEN "returned" ELSE "sleep"
    /\ UNCHANGED <<guard, active, registered, woken>>

Sleep ==
    /\ waiter = "sleep"
    /\ registered' = TRUE
    /\ waiter' = "asleep"
    /\ UNCHANGED <<guard, active, woken>>

Wake ==
    /\ waiter = "asleep" /\ woken
    /\ registered' = FALSE
    /\ waiter' = "enable"
    /\ UNCHANGED <<guard, active, woken>>

Waits == Enable \/ Check \/ Sleep \/ Wake

Next ==
    \/ Waits
    \/ \E g \in Guards :
          Decrement(g) \/ NotifyWaiters(g) \/ \E h \in Guards : Clone(g, h)

(* The waiter is scheduled, and a thread that has decremented goes on.     *)
Spec ==
    /\ Init /\ [][Next]_vars
    /\ WF_vars(Waits)
    /\ \A g \in Guards : WF_vars(NotifyWaiters(g))

-----------------------------------------------------------------------------
(* Properties.                                                             *)

Abstract == INSTANCE Quiesce WITH live <- Live, waiting <- (waiter # "returned")

(* wait_drained returns only when no guard is left, and does return after  *)
(* the last one: no wake-up is lost between its look at the counter and    *)
(* its sleep.                                                              *)
ImplementsQuiesce == Abstract!Spec

(* The counter counts the guards.                                          *)
CounterIsExact == active = Cardinality(Live)
=============================================================================

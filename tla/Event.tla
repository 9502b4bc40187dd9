------------------------------- MODULE Event -------------------------------
(***************************************************************************)
(* event.c: a flag to wait for, one action per step of event_set,          *)
(* event_reset, event_wait and event_timedwait between two points where    *)
(* another thread may run, and event_destroy.  The mutex and the condition *)
(* are those of Monitor.                                                   *)
(***************************************************************************)
EXTENDS Monitor

CONSTANT
  MaxSets      (* bound: how many times the clients call event_set         *)

ASSUME EventAssumption == MaxSets \in Nat

VARIABLES
  is_set,      (* event->is_set                                            *)
  pc,          (* where each thread is                                     *)
  sets,        (* ghost: calls of event_set begun                          *)
  released,    (* ghost: some wait has returned because the flag was up    *)
  destroyed    (* event_destroy has been called                            *)

ghosts == <<sets, released, destroyed>>
vars == <<monitor, is_set, pc, ghosts>>

SetSteps   == {"set_lock", "set_test", "set_broadcast", "set_unlock"}
ResetSteps == {"reset_lock", "reset_test", "reset_unlock"}
WaitSteps  == {"wait_lock", "wait_test", "wait_sleep", "wait_unlock"}
TimedSteps == {"timed_lock", "timed_test", "timed_sleep", "timed_unlock", "timed_late"}
Steps == {"idle"} \cup SetSteps \cup ResetSteps \cup WaitSteps \cup TimedSteps

(* event_init: mutex_init, cond_init and the flag.                         *)
Init ==
  /\ MonitorInit
  /\ is_set = FALSE
  /\ pc = [t \in Threads |-> "idle"]
  /\ sets = 0
  /\ released = FALSE
  /\ destroyed = FALSE

Goto(t, from, to) ==
  /\ pc[t] = from
  /\ pc' = [pc EXCEPT ![t] = to]

(* A step that takes the mutex, and one that leaves the monitor alone.     *)
Acquire(t, from, to) ==
  /\ Goto(t, from, to)
  /\ MutexLock(t)
  /\ UNCHANGED <<sleeping, signalled, expired, timedout, is_set, ghosts>>

Inside(t, from, to) ==
  /\ Goto(t, from, to)
  /\ UNCHANGED <<monitor, ghosts>>

(***************************************************************************)
(* event_set                                                               *)
(***************************************************************************)
SetCall(t) ==
  /\ ~destroyed
  /\ sets < MaxSets
  /\ Goto(t, "idle", "set_lock")
  /\ sets' = sets + 1
  /\ UNCHANGED <<monitor, is_set, released, destroyed>>

SetLock(t) == Acquire(t, "set_lock", "set_test")

SetTestUnlocksFirst(t) ==      \* mutant: the mutex is given up before the broadcast
  /\ ~is_set
  /\ Goto(t, "set_test", "set_broadcast")
  /\ is_set' = TRUE
  /\ MutexUnlock
  /\ UNCHANGED <<sleeping, signalled, expired, timedout, ghosts>>

SetTest(t) ==
  \/ /\ ~is_set
     /\ Inside(t, "set_test", "set_broadcast")
     /\ is_set' = TRUE
  \/ /\ is_set
     /\ Inside(t, "set_test", "set_unlock")
     /\ UNCHANGED is_set

SetBroadcastOne(t) ==          \* mutant: cond_signal in place of cond_broadcast
  /\ Goto(t, "set_broadcast", "set_unlock")
  /\ CondSignal
  /\ UNCHANGED <<is_set, ghosts>>

SetBroadcast(t) ==
  /\ Goto(t, "set_broadcast", "set_unlock")
  /\ CondBroadcast
  /\ UNCHANGED <<is_set, ghosts>>

SetUnlock(t) ==
  /\ Goto(t, "set_unlock", "idle")
  /\ MutexUnlock
  /\ UNCHANGED <<sleeping, signalled, expired, timedout, is_set, ghosts>>

(***************************************************************************)
(* event_reset                                                             *)
(***************************************************************************)
ResetCall(t) ==
  /\ ~destroyed
  /\ Inside(t, "idle", "reset_lock")
  /\ UNCHANGED is_set

ResetLock(t) == Acquire(t, "reset_lock", "reset_test")

(* Storing false where false is stored already changes nothing, so the     *)
(* code's test of the flag leaves no trace here.                           *)
ResetTest(t) ==
  /\ Inside(t, "reset_test", "reset_unlock")
  /\ is_set' = FALSE

ResetUnlock(t) ==
  /\ Goto(t, "reset_unlock", "idle")
  /\ MutexUnlock
  /\ UNCHANGED <<sleeping, signalled, expired, timedout, is_set, ghosts>>

(***************************************************************************)
(* event_wait                                                              *)
(***************************************************************************)
WaitCall(t) ==
  /\ ~destroyed
  /\ Inside(t, "idle", "wait_lock")
  /\ UNCHANGED is_set

WaitLock(t) == Acquire(t, "wait_lock", "wait_test")

WaitTest(t) ==
  /\ \/ /\ is_set
        /\ Goto(t, "wait_test", "wait_unlock")
        /\ UNCHANGED monitor
     \/ /\ ~is_set
        /\ Goto(t, "wait_test", "wait_sleep")
        /\ CondBlock(t)
  /\ UNCHANGED <<is_set, ghosts>>

WaitWakeReturns(t) ==          \* mutant: "if" instead of "while" around cond_wait
  /\ Goto(t, "wait_sleep", "wait_unlock")
  /\ CondReturn(t)
  /\ UNCHANGED <<is_set, ghosts>>

WaitWake(t) ==
  /\ Goto(t, "wait_sleep", "wait_test")
  /\ CondReturn(t)
  /\ UNCHANGED <<is_set, ghosts>>

WaitUnlock(t) ==
  /\ Goto(t, "wait_unlock", "idle")
  /\ MutexUnlock
  /\ released' = TRUE
  /\ UNCHANGED <<sleeping, signalled, expired, timedout, is_set, sets, destroyed>>

(***************************************************************************)
(* event_timedwait.  The absolute deadline is computed at the call, before *)
(* the mutex is asked for, and may pass at any moment of it.               *)
(***************************************************************************)
TimedCall(t) ==
  /\ ~destroyed
  /\ Inside(t, "idle", "timed_lock")
  /\ UNCHANGED is_set

TimedExpire(t) ==
  /\ pc[t] \in {"timed_lock", "timed_test", "timed_sleep"}
  /\ DeadlinePasses(t)
  /\ UNCHANGED <<is_set, pc, ghosts>>

TimedLock(t) == Acquire(t, "timed_lock", "timed_test")

TimedTest(t) ==
  /\ \/ /\ is_set
        /\ Goto(t, "timed_test", "timed_unlock")
        /\ UNCHANGED monitor
     \/ /\ ~is_set
        /\ Goto(t, "timed_test", "timed_sleep")
        /\ CondBlock(t)
  /\ UNCHANGED <<is_set, ghosts>>

TimedTimeout(t) ==
  /\ pc[t] = "timed_sleep"
  /\ CondTimeout(t)
  /\ UNCHANGED <<is_set, pc, ghosts>>

TimedWakeRetests(t) ==         \* mutant: do ... while (1), ret is not looked at
  /\ Goto(t, "timed_sleep", "timed_test")
  /\ CondReturn(t)
  /\ UNCHANGED <<is_set, ghosts>>

(* The loop ends on ETIMEDOUT without another look at the flag.            *)
TimedWake(t) ==
  /\ \/ t \in timedout /\ Goto(t, "timed_sleep", "timed_late")
     \/ t \notin timedout /\ Goto(t, "timed_sleep", "timed_test")
  /\ CondReturn(t)
  /\ UNCHANGED <<is_set, ghosts>>

TimedUnlock(t) ==
  /\ MutexUnlock
  /\ \/ Goto(t, "timed_unlock", "idle") /\ released' = TRUE
     \/ Goto(t, "timed_late", "idle") /\ UNCHANGED released
  /\ ForgetDeadline(t)
  /\ UNCHANGED <<sleeping, signalled, is_set, sets, destroyed>>

(***************************************************************************)
(* event_destroy, by a client that keeps its side of the bargain: the      *)
(* event has been set once, a wait has returned because of it, and nobody  *)
(* resets or waits any more.  The setter may still be inside event_set.    *)
(***************************************************************************)
EventDestroy(t) ==
  /\ ~destroyed
  /\ pc[t] = "idle"
  /\ sets = 1
  /\ released
  /\ \A u \in Threads : pc[u] \in {"idle"} \cup SetSteps
  /\ destroyed' = TRUE
  /\ UNCHANGED <<monitor, is_set, pc, sets, released>>

-----------------------------------------------------------------------------
WokenForNothing(t) ==
  /\ SpuriousWakeup(t)
  /\ UNCHANGED <<is_set, pc, ghosts>>

Call(t) == SetCall(t) \/ ResetCall(t) \/ WaitCall(t) \/ TimedCall(t)

(* The steps a thread inside a call has to take.                           *)
Progress(t) ==
  \/ SetLock(t) \/ SetTest(t) \/ SetBroadcast(t) \/ SetUnlock(t)
  \/ ResetLock(t) \/ ResetTest(t) \/ ResetUnlock(t)
  \/ WaitLock(t) \/ WaitTest(t) \/ WaitWake(t) \/ WaitUnlock(t)
  \/ TimedLock(t) \/ TimedTest(t) \/ TimedWake(t) \/ TimedUnlock(t)
  \/ TimedTimeout(t)

Next ==
  \E t \in Threads :
    \/ Call(t)
    \/ Progress(t)
    \/ TimedExpire(t)
    \/ WokenForNothing(t)
    \/ EventDestroy(t)

Spec == Init /\ [][Next]_vars

(* A thread that can run eventually runs, deadlines pass, and a thread     *)
(* cannot be woken for nothing for ever once its deadline is past, because *)
(* a cond_timedwait called after the deadline returns ETIMEDOUT.  Nothing  *)
(* makes a client call, and nothing makes the mutex fair.                  *)
Fairness ==
  \A t \in Threads :
    WF_vars(Progress(t)) /\ WF_vars(TimedExpire(t)) /\ SF_vars(TimedTimeout(t))

FairSpec == Spec /\ Fairness
-----------------------------------------------------------------------------
(***************************************************************************)
(* Correctness                                                             *)
(***************************************************************************)

(* The steps between taking the mutex and giving it up.                    *)
Holding == Steps \ {"idle", "set_lock", "reset_lock", "wait_lock", "timed_lock",
                    "wait_sleep", "timed_sleep"}

(* Every variable has its type, and the sets of the monitor only hold      *)
(* threads that are inside the call they speak of.                         *)
TypeOK ==
  /\ owner \in Threads \cup {NoThread}
  /\ is_set \in BOOLEAN
  /\ pc \in [Threads -> Steps]
  /\ sleeping \in SUBSET {t \in Threads : pc[t] \in {"wait_sleep", "timed_sleep"}}
  /\ signalled \in SUBSET {t \in Threads \ sleeping : pc[t] \in {"wait_sleep", "timed_sleep"}}
  /\ expired \in SUBSET {t \in Threads : pc[t] \in TimedSteps}
  /\ timedout \in SUBSET {t \in expired \ sleeping : pc[t] \in {"timed_sleep", "timed_late"}}
  /\ sets \in 0..MaxSets
  /\ released \in BOOLEAN
  /\ destroyed \in BOOLEAN

(* Mutual exclusion of the critical sections of event.c: the mutex is held *)
(* by exactly the thread that is between its mutex_lock (or the return of  *)
(* its cond_wait) and its mutex_unlock, so is_set is read and written by   *)
(* one thread at a time and every assert(ret == 0) of mutex_unlock holds.  *)
MutualExclusion ==
  \A t \in Threads : pc[t] \in Holding <=> owner = t

(* event_set broadcasts only when it finds the flag down (event.c:24).     *)
(* That is enough: nobody is ever left blocked under a raised flag, except *)
(* while the one thread that raised it is on its way to the broadcast.     *)
NobodySleepsThroughSet ==
  is_set /\ sleeping # {} => \E t \in Threads : pc[t] = "set_broadcast"

(* The other way round, a thread that raised the flag and has not yet told *)
(* the waiters still has the flag up: no event_reset slips in between, so  *)
(* the broadcast never announces a flag that is already down.              *)
BroadcastIsTrue ==
  \A t \in Threads : pc[t] = "set_broadcast" => is_set

(* event_set broadcasts before it unlocks, so a waiter released by the one *)
(* event_set may destroy the event without ever having synchronised with   *)
(* the setter: the mutex is free and nobody is blocked (the asserts of     *)
(* mutex_destroy and cond_destroy), and no thread touches it afterwards.   *)
NoUseAfterDestroy ==
  destroyed => /\ owner = NoThread
               /\ sleeping = {}
               /\ \A t \in Threads : pc[t] = "idle"

(* event.c implements the atomic flag of EventFlag.tla.                    *)
CallOf(s) ==
  CASE s = "idle" -> "none"
    [] s \in {"set_lock", "set_test"} -> "set"
    [] s \in {"reset_lock", "reset_test"} -> "reset"
    [] s \in {"set_broadcast", "set_unlock", "reset_unlock"} -> "done"
    [] s \in {"wait_lock", "wait_test", "wait_sleep"} -> "wait"
    [] s \in {"timed_lock", "timed_test", "timed_sleep"} -> "timed"
    [] s \in {"wait_unlock", "timed_unlock"} -> "released"
    [] s = "timed_late" -> "late"

Abstract == INSTANCE EventFlag WITH call <- [t \in Threads |-> CallOf(pc[t])]

ImplementsEventFlag == Abstract!Spec

(* If the flag stays up, everybody who waits for it gets away, even though *)
(* only the event_set that raised it broadcasts, provided the others leave *)
(* the mutex alone (pthreads does not promise a fair one).                 *)
WaiterReleased ==
  \A t \in Threads :
    <>[](is_set /\ owner \in {t, NoThread}) =>
      []<>(pc[t] \notin WaitSteps \cup TimedSteps)

(* An event_timedwait comes back, flag or not, once the other threads      *)
(* leave the mutex alone: however often the flag is raised and lowered     *)
(* again before it can look, its deadline ends the wait.                   *)
TimedWaitReturns ==
  \A t \in Threads :
    <>[](owner \in {t, NoThread}) => []<>(pc[t] \notin TimedSteps)
=============================================================================

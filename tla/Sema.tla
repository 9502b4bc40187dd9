-------------------------------- MODULE Sema --------------------------------
(***************************************************************************)
(* sema.c: the counting semaphore, one action per step of sema_post,       *)
(* sema_wait, sema_trywait and sema_timedwait between two points where     *)
(* another thread may run, and sema_destroy.  The mutex and the condition  *)
(* are those of Monitor.                                                   *)
(***************************************************************************)
EXTENDS Monitor

CONSTANTS
  InitValue,   (* the value given to sema_init                             *)
  MaxPosts     (* bound: how many times the clients call sema_post         *)

ASSUME SemaAssumption ==
  /\ InitValue \in Int
  /\ MaxPosts \in Nat

VARIABLES
  value,       (* sema->value                                              *)
  pc,          (* where each thread is                                     *)
  posted,      (* ghost: calls of sema_post begun                          *)
  acquired,    (* ghost: waits of any kind that returned with a token      *)
  swallowed,   (* ghost: signals whose receiver reported ETIMEDOUT         *)
  destroyed    (* sema_destroy has been called                             *)

ghosts == <<posted, acquired, swallowed, destroyed>>
vars == <<monitor, value, pc, ghosts>>

PostSteps  == {"post_lock", "post_inc", "post_signal", "post_unlock"}
WaitSteps  == {"wait_lock", "wait_test", "wait_sleep", "wait_take", "wait_unlock"}
TrySteps   == {"try_lock", "try_test", "try_take", "try_unlock", "try_fail"}
TimedSteps == {"timed_lock", "timed_test", "timed_sleep", "timed_take",
               "timed_unlock", "timed_fail"}
Steps == {"idle"} \cup PostSteps \cup WaitSteps \cup TrySteps \cup TimedSteps

(* sema_init: mutex_init, cond_init and the value.                         *)
Init ==
  /\ MonitorInit
  /\ value = InitValue
  /\ pc = [t \in Threads |-> "idle"]
  /\ posted = 0
  /\ acquired = 0
  /\ swallowed = 0
  /\ destroyed = FALSE

Goto(t, from, to) ==
  /\ pc[t] = from
  /\ pc' = [pc EXCEPT ![t] = to]

(* A step that takes the mutex, and one that only runs while holding it.   *)
Acquire(t, from, to) ==
  /\ Goto(t, from, to)
  /\ MutexLock(t)
  /\ UNCHANGED <<sleeping, signalled, expired, timedout, value, ghosts>>

Inside(t, from, to) ==
  /\ Goto(t, from, to)
  /\ UNCHANGED <<monitor, ghosts>>

(***************************************************************************)
(* sema_post                                                               *)
(***************************************************************************)
PostCall(t) ==
  /\ ~destroyed
  /\ posted < MaxPosts
  /\ Goto(t, "idle", "post_lock")
  /\ posted' = posted + 1
  /\ UNCHANGED <<monitor, value, acquired, swallowed, destroyed>>

PostLock(t) == Acquire(t, "post_lock", "post_inc")

PostIncUnlocksFirst(t) ==      \* mutant: the mutex is given up before the signal
  /\ Goto(t, "post_inc", "post_signal")
  /\ value' = value + 1
  /\ MutexUnlock
  /\ UNCHANGED <<sleeping, signalled, expired, timedout, ghosts>>

PostInc(t) ==
  /\ Inside(t, "post_inc", "post_signal")
  /\ value' = value + 1

PostSignalOnZero(t) ==         \* mutant: signals only when the value leaves zero
  /\ Goto(t, "post_signal", "post_unlock")
  /\ IF value = 1 THEN CondSignal ELSE UNCHANGED monitor
  /\ UNCHANGED <<value, ghosts>>

PostSignal(t) ==
  /\ Goto(t, "post_signal", "post_unlock")
  /\ CondSignal
  /\ UNCHANGED <<value, ghosts>>

PostUnlock(t) ==
  /\ Goto(t, "post_unlock", "idle")
  /\ MutexUnlock
  /\ UNCHANGED <<sleeping, signalled, expired, timedout, value, ghosts>>

(***************************************************************************)
(* sema_wait                                                               *)
(***************************************************************************)
WaitCall(t) ==
  /\ ~destroyed
  /\ Inside(t, "idle", "wait_lock")
  /\ UNCHANGED value

WaitLock(t) == Acquire(t, "wait_lock", "wait_test")

WaitTest(t) ==
  /\ \/ /\ value > 0
        /\ Goto(t, "wait_test", "wait_take")
        /\ UNCHANGED monitor
     \/ /\ value <= 0
        /\ Goto(t, "wait_test", "wait_sleep")
        /\ CondBlock(t)
  /\ UNCHANGED <<value, ghosts>>

WaitWakeTakes(t) ==            \* mutant: "if" instead of "while" around cond_wait
  /\ Goto(t, "wait_sleep", "wait_take")
  /\ CondReturn(t)
  /\ UNCHANGED <<value, ghosts>>

WaitWake(t) ==
  /\ Goto(t, "wait_sleep", "wait_test")
  /\ CondReturn(t)
  /\ UNCHANGED <<value, ghosts>>

WaitTake(t) ==
  /\ Inside(t, "wait_take", "wait_unlock")
  /\ value' = value - 1

WaitUnlock(t) ==
  /\ Goto(t, "wait_unlock", "idle")
  /\ MutexUnlock
  /\ acquired' = acquired + 1
  /\ UNCHANGED <<sleeping, signalled, expired, timedout, value,
                 posted, swallowed, destroyed>>

(***************************************************************************)
(* sema_trywait                                                            *)
(***************************************************************************)
TryCall(t) ==
  /\ ~destroyed
  /\ Inside(t, "idle", "try_lock")
  /\ UNCHANGED value

TryLock(t) == Acquire(t, "try_lock", "try_test")

TryTestOffByOne(t) ==          \* mutant: fails although one token is left
  /\ IF value > 1 THEN Inside(t, "try_test", "try_take")
                  ELSE Inside(t, "try_test", "try_fail")
  /\ UNCHANGED value

TryTest(t) ==
  /\ \/ value > 0 /\ Inside(t, "try_test", "try_take")
     \/ value <= 0 /\ Inside(t, "try_test", "try_fail")
  /\ UNCHANGED value

TryTake(t) ==
  /\ Inside(t, "try_take", "try_unlock")
  /\ value' = value - 1

TryUnlock(t) ==
  /\ MutexUnlock
  /\ \/ Goto(t, "try_unlock", "idle") /\ acquired' = acquired + 1
     \/ Goto(t, "try_fail", "idle") /\ acquired' = acquired
  /\ UNCHANGED <<sleeping, signalled, expired, timedout, value,
                 posted, swallowed, destroyed>>

(***************************************************************************)
(* sema_timedwait.  The absolute deadline is computed at the call, before  *)
(* the mutex is asked for, and may pass at any moment of it.               *)
(***************************************************************************)
TimedCall(t) ==
  /\ ~destroyed
  /\ Inside(t, "idle", "timed_lock")
  /\ UNCHANGED value

TimedExpire(t) ==
  /\ pc[t] \in {"timed_lock", "timed_test", "timed_sleep", "timed_take"}
  /\ DeadlinePasses(t)
  /\ UNCHANGED <<value, pc, ghosts>>

TimedLock(t) == Acquire(t, "timed_lock", "timed_test")

TimedTest(t) ==
  /\ \/ /\ value > 0
        /\ Goto(t, "timed_test", "timed_take")
        /\ UNCHANGED monitor
     \/ /\ value <= 0
        /\ Goto(t, "timed_test", "timed_sleep")
        /\ CondBlock(t)
  /\ UNCHANGED <<value, ghosts>>

TimedTimeout(t) ==
  /\ pc[t] = "timed_sleep"
  /\ CondTimeout(t)
  /\ swallowed' = IF t \in signalled THEN swallowed + 1 ELSE swallowed
  /\ UNCHANGED <<value, pc, posted, acquired, destroyed>>

TimedWakeRetests(t) ==         \* mutant: the loop ignores ret, no break
  /\ Goto(t, "timed_sleep", "timed_test")
  /\ CondReturn(t)
  /\ UNCHANGED <<value, ghosts>>

TimedWakeTakes(t) ==           \* mutant: value-- without "if (ret == 0)" before it
  /\ \/ t \in timedout /\ Goto(t, "timed_sleep", "timed_fail") /\ value' = value - 1
     \/ t \notin timedout /\ Goto(t, "timed_sleep", "timed_test") /\ value' = value
  /\ CondReturn(t)
  /\ UNCHANGED ghosts

TimedWake(t) ==
  /\ \/ t \in timedout /\ Goto(t, "timed_sleep", "timed_fail")
     \/ t \notin timedout /\ Goto(t, "timed_sleep", "timed_test")
  /\ CondReturn(t)
  /\ UNCHANGED <<value, ghosts>>

TimedTake(t) ==
  /\ Inside(t, "timed_take", "timed_unlock")
  /\ value' = value - 1

TimedUnlock(t) ==
  /\ MutexUnlock
  /\ \/ Goto(t, "timed_unlock", "idle") /\ acquired' = acquired + 1
     \/ Goto(t, "timed_fail", "idle") /\ acquired' = acquired
  /\ ForgetDeadline(t)
  /\ UNCHANGED <<sleeping, signalled, value, posted, swallowed, destroyed>>

(***************************************************************************)
(* sema_destroy, by a client that keeps its side of the bargain: nobody is *)
(* in a wait, nobody will post again, and every token ever posted has come *)
(* back from a wait.  A poster may still be inside sema_post.  (With a     *)
(* negative initial value that could hold before anything happened.)       *)
(***************************************************************************)
SemaDestroy(t) ==
  /\ ~destroyed
  /\ pc[t] = "idle"
  /\ InitValue >= 0
  /\ posted = MaxPosts
  /\ acquired = InitValue + MaxPosts
  /\ \A u \in Threads : pc[u] \in {"idle"} \cup PostSteps
  /\ destroyed' = TRUE
  /\ UNCHANGED <<monitor, value, pc, posted, acquired, swallowed>>

-----------------------------------------------------------------------------
WokenForNothing(t) ==
  /\ SpuriousWakeup(t)
  /\ UNCHANGED <<value, pc, ghosts>>

Call(t) == PostCall(t) \/ WaitCall(t) \/ TryCall(t) \/ TimedCall(t)

(* The steps a thread inside a call has to take, and the passing of time.  *)
Progress(t) ==
  \/ PostLock(t) \/ PostInc(t) \/ PostSignal(t) \/ PostUnlock(t)
  \/ WaitLock(t) \/ WaitTest(t) \/ WaitWake(t) \/ WaitTake(t) \/ WaitUnlock(t)
  \/ TryLock(t) \/ TryTest(t) \/ TryTake(t) \/ TryUnlock(t)
  \/ TimedLock(t) \/ TimedTest(t) \/ TimedWake(t) \/ TimedTake(t) \/ TimedUnlock(t)
  \/ TimedTimeout(t)

Next ==
  \E t \in Threads :
    \/ Call(t)
    \/ Progress(t)
    \/ TimedExpire(t)
    \/ WokenForNothing(t)
    \/ SemaDestroy(t)

Spec == Init /\ [][Next]_vars

(* A thread that can run eventually runs, deadlines pass, and a thread     *)
(* cannot be woken for nothing for ever once its deadline is past, because *)
(* a cond_timedwait called after the deadline returns ETIMEDOUT.  Nothing  *)
(* makes a client call, and nothing makes the mutex fair.                  *)
Fairness ==
  \A t \in Threads :
    WF_vars(Progress(t)) /\ WF_vars(TimedExpire(t)) /\ SF_vars(TimedTimeout(t))

FairSpec == Spec /\ Fairness
-----------------------------------------------------------------------------
(***************************************************************************)
(* Correctness                                                             *)
(***************************************************************************)

(* The steps between taking the mutex and giving it up.                    *)
Holding == Steps \ {"idle", "post_lock", "wait_lock", "try_lock", "timed_lock",
                    "wait_sleep", "timed_sleep"}

At(steps) == {t \in Threads : pc[t] \in steps}

(* Every variable has its type, and the sets of the monitor only hold      *)
(* threads that are inside the call they speak of.                         *)
TypeOK ==
  /\ owner \in Threads \cup {NoThread}
  /\ value \in Int
  /\ pc \in [Threads -> Steps]
  /\ sleeping \in SUBSET {t \in Threads : pc[t] \in {"wait_sleep", "timed_sleep"}}
  /\ signalled \in SUBSET {t \in Threads \ sleeping : pc[t] \in {"wait_sleep", "timed_sleep"}}
  /\ expired \in SUBSET {t \in Threads : pc[t] \in TimedSteps}
  /\ timedout \in SUBSET {t \in expired \ sleeping : pc[t] \in {"timed_sleep", "timed_fail"}}
  /\ posted \in 0..MaxPosts
  /\ acquired \in Nat
  /\ swallowed \in Nat
  /\ destroyed \in BOOLEAN

(* Mutual exclusion of the critical sections of sema.c: the mutex is held  *)
(* by exactly the thread that is between its mutex_lock (or the return of  *)
(* its cond_wait) and its mutex_unlock, so value is read and written by    *)
(* one thread at a time and every assert(ret == 0) of mutex_unlock holds.  *)
MutualExclusion ==
  \A t \in Threads : pc[t] \in Holding <=> owner = t

(* Whoever has seen a token still finds it when it gets to value--: the    *)
(* test and the decrement of all three waits are one critical section.     *)
TokenStillThere ==
  \A t \in Threads :
    pc[t] \in {"wait_take", "try_take", "timed_take"} => value > 0

(* Tokens are neither lost nor duplicated: those sema_post was asked to    *)
(* add are in value, were returned by a successful wait, or are in the     *)
(* hands of a thread between its update of value and its return.           *)
TokensConserved ==
  LET adding == Cardinality(At({"post_lock", "post_inc"}))
      taking == Cardinality(At({"wait_unlock", "try_unlock", "timed_unlock"}))
  IN  value = InitValue + (posted - adding) - (acquired + taking)

(* The threads that will look at value again, or signal, before they block *)
InFlight ==
  {t \in Threads :
     \/ pc[t] \in {"post_signal", "wait_test", "wait_take", "timed_test", "timed_take"}
     \/ pc[t] \in {"wait_sleep", "timed_sleep"} /\ t \notin sleeping \cup timedout}

(* No wakeup is lost: while a thread is blocked on the condition, there is *)
(* a thread under way for every token, save for the tokens whose signal    *)
(* went to a sema_timedwait that gave up instead of testing value again    *)
(* (sema.c:62-65 leaves the loop on ETIMEDOUT without looking).            *)
NoLostWakeup ==
  sleeping # {} => value <= Cardinality(InFlight) + swallowed

(* sema_post signals before it unlocks, so once all tokens are back the    *)
(* semaphore may be destroyed even by a thread that never synchronised     *)
(* with the posters: the mutex is free and nobody is blocked (the asserts  *)
(* of mutex_destroy and cond_destroy), and no thread touches it afterwards *)
NoUseAfterDestroy ==
  destroyed => /\ owner = NoThread
               /\ sleeping = {}
               /\ \A t \in Threads : pc[t] = "idle"

(* sema.c implements the atomic counting semaphore of Semaphore.tla.       *)
CallOf(s) ==
  CASE s = "idle" -> "none"
    [] s \in {"post_lock", "post_inc"} -> "post"
    [] s \in {"post_signal", "post_unlock"} -> "posted"
    [] s \in {"wait_lock", "wait_test", "wait_sleep", "wait_take"} -> "wait"
    [] s \in {"try_lock", "try_test", "try_take"} -> "try"
    [] s \in {"timed_lock", "timed_test", "timed_sleep", "timed_take"} -> "timed"
    [] s \in {"wait_unlock", "try_unlock", "timed_unlock"} -> "granted"
    [] s \in {"try_fail", "timed_fail"} -> "refused"

Abstract == INSTANCE Semaphore WITH call <- [t \in Threads |-> CallOf(pc[t])]

ImplementsSemaphore == Abstract!Spec

(* Whoever waits is not left waiting while tokens stay available, even if  *)
(* other threads keep barging in with sema_trywait or new waits, as long   *)
(* as no timeout swallows a signal (see NoLostWakeup).                     *)
WaiterServed ==
  [](swallowed = 0) => \A t \in Threads :
    []<>(pc[t] \notin {"wait_lock", "wait_test", "wait_sleep",
                       "timed_lock", "timed_test", "timed_sleep"} \/ value <= 0)

(* A sema_timedwait comes back, token or not, once the other threads leave *)
(* the mutex alone: neither a missing token nor stolen wakeups hold it.    *)
TimedWaitReturns ==
  \A t \in Threads :
    <>[](owner \in {t, NoThread}) => []<>(pc[t] \notin TimedSteps)
=============================================================================

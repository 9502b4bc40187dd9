------------------------------ MODULE Monitor ------------------------------
(***************************************************************************)
(* One mutex_t together with one cond_t, as mutex.c and cond.c wrap them:  *)
(* the pair every sema_t and every event_t is built from.                  *)
(*                                                                         *)
(* mutex.c and cond.c only forward to pthreads and assert the result, so   *)
(* the operators below are what POSIX promises of the forwarded call.  A   *)
(* wait on the condition is split where POSIX splits it: the caller gives  *)
(* the mutex up and blocks in one atomic step (CondBlock), is unblocked by *)
(* a signal, a timeout or spuriously, and has to take the mutex again      *)
(* before the call returns (CondReturn).                                   *)
(***************************************************************************)
EXTENDS Integers, FiniteSets

CONSTANTS
  Threads,    (* the threads that share the object                         *)
  NoThread    (* owner of a free mutex                                     *)

ASSUME MonitorAssumption ==
  /\ IsFiniteSet(Threads)
  /\ NoThread \notin Threads

VARIABLES
  owner,      (* the thread that holds the mutex, or NoThread              *)
  sleeping,   (* threads blocked on the condition                          *)
  signalled,  (* threads a signal unblocked that do not hold the mutex yet *)
  expired,    (* threads in a timed call whose absolute deadline is past   *)
  timedout    (* threads whose cond_timedwait has come back as ETIMEDOUT   *)

monitor == <<owner, sleeping, signalled, expired, timedout>>

MonitorInit ==
  /\ owner = NoThread
  /\ sleeping = {}
  /\ signalled = {}
  /\ expired = {}
  /\ timedout = {}

(***************************************************************************)
(* mutex.c.  The mutex is neither recursive nor fair.                      *)
(***************************************************************************)
MutexLock(t) ==
  /\ owner = NoThread
  /\ owner' = t

MutexUnlock ==
  owner' = NoThread

(***************************************************************************)
(* cond.c.                                                                 *)
(***************************************************************************)
CondBlock(t) ==
  /\ MutexUnlock
  /\ sleeping' = sleeping \cup {t}
  /\ UNCHANGED <<signalled, expired, timedout>>

CondReturn(t) ==
  /\ t \notin sleeping
  /\ MutexLock(t)
  /\ signalled' = signalled \ {t}
  /\ UNCHANGED <<sleeping, expired, timedout>>

CondSignal ==
  /\ \/ /\ sleeping = {}
        /\ UNCHANGED <<sleeping, signalled>>
     \/ \E w \in sleeping :
          /\ sleeping' = sleeping \ {w}
          /\ signalled' = signalled \cup {w}
  /\ UNCHANGED <<owner, expired, timedout>>

CondBroadcast ==
  /\ sleeping' = {}
  /\ signalled' = signalled \cup sleeping
  /\ UNCHANGED <<owner, expired, timedout>>

SpuriousWakeup(t) ==
  /\ t \in sleeping
  /\ sleeping' = sleeping \ {t}
  /\ UNCHANGED <<owner, signalled, expired, timedout>>

(* A waiter that a signal has already unblocked may still return           *)
(* ETIMEDOUT: POSIX says it "may consume a condition signal directed       *)
(* concurrently" at the condition.                                         *)
CondTimeout(t) ==
  /\ t \in expired
  /\ t \in sleeping \cup signalled
  /\ sleeping' = sleeping \ {t}
  /\ signalled' = signalled \ {t}
  /\ timedout' = timedout \cup {t}
  /\ UNCHANGED <<owner, expired>>

DeadlinePasses(t) ==
  /\ expired' = expired \cup {t}
  /\ UNCHANGED <<owner, sleeping, signalled, timedout>>

(* A timed call returns: its deadline and the ret of its wait are locals.  *)
ForgetDeadline(t) ==
  /\ expired' = expired \ {t}
  /\ timedout' = timedout \ {t}
=============================================================================

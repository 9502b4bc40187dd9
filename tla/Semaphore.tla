----------------------------- MODULE Semaphore -----------------------------
(***************************************************************************)
(* What sema.h promises: a counting semaphore whose every call takes       *)
(* effect in one indivisible step between its invocation and its return.   *)
(*   - sema_post adds a token;                                             *)
(*   - sema_wait, sema_trywait and sema_timedwait that succeed remove one, *)
(*     which has to be there;                                              *)
(*   - sema_trywait fails only at a moment with no token;                  *)
(*   - sema_timedwait fails only once its deadline has passed;             *)
(*   - sema_wait never fails.                                              *)
(* Sema.tla is shown to implement this module.                             *)
(***************************************************************************)
EXTENDS Integers

CONSTANTS
  Threads,    (* the callers                                               *)
  InitValue   (* the count given to sema_init                              *)

VARIABLES
  value,      (* tokens available                                          *)
  call,       (* the call each thread has in progress, or its outcome      *)
  expired     (* threads in a timed call whose deadline has passed         *)

vars == <<value, call, expired>>

Operations == {"post", "wait", "try", "timed"}
Outcomes   == {"posted", "granted", "refused"}

Init ==
  /\ value = InitValue
  /\ call = [t \in Threads |-> "none"]
  /\ expired = {}

Become(t, from, to) ==
  /\ call[t] \in from
  /\ call' = [call EXCEPT ![t] = to]

Invoke(t) ==
  /\ \E op \in Operations : Become(t, {"none"}, op)
  /\ UNCHANGED <<value, expired>>

Post(t) ==
  /\ Become(t, {"post"}, "posted")
  /\ value' = value + 1
  /\ UNCHANGED expired

Grant(t) ==
  /\ Become(t, {"wait", "try", "timed"}, "granted")
  /\ value > 0
  /\ value' = value - 1
  /\ UNCHANGED expired

Refuse(t) ==
  /\ \/ Become(t, {"try"}, "refused") /\ value <= 0
     \/ Become(t, {"timed"}, "refused") /\ t \in expired
  /\ UNCHANGED <<value, expired>>

Expire(t) ==
  /\ call[t] = "timed"
  /\ expired' = expired \cup {t}
  /\ UNCHANGED <<value, call>>

Return(t) ==
  /\ Become(t, Outcomes, "none")
  /\ expired' = expired \ {t}
  /\ UNCHANGED value

Next ==
  \E t \in Threads :
    Invoke(t) \/ Post(t) \/ Grant(t) \/ Refuse(t) \/ Expire(t) \/ Return(t)

Spec == Init /\ [][Next]_vars
=============================================================================

----------------------------- MODULE EventFlag -----------------------------
(***************************************************************************)
(* What event.h promises: a flag whose every call takes effect in one      *)
(* indivisible step between its invocation and its return.                 *)
(*   - event_set raises the flag, event_reset lowers it;                   *)
(*   - event_wait returns only after a moment at which the flag was up;    *)
(*   - event_timedwait returns 0 only after such a moment, and ETIMEDOUT   *)
(*     only once its deadline has passed.                                  *)
(* Event.tla is shown to implement this module.                            *)
(***************************************************************************)
CONSTANT Threads  (* the callers                                           *)

VARIABLES
  is_set,     (* the flag                                                  *)
  call,       (* the call each thread has in progress, or its outcome      *)
  expired     (* threads in a timed call whose deadline has passed         *)

vars == <<is_set, call, expired>>

Operations == {"set", "reset", "wait", "timed"}
Outcomes   == {"done", "released", "late"}

Init ==
  /\ is_set = FALSE
  /\ call = [t \in Threads |-> "none"]
  /\ expired = {}

Become(t, from, to) ==
  /\ call[t] \in from
  /\ call' = [call EXCEPT ![t] = to]

Invoke(t) ==
  /\ \E op \in Operations : Become(t, {"none"}, op)
  /\ UNCHANGED <<is_set, expired>>

Raise(t) ==
  /\ Become(t, {"set"}, "done")
  /\ is_set' = TRUE
  /\ UNCHANGED expired

Lower(t) ==
  /\ Become(t, {"reset"}, "done")
  /\ is_set' = FALSE
  /\ UNCHANGED expired

Release(t) ==
  /\ is_set
  /\ Become(t, {"wait", "timed"}, "released")
  /\ UNCHANGED <<is_set, expired>>

GiveUp(t) ==
  /\ t \in expired
  /\ Become(t, {"timed"}, "late")
  /\ UNCHANGED <<is_set, expired>>

Expire(t) ==
  /\ call[t] = "timed"
  /\ expired' = expired \cup {t}
  /\ UNCHANGED <<is_set, call>>

Return(t) ==
  /\ Become(t, Outcomes, "none")
  /\ expired' = expired \ {t}
  /\ UNCHANGED is_set

Next ==
  \E t \in Threads :
    \/ Invoke(t) \/ Raise(t) \/ Lower(t) \/ Release(t)
    \/ GiveUp(t) \/ Expire(t) \/ Return(t)

Spec == Init /\ [][Next]_vars
=============================================================================

-------------------------------- MODULE Sec --------------------------------
(***************************************************************************)
(* sec.c: the arithmetic behind the deadlines of sema_timedwait and        *)
(* event_timedwait, which read the clock, add the time to wait and convert *)
(* the sum to the timespec cond_timedwait takes.  A timeval and a timespec *)
(* are normalised: their second field stays below one second.              *)
(***************************************************************************)
EXTENDS Integers

CONSTANTS
  UsecPerSec,    (* USEC_PER_SEC                                           *)
  NsecPerUsec,   (* NSEC_PER_USEC                                          *)
  Times,         (* bound: what gettimeofday may say, in microseconds      *)
  Delays,        (* the times to wait, in microseconds                     *)
  MaxAdds        (* bound: how often time is added to one timeval          *)

ASSUME SecAssumption ==
  /\ UsecPerSec \in Nat \ {0}
  /\ NsecPerUsec \in Nat \ {0}
  /\ Times \subseteq Nat
  /\ Delays \subseteq Nat
  /\ MaxAdds \in Nat

VARIABLES
  tv,      (* struct timeval: fields sec and usec                          *)
  ts,      (* struct timespec: fields sec and nsec                         *)
  due,     (* ghost: the time tv has to stand for, in microseconds         *)
  adds     (* how often time was added                                     *)

secVars == <<tv, ts, due, adds>>

FromUsec(usec) == [sec |-> usec \div UsecPerSec, usec |-> usec % UsecPerSec]

SecInit ==
  /\ tv = FromUsec(0)
  /\ ts = [sec |-> 0, nsec |-> 0]
  /\ due = 0
  /\ adds = 0

(* timeval_now; gettimeofday itself returns a normalised timeval.          *)
TimevalNow ==
  \E now \in Times :
    /\ tv' = FromUsec(now)
    /\ due' = now
    /\ adds' = 0
    /\ UNCHANGED ts

TimevalFromUsec ==
  \E usec \in Delays :
    /\ tv' = FromUsec(usec)
    /\ due' = usec
    /\ adds' = 0
    /\ UNCHANGED ts

CarryLate(sum) ==              \* mutant: if (tv->tv_usec > USEC_PER_SEC)
  IF sum.usec > UsecPerSec
  THEN [sec |-> sum.sec + 1, usec |-> sum.usec - UsecPerSec]
  ELSE sum

Carry(sum) ==
  IF sum.usec >= UsecPerSec
  THEN [sec |-> sum.sec + 1, usec |-> sum.usec - UsecPerSec]
  ELSE sum

TimevalAddUsec ==
  \E usec \in Delays :
    /\ adds < MaxAdds
    /\ tv' = Carry([sec  |-> tv.sec + (usec \div UsecPerSec),
                    usec |-> tv.usec + (usec % UsecPerSec)])
    /\ due' = due + usec
    /\ adds' = adds + 1
    /\ UNCHANGED ts

TimespecInUsec ==              \* mutant: microseconds where nanoseconds belong
  /\ ts' = [sec |-> tv.sec, nsec |-> tv.usec]
  /\ UNCHANGED <<tv, due, adds>>

TimespecFromTimeval ==
  /\ ts' = [sec |-> tv.sec, nsec |-> tv.usec * NsecPerUsec]
  /\ UNCHANGED <<tv, due, adds>>

SecNext == TimevalNow \/ TimevalFromUsec \/ TimevalAddUsec \/ TimespecFromTimeval

SecSpec == SecInit /\ [][SecNext]_secVars
-----------------------------------------------------------------------------
(* The assertion of sec.c:26 holds, and a timespec made from the timeval   *)
(* is one pthread_cond_timedwait accepts: with a nanosecond field of a     *)
(* second or more it would fail with EINVAL and trip cond.c:37.            *)
DeadlineIsValid ==
  /\ tv.usec \in 0 .. (UsecPerSec - 1)
  /\ ts.nsec \in 0 .. (UsecPerSec * NsecPerUsec - 1)

(* The carry loses nothing: the timeval stands for the time of the clock   *)
(* plus everything that was added to it.                                   *)
DeadlineIsExact ==
  tv.sec * UsecPerSec + tv.usec = due

(* The timespec is the deadline itself, in nanoseconds: conversion neither *)
(* rounds it nor mistakes its unit.                                        *)
ConversionIsExact ==
  [][TimespecFromTimeval =>
       ts'.sec * UsecPerSec * NsecPerUsec + ts'.nsec = due * NsecPerUsec]_secVars
=============================================================================

---------------------------- MODULE EventProofs ----------------------------
(***************************************************************************)
(* Theorems about Event, for any set of threads and any number of sets.    *)
(***************************************************************************)
EXTENDS Event, TLAPS

(* event.c: every variable of the event keeps its type, and the sets of    *)
(* the condition only name threads inside the call they speak of.          *)
THEOREM TypeCorrect == Spec => []TypeOK
<1> USE MonitorAssumption, EventAssumption
<1> USE DEF TypeOK, Steps, SetSteps, ResetSteps, WaitSteps, TimedSteps
<1>1. Init => TypeOK
  <2>1. Init => is_set \in BOOLEAN /\ released \in BOOLEAN /\ destroyed \in BOOLEAN
    BY Zenon DEF Init
  <2>2. Init => sets \in 0..MaxSets
    BY DEF Init
  <2> QED
    BY <2>1, <2>2 DEF Init, MonitorInit
<1>2. TypeOK /\ [Next]_vars
      => TypeOK'
  <2> SUFFICES ASSUME TypeOK, [Next]_vars
               PROVE  TypeOK'
    OBVIOUS
  <2>1. ASSUME NEW t \in Threads, SetCall(t) PROVE TypeOK'
    BY <2>1 DEF SetCall, Goto, monitor, ghosts
  <2>2. ASSUME NEW t \in Threads, SetLock(t) PROVE TypeOK'
    BY <2>2 DEF SetLock, Acquire, MutexLock, Goto, monitor, ghosts
  <2>3. ASSUME NEW t \in Threads, SetTest(t) PROVE TypeOK'
    BY <2>3 DEF SetTest, Inside, Goto, monitor, ghosts
  <2>4. ASSUME NEW t \in Threads, SetBroadcast(t) PROVE TypeOK'
    BY <2>4 DEF SetBroadcast, CondBroadcast, Goto, monitor, ghosts
  <2>5. ASSUME NEW t \in Threads, SetUnlock(t) PROVE TypeOK'
    BY <2>5 DEF SetUnlock, MutexUnlock, Goto, monitor, ghosts
  <2>6. ASSUME NEW t \in Threads, ResetCall(t) PROVE TypeOK'
    BY <2>6 DEF ResetCall, Inside, Goto, monitor, ghosts
  <2>7. ASSUME NEW t \in Threads, ResetLock(t) PROVE TypeOK'
    BY <2>7 DEF ResetLock, Acquire, MutexLock, Goto, monitor, ghosts
  <2>8. ASSUME NEW t \in Threads, ResetTest(t) PROVE TypeOK'
    BY <2>8 DEF ResetTest, Inside, Goto, monitor, ghosts
  <2>9. ASSUME NEW t \in Threads, ResetUnlock(t) PROVE TypeOK'
    BY <2>9 DEF ResetUnlock, MutexUnlock, Goto, monitor, ghosts
  <2>10. ASSUME NEW t \in Threads, WaitCall(t) PROVE TypeOK'
    BY <2>10 DEF WaitCall, Inside, Goto, monitor, ghosts
  <2>11. ASSUME NEW t \in Threads, WaitLock(t) PROVE TypeOK'
    BY <2>11 DEF WaitLock, Acquire, MutexLock, Goto, monitor, ghosts
  <2>12. ASSUME NEW t \in Threads, WaitTest(t) PROVE TypeOK'
    BY <2>12 DEF WaitTest, CondBlock, MutexUnlock, Goto, monitor, ghosts
  <2>13. ASSUME NEW t \in Threads, WaitWake(t) PROVE TypeOK'
    BY <2>13 DEF WaitWake, CondReturn, MutexLock, Goto, monitor, ghosts
  <2>14. ASSUME NEW t \in Threads, WaitUnlock(t) PROVE TypeOK'
    BY <2>14 DEF WaitUnlock, MutexUnlock, Goto, monitor, ghosts
  <2>15. ASSUME NEW t \in Threads, TimedCall(t) PROVE TypeOK'
    BY <2>15 DEF TimedCall, Inside, Goto, monitor, ghosts
  <2>16. ASSUME NEW t \in Threads, TimedExpire(t) PROVE TypeOK'
    BY <2>16 DEF TimedExpire, DeadlinePasses, monitor, ghosts
  <2>17. ASSUME NEW t \in Threads, TimedLock(t) PROVE TypeOK'
    BY <2>17 DEF TimedLock, Acquire, MutexLock, Goto, monitor, ghosts
  <2>18. ASSUME NEW t \in Threads, TimedTest(t) PROVE TypeOK'
    BY <2>18 DEF TimedTest, CondBlock, MutexUnlock, Goto, monitor, ghosts
  <2>19. ASSUME NEW t \in Threads, TimedTimeout(t) PROVE TypeOK'
    BY <2>19 DEF TimedTimeout, CondTimeout, monitor, ghosts
  <2>20. ASSUME NEW t \in Threads, TimedWake(t) PROVE TypeOK'
    BY <2>20 DEF TimedWake, CondReturn, MutexLock, Goto, monitor, ghosts
  <2>21. ASSUME NEW t \in Threads, TimedUnlock(t) PROVE TypeOK'
    BY <2>21 DEF TimedUnlock, MutexUnlock, ForgetDeadline, Goto, monitor, ghosts
  <2>22. ASSUME NEW t \in Threads, EventDestroy(t) PROVE TypeOK'
    BY <2>22 DEF EventDestroy, monitor, ghosts
  <2>23. ASSUME NEW t \in Threads, WokenForNothing(t) PROVE TypeOK'
    BY <2>23 DEF WokenForNothing, SpuriousWakeup, monitor, ghosts
  <2>24. CASE UNCHANGED vars
    BY <2>24 DEF vars, monitor, ghosts
  <2> QED
    BY <2>1, <2>2, <2>3, <2>4, <2>5, <2>6, <2>7, <2>8, <2>9, <2>10, <2>11,
       <2>12, <2>13, <2>14, <2>15, <2>16, <2>17, <2>18, <2>19, <2>20, <2>21,
       <2>22, <2>23, <2>24
       DEF Next, Call, Progress
<1> QED
  BY <1>1, <1>2, PTL DEF Spec

(* event.c: the mutex is held by exactly the thread between its mutex_lock *)
(* (or the return of its cond_wait) and its mutex_unlock.                  *)
THEOREM Exclusion == Spec => []MutualExclusion
<1> USE MonitorAssumption, EventAssumption
<1> USE DEF TypeOK, MutualExclusion, Holding, Steps, SetSteps, ResetSteps, WaitSteps, TimedSteps
<1>1. Init => MutualExclusion
  BY DEF Init, MonitorInit
<1>2. TypeOK /\ MutualExclusion /\ [Next]_vars
      => MutualExclusion'
  <2> SUFFICES ASSUME TypeOK, MutualExclusion, [Next]_vars
               PROVE  MutualExclusion'
    OBVIOUS
  <2>1. ASSUME NEW t \in Threads, SetCall(t) PROVE MutualExclusion'
    BY <2>1 DEF SetCall, Goto, monitor, ghosts
  <2>2. ASSUME NEW t \in Threads, SetLock(t) PROVE MutualExclusion'
    BY <2>2 DEF SetLock, Acquire, MutexLock, Goto, monitor, ghosts
  <2>3. ASSUME NEW t \in Threads, SetTest(t) PROVE MutualExclusion'
    BY <2>3 DEF SetTest, Inside, Goto, monitor, ghosts
  <2>4. ASSUME NEW t \in Threads, SetBroadcast(t) PROVE MutualExclusion'
    BY <2>4 DEF SetBroadcast, CondBroadcast, Goto, monitor, ghosts
  <2>5. ASSUME NEW t \in Threads, SetUnlock(t) PROVE MutualExclusion'
    BY <2>5 DEF SetUnlock, MutexUnlock, Goto, monitor, ghosts
  <2>6. ASSUME NEW t \in Threads, ResetCall(t) PROVE MutualExclusion'
    BY <2>6 DEF ResetCall, Inside, Goto, monitor, ghosts
  <2>7. ASSUME NEW t \in Threads, ResetLock(t) PROVE MutualExclusion'
    BY <2>7 DEF ResetLock, Acquire, MutexLock, Goto, monitor, ghosts
  <2>8. ASSUME NEW t \in Threads, ResetTest(t) PROVE MutualExclusion'
    BY <2>8 DEF ResetTest, Inside, Goto, monitor, ghosts
  <2>9. ASSUME NEW t \in Threads, ResetUnlock(t) PROVE MutualExclusion'
    BY <2>9 DEF ResetUnlock, MutexUnlock, Goto, monitor, ghosts
  <2>10. ASSUME NEW t \in Threads, WaitCall(t) PROVE MutualExclusion'
    BY <2>10 DEF WaitCall, Inside, Goto, monitor, ghosts
  <2>11. ASSUME NEW t \in Threads, WaitLock(t) PROVE MutualExclusion'
    BY <2>11 DEF WaitLock, Acquire, MutexLock, Goto, monitor, ghosts
  <2>12. ASSUME NEW t \in Threads, WaitTest(t) PROVE MutualExclusion'
    BY <2>12 DEF WaitTest, CondBlock, MutexUnlock, Goto, monitor, ghosts
  <2>13. ASSUME NEW t \in Threads, WaitWake(t) PROVE MutualExclusion'
    BY <2>13 DEF WaitWake, CondReturn, MutexLock, Goto, monitor, ghosts
  <2>14. ASSUME NEW t \in Threads, WaitUnlock(t) PROVE MutualExclusion'
    BY <2>14 DEF WaitUnlock, MutexUnlock, Goto, monitor, ghosts
  <2>15. ASSUME NEW t \in Threads, TimedCall(t) PROVE MutualExclusion'
    BY <2>15 DEF TimedCall, Inside, Goto, monitor, ghosts
  <2>16. ASSUME NEW t \in Threads, TimedExpire(t) PROVE MutualExclusion'
    BY <2>16 DEF TimedExpire, DeadlinePasses, monitor, ghosts
  <2>17. ASSUME NEW t \in Threads, TimedLock(t) PROVE MutualExclusion'
    BY <2>17 DEF TimedLock, Acquire, MutexLock, Goto, monitor, ghosts
  <2>18. ASSUME NEW t \in Threads, TimedTest(t) PROVE MutualExclusion'
    BY <2>18 DEF TimedTest, CondBlock, MutexUnlock, Goto, monitor, ghosts
  <2>19. ASSUME NEW t \in Threads, TimedTimeout(t) PROVE MutualExclusion'
    BY <2>19 DEF TimedTimeout, CondTimeout, monitor, ghosts
  <2>20. ASSUME NEW t \in Threads, TimedWake(t) PROVE MutualExclusion'
    BY <2>20 DEF TimedWake, CondReturn, MutexLock, Goto, monitor, ghosts
  <2>21. ASSUME NEW t \in Threads, TimedUnlock(t) PROVE MutualExclusion'
    BY <2>21 DEF TimedUnlock, MutexUnlock, ForgetDeadline, Goto, monitor, ghosts
  <2>22. ASSUME NEW t \in Threads, EventDestroy(t) PROVE MutualExclusion'
    BY <2>22 DEF EventDestroy, monitor, ghosts
  <2>23. ASSUME NEW t \in Threads, WokenForNothing(t) PROVE MutualExclusion'
    BY <2>23 DEF WokenForNothing, SpuriousWakeup, monitor, ghosts
  <2>24. CASE UNCHANGED vars
    BY <2>24 DEF vars, monitor, ghosts
  <2> QED
    BY <2>1, <2>2, <2>3, <2>4, <2>5, <2>6, <2>7, <2>8, <2>9, <2>10, <2>11,
       <2>12, <2>13, <2>14, <2>15, <2>16, <2>17, <2>18, <2>19, <2>20, <2>21,
       <2>22, <2>23, <2>24
       DEF Next, Call, Progress
<1> QED
  BY <1>1, <1>2, TypeCorrect, PTL DEF Spec

(* event.c: nobody stays blocked under a raised flag, although event_set   *)
(* broadcasts only when it finds the flag down.                            *)
THEOREM SetWakesEverybody == Spec => []NobodySleepsThroughSet
<1> USE MonitorAssumption, EventAssumption
<1> USE DEF TypeOK, MutualExclusion, Holding, NobodySleepsThroughSet, Steps, SetSteps, ResetSteps, WaitSteps, TimedSteps
<1>1. Init => NobodySleepsThroughSet
  BY DEF Init, MonitorInit
<1>2. TypeOK /\ MutualExclusion /\ NobodySleepsThroughSet /\ [Next]_vars
      => NobodySleepsThroughSet'
  <2> SUFFICES ASSUME TypeOK, MutualExclusion, NobodySleepsThroughSet, [Next]_vars
               PROVE  NobodySleepsThroughSet'
    OBVIOUS
  <2>1. ASSUME NEW t \in Threads, SetCall(t) PROVE NobodySleepsThroughSet'
    BY <2>1 DEF SetCall, Goto, monitor, ghosts
  <2>2. ASSUME NEW t \in Threads, SetLock(t) PROVE NobodySleepsThroughSet'
    BY <2>2 DEF SetLock, Acquire, MutexLock, Goto, monitor, ghosts
  <2>3. ASSUME NEW t \in Threads, SetTest(t) PROVE NobodySleepsThroughSet'
    BY <2>3 DEF SetTest, Inside, Goto, monitor, ghosts
  <2>4. ASSUME NEW t \in Threads, SetBroadcast(t) PROVE NobodySleepsThroughSet'
    BY <2>4 DEF SetBroadcast, CondBroadcast, Goto, monitor, ghosts
  <2>5. ASSUME NEW t \in Threads, SetUnlock(t) PROVE NobodySleepsThroughSet'
    BY <2>5 DEF SetUnlock, MutexUnlock, Goto, monitor, ghosts
  <2>6. ASSUME NEW t \in Threads, ResetCall(t) PROVE NobodySleepsThroughSet'
    BY <2>6 DEF ResetCall, Inside, Goto, monitor, ghosts
  <2>7. ASSUME NEW t \in Threads, ResetLock(t) PROVE NobodySleepsThroughSet'
    BY <2>7 DEF ResetLock, Acquire, MutexLock, Goto, monitor, ghosts
  <2>8. ASSUME NEW t \in Threads, ResetTest(t) PROVE NobodySleepsThroughSet'
    BY <2>8 DEF ResetTest, Inside, Goto, monitor, ghosts
  <2>9. ASSUME NEW t \in Threads, ResetUnlock(t) PROVE NobodySleepsThroughSet'
    BY <2>9 DEF ResetUnlock, MutexUnlock, Goto, monitor, ghosts
  <2>10. ASSUME NEW t \in Threads, WaitCall(t) PROVE NobodySleepsThroughSet'
    BY <2>10 DEF WaitCall, Inside, Goto, monitor, ghosts
  <2>11. ASSUME NEW t \in Threads, WaitLock(t) PROVE NobodySleepsThroughSet'
    BY <2>11 DEF WaitLock, Acquire, MutexLock, Goto, monitor, ghosts
  <2>12. ASSUME NEW t \in Threads, WaitTest(t) PROVE NobodySleepsThroughSet'
    BY <2>12 DEF WaitTest, CondBlock, MutexUnlock, Goto, monitor, ghosts
  <2>13. ASSUME NEW t \in Threads, WaitWake(t) PROVE NobodySleepsThroughSet'
    BY <2>13 DEF WaitWake, CondReturn, MutexLock, Goto, monitor, ghosts
  <2>14. ASSUME NEW t \in Threads, WaitUnlock(t) PROVE NobodySleepsThroughSet'
    BY <2>14 DEF WaitUnlock, MutexUnlock, Goto, monitor, ghosts
  <2>15. ASSUME NEW t \in Threads, TimedCall(t) PROVE NobodySleepsThroughSet'
    BY <2>15 DEF TimedCall, Inside, Goto, monitor, ghosts
  <2>16. ASSUME NEW t \in Threads, TimedExpire(t) PROVE NobodySleepsThroughSet'
    BY <2>16 DEF TimedExpire, DeadlinePasses, monitor, ghosts
  <2>17. ASSUME NEW t \in Threads, TimedLock(t) PROVE NobodySleepsThroughSet'
    BY <2>17 DEF TimedLock, Acquire, MutexLock, Goto, monitor, ghosts
  <2>18. ASSUME NEW t \in Threads, TimedTest(t) PROVE NobodySleepsThroughSet'
    BY <2>18 DEF TimedTest, CondBlock, MutexUnlock, Goto, monitor, ghosts
  <2>19. ASSUME NEW t \in Threads, TimedTimeout(t) PROVE NobodySleepsThroughSet'
    BY <2>19 DEF TimedTimeout, CondTimeout, monitor, ghosts
  <2>20. ASSUME NEW t \in Threads, TimedWake(t) PROVE NobodySleepsThroughSet'
    BY <2>20 DEF TimedWake, CondReturn, MutexLock, Goto, monitor, ghosts
  <2>21. ASSUME NEW t \in Threads, TimedUnlock(t) PROVE NobodySleepsThroughSet'
    BY <2>21 DEF TimedUnlock, MutexUnlock, ForgetDeadline, Goto, monitor, ghosts
  <2>22. ASSUME NEW t \in Threads, EventDestroy(t) PROVE NobodySleepsThroughSet'
    BY <2>22 DEF EventDestroy, monitor, ghosts
  <2>23. ASSUME NEW t \in Threads, WokenForNothing(t) PROVE NobodySleepsThroughSet'
    BY <2>23 DEF WokenForNothing, SpuriousWakeup, monitor, ghosts
  <2>24. CASE UNCHANGED vars
    BY <2>24 DEF vars, monitor, ghosts
  <2> QED
    BY <2>1, <2>2, <2>3, <2>4, <2>5, <2>6, <2>7, <2>8, <2>9, <2>10, <2>11,
       <2>12, <2>13, <2>14, <2>15, <2>16, <2>17, <2>18, <2>19, <2>20, <2>21,
       <2>22, <2>23, <2>24
       DEF Next, Call, Progress
<1> QED
  BY <1>1, <1>2, TypeCorrect, Exclusion, PTL DEF Spec

(* event.c: no event_reset gets between raising the flag and telling the   *)
(* waiters.                                                                *)
THEOREM BroadcastSeesFlag == Spec => []BroadcastIsTrue
<1> USE MonitorAssumption, EventAssumption
<1> USE DEF TypeOK, MutualExclusion, Holding, BroadcastIsTrue, Steps, SetSteps, ResetSteps, WaitSteps, TimedSteps
<1>1. Init => BroadcastIsTrue
  BY DEF Init, MonitorInit
<1>2. TypeOK /\ MutualExclusion /\ BroadcastIsTrue /\ [Next]_vars
      => BroadcastIsTrue'
  <2> SUFFICES ASSUME TypeOK, MutualExclusion, BroadcastIsTrue, [Next]_vars
               PROVE  BroadcastIsTrue'
    OBVIOUS
  <2>1. ASSUME NEW t \in Threads, SetCall(t) PROVE BroadcastIsTrue'
    BY <2>1 DEF SetCall, Goto, monitor, ghosts
  <2>2. ASSUME NEW t \in Threads, SetLock(t) PROVE BroadcastIsTrue'
    BY <2>2 DEF SetLock, Acquire, MutexLock, Goto, monitor, ghosts
  <2>3. ASSUME NEW t \in Threads, SetTest(t) PROVE BroadcastIsTrue'
    BY <2>3 DEF SetTest, Inside, Goto, monitor, ghosts
  <2>4. ASSUME NEW t \in Threads, SetBroadcast(t) PROVE BroadcastIsTrue'
    BY <2>4 DEF SetBroadcast, CondBroadcast, Goto, monitor, ghosts
  <2>5. ASSUME NEW t \in Threads, SetUnlock(t) PROVE BroadcastIsTrue'
    BY <2>5 DEF SetUnlock, MutexUnlock, Goto, monitor, ghosts
  <2>6. ASSUME NEW t \in Threads, ResetCall(t) PROVE BroadcastIsTrue'
    BY <2>6 DEF ResetCall, Inside, Goto, monitor, ghosts
  <2>7. ASSUME NEW t \in Threads, ResetLock(t) PROVE BroadcastIsTrue'
    BY <2>7 DEF ResetLock, Acquire, MutexLock, Goto, monitor, ghosts
  <2>8. ASSUME NEW t \in Threads, ResetTest(t) PROVE BroadcastIsTrue'
    BY <2>8 DEF ResetTest, Inside, Goto, monitor, ghosts
  <2>9. ASSUME NEW t \in Threads, ResetUnlock(t) PROVE BroadcastIsTrue'
    BY <2>9 DEF ResetUnlock, MutexUnlock, Goto, monitor, ghosts
  <2>10. ASSUME NEW t \in Threads, WaitCall(t) PROVE BroadcastIsTrue'
    BY <2>10 DEF WaitCall, Inside, Goto, monitor, ghosts
  <2>11. ASSUME NEW t \in Threads, WaitLock(t) PROVE BroadcastIsTrue'
    BY <2>11 DEF WaitLock, Acquire, MutexLock, Goto, monitor, ghosts
  <2>12. ASSUME NEW t \in Threads, WaitTest(t) PROVE BroadcastIsTrue'
    BY <2>12 DEF WaitTest, CondBlock, MutexUnlock, Goto, monitor, ghosts
  <2>13. ASSUME NEW t \in Threads, WaitWake(t) PROVE BroadcastIsTrue'
    BY <2>13 DEF WaitWake, CondReturn, MutexLock, Goto, monitor, ghosts
  <2>14. ASSUME NEW t \in Threads, WaitUnlock(t) PROVE BroadcastIsTrue'
    BY <2>14 DEF WaitUnlock, MutexUnlock, Goto, monitor, ghosts
  <2>15. ASSUME NEW t \in Threads, TimedCall(t) PROVE BroadcastIsTrue'
    BY <2>15 DEF TimedCall, Inside, Goto, monitor, ghosts
  <2>16. ASSUME NEW t \in Threads, TimedExpire(t) PROVE BroadcastIsTrue'
    BY <2>16 DEF TimedExpire, DeadlinePasses, monitor, ghosts
  <2>17. ASSUME NEW t \in Threads, TimedLock(t) PROVE BroadcastIsTrue'
    BY <2>17 DEF TimedLock, Acquire, MutexLock, Goto, monitor, ghosts
  <2>18. ASSUME NEW t \in Threads, TimedTest(t) PROVE BroadcastIsTrue'
    BY <2>18 DEF TimedTest, CondBlock, MutexUnlock, Goto, monitor, ghosts
  <2>19. ASSUME NEW t \in Threads, TimedTimeout(t) PROVE BroadcastIsTrue'
    BY <2>19 DEF TimedTimeout, CondTimeout, monitor, ghosts
  <2>20. ASSUME NEW t \in Threads, TimedWake(t) PROVE BroadcastIsTrue'
    BY <2>20 DEF TimedWake, CondReturn, MutexLock, Goto, monitor, ghosts
  <2>21. ASSUME NEW t \in Threads, TimedUnlock(t) PROVE BroadcastIsTrue'
    BY <2>21 DEF TimedUnlock, MutexUnlock, ForgetDeadline, Goto, monitor, ghosts
  <2>22. ASSUME NEW t \in Threads, EventDestroy(t) PROVE BroadcastIsTrue'
    BY <2>22 DEF EventDestroy, monitor, ghosts
  <2>23. ASSUME NEW t \in Threads, WokenForNothing(t) PROVE BroadcastIsTrue'
    BY <2>23 DEF WokenForNothing, SpuriousWakeup, monitor, ghosts
  <2>24. CASE UNCHANGED vars
    BY <2>24 DEF vars, monitor, ghosts
  <2> QED
    BY <2>1, <2>2, <2>3, <2>4, <2>5, <2>6, <2>7, <2>8, <2>9, <2>10, <2>11,
       <2>12, <2>13, <2>14, <2>15, <2>16, <2>17, <2>18, <2>19, <2>20, <2>21,
       <2>22, <2>23, <2>24
       DEF Next, Call, Progress
<1> QED
  BY <1>1, <1>2, TypeCorrect, Exclusion, PTL DEF Spec

(* What makes it safe to destroy an event that was set once: until that    *)
(* event_set has given the mutex up for good, nobody has been released.    *)
NotYetReleased ==
  /\ ~released
  /\ \A u \in Threads : pc[u] \notin {"wait_unlock", "timed_unlock"}

SetterAlone ==
  /\ sets = 0 => /\ ~is_set
                 /\ NotYetReleased
                 /\ \A t \in Threads : pc[t] \notin SetSteps
  /\ sets = 1 => \A t \in Threads :
                   /\ pc[t] \in {"set_lock", "set_test"} => ~is_set
                   /\ pc[t] \in SetSteps =>
                        /\ NotYetReleased
                        /\ \A u \in Threads : pc[u] \in SetSteps => u = t

(* event.c: the one event_set of a one-shot event is over by the time a    *)
(* wait returns because of it.                                             *)
LEMMA SetterFirst == Spec => []SetterAlone
<1> USE MonitorAssumption, EventAssumption
<1> USE DEF TypeOK, MutualExclusion, Holding, SetterAlone, NotYetReleased, Steps, SetSteps, ResetSteps, WaitSteps, TimedSteps
<1>1. Init => SetterAlone
  BY DEF Init, MonitorInit
<1>2. TypeOK /\ MutualExclusion /\ SetterAlone /\ [Next]_vars
      => SetterAlone'
  <2> SUFFICES ASSUME TypeOK, MutualExclusion, SetterAlone, [Next]_vars
               PROVE  SetterAlone'
    OBVIOUS
  <2>1. ASSUME NEW t \in Threads, SetCall(t) PROVE SetterAlone'
    BY <2>1 DEF SetCall, Goto, monitor, ghosts
  <2>2. ASSUME NEW t \in Threads, SetLock(t) PROVE SetterAlone'
    BY <2>2 DEF SetLock, Acquire, MutexLock, Goto, monitor, ghosts
  <2>3. ASSUME NEW t \in Threads, SetTest(t) PROVE SetterAlone'
    BY <2>3 DEF SetTest, Inside, Goto, monitor, ghosts
  <2>4. ASSUME NEW t \in Threads, SetBroadcast(t) PROVE SetterAlone'
    BY <2>4 DEF SetBroadcast, CondBroadcast, Goto, monitor, ghosts
  <2>5. ASSUME NEW t \in Threads, SetUnlock(t) PROVE SetterAlone'
    BY <2>5 DEF SetUnlock, MutexUnlock, Goto, monitor, ghosts
  <2>6. ASSUME NEW t \in Threads, ResetCall(t) PROVE SetterAlone'
    BY <2>6 DEF ResetCall, Inside, Goto, monitor, ghosts
  <2>7. ASSUME NEW t \in Threads, ResetLock(t) PROVE SetterAlone'
    BY <2>7 DEF ResetLock, Acquire, MutexLock, Goto, monitor, ghosts
  <2>8. ASSUME NEW t \in Threads, ResetTest(t) PROVE SetterAlone'
    BY <2>8 DEF ResetTest, Inside, Goto, monitor, ghosts
  <2>9. ASSUME NEW t \in Threads, ResetUnlock(t) PROVE SetterAlone'
    BY <2>9 DEF ResetUnlock, MutexUnlock, Goto, monitor, ghosts
  <2>10. ASSUME NEW t \in Threads, WaitCall(t) PROVE SetterAlone'
    BY <2>10 DEF WaitCall, Inside, Goto, monitor, ghosts
  <2>11. ASSUME NEW t \in Threads, WaitLock(t) PROVE SetterAlone'
    BY <2>11 DEF WaitLock, Acquire, MutexLock, Goto, monitor, ghosts
  <2>12. ASSUME NEW t \in Threads, WaitTest(t) PROVE SetterAlone'
    BY <2>12 DEF WaitTest, CondBlock, MutexUnlock, Goto, monitor, ghosts
  <2>13. ASSUME NEW t \in Threads, WaitWake(t) PROVE SetterAlone'
    BY <2>13 DEF WaitWake, CondReturn, MutexLock, Goto, monitor, ghosts
  <2>14. ASSUME NEW t \in Threads, WaitUnlock(t) PROVE SetterAlone'
    BY <2>14 DEF WaitUnlock, MutexUnlock, Goto, monitor, ghosts
  <2>15. ASSUME NEW t \in Threads, TimedCall(t) PROVE SetterAlone'
    BY <2>15 DEF TimedCall, Inside, Goto, monitor, ghosts
  <2>16. ASSUME NEW t \in Threads, TimedExpire(t) PROVE SetterAlone'
    BY <2>16 DEF TimedExpire, DeadlinePasses, monitor, ghosts
  <2>17. ASSUME NEW t \in Threads, TimedLock(t) PROVE SetterAlone'
    BY <2>17 DEF TimedLock, Acquire, MutexLock, Goto, monitor, ghosts
  <2>18. ASSUME NEW t \in Threads, TimedTest(t) PROVE SetterAlone'
    BY <2>18 DEF TimedTest, CondBlock, MutexUnlock, Goto, monitor, ghosts
  <2>19. ASSUME NEW t \in Threads, TimedTimeout(t) PROVE SetterAlone'
    BY <2>19 DEF TimedTimeout, CondTimeout, monitor, ghosts
  <2>20. ASSUME NEW t \in Threads, TimedWake(t) PROVE SetterAlone'
    BY <2>20 DEF TimedWake, CondReturn, MutexLock, Goto, monitor, ghosts
  <2>21. ASSUME NEW t \in Threads, TimedUnlock(t) PROVE SetterAlone'
    BY <2>21 DEF TimedUnlock, MutexUnlock, ForgetDeadline, Goto, monitor, ghosts
  <2>22. ASSUME NEW t \in Threads, EventDestroy(t) PROVE SetterAlone'
    BY <2>22 DEF EventDestroy, monitor, ghosts
  <2>23. ASSUME NEW t \in Threads, WokenForNothing(t) PROVE SetterAlone'
    BY <2>23 DEF WokenForNothing, SpuriousWakeup, monitor, ghosts
  <2>24. CASE UNCHANGED vars
    BY <2>24 DEF vars, monitor, ghosts
  <2> QED
    BY <2>1, <2>2, <2>3, <2>4, <2>5, <2>6, <2>7, <2>8, <2>9, <2>10, <2>11,
       <2>12, <2>13, <2>14, <2>15, <2>16, <2>17, <2>18, <2>19, <2>20, <2>21,
       <2>22, <2>23, <2>24
       DEF Next, Call, Progress
<1> QED
  BY <1>1, <1>2, TypeCorrect, Exclusion, PTL DEF Spec

(* event.c: a waiter released by the only event_set may destroy the event  *)
(* at once; no setter is still using it.                                   *)
THEOREM SafeDestroy == Spec => []NoUseAfterDestroy
<1> USE DEF NoUseAfterDestroy
<1>1. Init => NoUseAfterDestroy
  BY DEF Init
<1>2. TypeOK /\ MutualExclusion /\ SetterAlone /\ NoUseAfterDestroy /\ [Next]_vars
      => NoUseAfterDestroy'
  <2> SUFFICES ASSUME TypeOK, MutualExclusion, SetterAlone, NoUseAfterDestroy, [Next]_vars
               PROVE  NoUseAfterDestroy'
    OBVIOUS
  (* A destroyed event stays as it is. *)
  <2>1. CASE destroyed
    <3>1. /\ \A t \in Threads : pc[t] = "idle"
          /\ sleeping = {} /\ timedout = {} /\ expired = {}
      BY <2>1 DEF TypeOK, TimedSteps
    <3> SUFFICES ASSUME NEW t \in Threads, ~UNCHANGED vars,
                        Call(t) \/ Progress(t) \/ TimedExpire(t) \/ WokenForNothing(t)
                          \/ EventDestroy(t)
                 PROVE  FALSE
      BY <2>1 DEF Next, vars, monitor, ghosts
    <3>2. ~Call(t) /\ ~EventDestroy(t)
      BY <2>1 DEF Call, SetCall, ResetCall, WaitCall, TimedCall, EventDestroy
    <3>3. ~TimedExpire(t) /\ ~WokenForNothing(t)
      BY <3>1 DEF TimedExpire, WokenForNothing, SpuriousWakeup
    <3>4. ~Progress(t)
      BY <3>1 DEF Progress, SetLock, SetTest, SetBroadcast, SetUnlock, ResetLock, ResetTest,
                  ResetUnlock, WaitLock, WaitTest, WaitWake, WaitUnlock, TimedLock, TimedTest,
                  TimedWake, TimedUnlock, TimedTimeout, Acquire, Inside, Goto
    <3> QED
      BY <3>2, <3>3, <3>4
  <2>2. ASSUME ~destroyed, NEW t \in Threads, EventDestroy(t) PROVE NoUseAfterDestroy'
    <3>1. /\ sets = 1 /\ released
          /\ \A u \in Threads : pc[u] \in {"idle"} \cup SetSteps
          /\ UNCHANGED <<monitor, pc>>
      BY <2>2 DEF EventDestroy
    <3>2. \A u \in Threads : pc[u] = "idle"
      BY <3>1 DEF SetterAlone, NotYetReleased
    <3>3. owner = NoThread /\ sleeping = {}
      BY <3>2 DEF MutualExclusion, Holding, TypeOK
    <3> QED
      BY <3>1, <3>2, <3>3 DEF monitor
  <2>3. ASSUME ~destroyed, NEW t \in Threads,
               Call(t) \/ Progress(t) \/ TimedExpire(t) \/ WokenForNothing(t)
        PROVE  destroyed' = destroyed
    BY <2>3 DEF Call, Progress, SetCall, SetLock, SetTest, SetBroadcast, SetUnlock,
                ResetCall, ResetLock, ResetTest, ResetUnlock, WaitCall, WaitLock, WaitTest,
                WaitWake, WaitUnlock, TimedCall, TimedExpire, TimedLock, TimedTest,
                TimedTimeout, TimedWake, TimedUnlock, WokenForNothing, Acquire, Inside, ghosts
  <2> QED
    BY <2>1, <2>2, <2>3 DEF Next, vars, ghosts
<1> QED
  BY <1>1, <1>2, TypeCorrect, Exclusion, SetterFirst, PTL DEF Spec

(* What each label means to the abstract flag, evaluated.                  *)
LEMMA CallOfLabels ==
  /\ CallOf("idle") = "none"
  /\ CallOf("set_lock") = "set"
  /\ CallOf("set_test") = "set"
  /\ CallOf("reset_lock") = "reset"
  /\ CallOf("reset_test") = "reset"
  /\ CallOf("set_broadcast") = "done"
  /\ CallOf("set_unlock") = "done"
  /\ CallOf("reset_unlock") = "done"
  /\ CallOf("wait_lock") = "wait"
  /\ CallOf("wait_test") = "wait"
  /\ CallOf("wait_sleep") = "wait"
  /\ CallOf("timed_lock") = "timed"
  /\ CallOf("timed_test") = "timed"
  /\ CallOf("timed_sleep") = "timed"
  /\ CallOf("wait_unlock") = "released"
  /\ CallOf("timed_unlock") = "released"
  /\ CallOf("timed_late") = "late"
BY DEF CallOf

(* event.c is an implementation of the atomic flag.                        *)
THEOREM Refinement == Spec => ImplementsEventFlag
<1> DEFINE callbar == [t \in Threads |-> CallOf(pc[t])]
<1>1. Init => Abstract!Init
  BY CallOfLabels DEF Init, MonitorInit, Abstract!Init
<1>2. TypeOK /\ [Next]_vars => [Abstract!Next]_<<is_set, callbar, expired>>
  <2> SUFFICES ASSUME TypeOK, [Next]_vars
               PROVE  Abstract!Next \/ UNCHANGED <<is_set, callbar, expired>>
    OBVIOUS
  (* What a step of one thread does to the call of that thread. *)
  <2>1. ASSUME NEW t \in Threads, NEW from, NEW to, Goto(t, from, to)
        PROVE  callbar[t] = CallOf(from) /\ callbar' = [callbar EXCEPT ![t] = CallOf(to)]
    BY <2>1 DEF Goto, TypeOK
  <2>2. \A t \in Threads : \A from, to, S :
          Goto(t, from, to) /\ CallOf(from) \in S => Abstract!Become(t, S, CallOf(to))
    BY <2>1 DEF Abstract!Become
  <2>3. \A t \in Threads : \A from, to :
          Goto(t, from, to) /\ CallOf(from) = CallOf(to) => callbar' = callbar
    BY <2>1 DEF Goto
  <2>4. pc' = pc => callbar' = callbar
    OBVIOUS
  <2>5. \A t \in Threads :
          \/ Abstract!Invoke(t) \/ Abstract!Raise(t) \/ Abstract!Lower(t)
          \/ Abstract!Release(t) \/ Abstract!GiveUp(t) \/ Abstract!Expire(t)
          \/ Abstract!Return(t)
          => Abstract!Next
    BY DEF Abstract!Next
  <2> HIDE DEF callbar
  <2> DEFINE Simulated == Abstract!Next \/ UNCHANGED <<is_set, callbar, expired>>
  <2>6. ASSUME NEW t \in Threads, SetCall(t) PROVE Simulated
    <3>1. Abstract!Invoke(t)
      BY <2>2, <2>6, CallOfLabels DEF SetCall, monitor, ghosts, Abstract!Invoke, Abstract!Operations
    <3> QED
      BY <2>5, <3>1
  <2>7. ASSUME NEW t \in Threads, SetLock(t) PROVE Simulated
    BY <2>3, <2>7, CallOfLabels DEF SetLock, Acquire, monitor, ghosts
  <2>8. ASSUME NEW t \in Threads, SetTest(t) PROVE Simulated
    <3>1. Abstract!Raise(t)
      <4>1. is_set' = TRUE /\ expired' = expired
        BY <2>8 DEF SetTest, Inside, monitor, TypeOK
      <4>2. Abstract!Become(t, {"set"}, "done")
        BY <2>2, <2>8, CallOfLabels DEF SetTest, Inside
      <4> QED
        BY <4>1, <4>2 DEF Abstract!Raise
    <3> QED
      BY <2>5, <3>1
  <2>9. ASSUME NEW t \in Threads, SetBroadcast(t) PROVE Simulated
    BY <2>3, <2>9, CallOfLabels DEF SetBroadcast, CondBroadcast, monitor, ghosts
  <2>10. ASSUME NEW t \in Threads, SetUnlock(t) PROVE Simulated
    <3>1. t \notin expired
      BY <2>10 DEF SetUnlock, Goto, TypeOK, TimedSteps
    <3>2. expired' = expired \ {t}
      BY <2>10, <3>1 DEF SetUnlock
    <3>3. Abstract!Return(t)
      BY <2>2, <2>10, <3>2, CallOfLabels DEF SetUnlock, Abstract!Return, Abstract!Outcomes
    <3> QED
      BY <2>5, <3>3
  <2>11. ASSUME NEW t \in Threads, ResetCall(t) PROVE Simulated
    <3>1. Abstract!Invoke(t)
      BY <2>2, <2>11, CallOfLabels DEF ResetCall, Inside, monitor, ghosts, Abstract!Invoke, Abstract!Operations
    <3> QED
      BY <2>5, <3>1
  <2>12. ASSUME NEW t \in Threads, ResetLock(t) PROVE Simulated
    BY <2>3, <2>12, CallOfLabels DEF ResetLock, Acquire, monitor, ghosts
  <2>13. ASSUME NEW t \in Threads, ResetTest(t) PROVE Simulated
    <3>1. Abstract!Lower(t)
      BY <2>2, <2>13, CallOfLabels DEF ResetTest, Inside, monitor, ghosts, Abstract!Lower
    <3> QED
      BY <2>5, <3>1
  <2>14. ASSUME NEW t \in Threads, ResetUnlock(t) PROVE Simulated
    <3>1. t \notin expired
      BY <2>14 DEF ResetUnlock, Goto, TypeOK, TimedSteps
    <3>2. expired' = expired \ {t}
      BY <2>14, <3>1 DEF ResetUnlock
    <3>3. Abstract!Return(t)
      BY <2>2, <2>14, <3>2, CallOfLabels DEF ResetUnlock, Abstract!Return, Abstract!Outcomes
    <3> QED
      BY <2>5, <3>3
  <2>15. ASSUME NEW t \in Threads, WaitCall(t) PROVE Simulated
    <3>1. Abstract!Invoke(t)
      BY <2>2, <2>15, CallOfLabels DEF WaitCall, Inside, monitor, ghosts, Abstract!Invoke, Abstract!Operations
    <3> QED
      BY <2>5, <3>1
  <2>16. ASSUME NEW t \in Threads, WaitLock(t) PROVE Simulated
    BY <2>3, <2>16, CallOfLabels DEF WaitLock, Acquire, monitor, ghosts
  <2>17. ASSUME NEW t \in Threads, WaitTest(t) PROVE Simulated
    <3>1. UNCHANGED <<is_set, expired>>
      BY <2>17 DEF WaitTest, CondBlock, monitor
    <3>2. CASE is_set /\ Goto(t, "wait_test", "wait_unlock")
      <4>1. Abstract!Release(t)
        BY <2>2, <3>1, <3>2, CallOfLabels DEF Abstract!Release
      <4> QED
        BY <2>5, <4>1
    <3>3. CASE Goto(t, "wait_test", "wait_sleep")
      BY <2>3, <3>1, <3>3, CallOfLabels
    <3> QED
      BY <2>17, <3>2, <3>3 DEF WaitTest
  <2>18. ASSUME NEW t \in Threads, WaitWake(t) PROVE Simulated
    BY <2>3, <2>18, CallOfLabels DEF WaitWake, CondReturn, monitor, ghosts
  <2>19. ASSUME NEW t \in Threads, WaitUnlock(t) PROVE Simulated
    <3>1. t \notin expired
      BY <2>19 DEF WaitUnlock, Goto, TypeOK, TimedSteps
    <3>2. expired' = expired \ {t}
      BY <2>19, <3>1 DEF WaitUnlock
    <3>3. Abstract!Return(t)
      BY <2>2, <2>19, <3>2, CallOfLabels DEF WaitUnlock, Abstract!Return, Abstract!Outcomes
    <3> QED
      BY <2>5, <3>3
  <2>20. ASSUME NEW t \in Threads, TimedCall(t) PROVE Simulated
    <3>1. Abstract!Invoke(t)
      BY <2>2, <2>20, CallOfLabels DEF TimedCall, Inside, monitor, ghosts, Abstract!Invoke, Abstract!Operations
    <3> QED
      BY <2>5, <3>1
  <2>21. ASSUME NEW t \in Threads, TimedExpire(t) PROVE Simulated
    <3>1. callbar[t] = "timed" /\ callbar' = callbar
      BY <2>4, <2>21, CallOfLabels DEF TimedExpire, callbar
    <3>2. Abstract!Expire(t)
      BY <2>21, <3>1 DEF TimedExpire, DeadlinePasses, Abstract!Expire, callbar
    <3> QED
      BY <2>5, <3>2
  <2>22. ASSUME NEW t \in Threads, TimedLock(t) PROVE Simulated
    BY <2>3, <2>22, CallOfLabels DEF TimedLock, Acquire, monitor, ghosts
  <2>23. ASSUME NEW t \in Threads, TimedTest(t) PROVE Simulated
    <3>1. UNCHANGED <<is_set, expired>>
      BY <2>23 DEF TimedTest, CondBlock, monitor
    <3>2. CASE is_set /\ Goto(t, "timed_test", "timed_unlock")
      <4>1. Abstract!Release(t)
        BY <2>2, <3>1, <3>2, CallOfLabels DEF Abstract!Release
      <4> QED
        BY <2>5, <4>1
    <3>3. CASE Goto(t, "timed_test", "timed_sleep")
      BY <2>3, <3>1, <3>3, CallOfLabels
    <3> QED
      BY <2>23, <3>2, <3>3 DEF TimedTest
  <2>24. ASSUME NEW t \in Threads, TimedTimeout(t) PROVE Simulated
    BY <2>4, <2>24 DEF TimedTimeout, CondTimeout, monitor, ghosts
  <2>25. ASSUME NEW t \in Threads, TimedWake(t) PROVE Simulated
    <3>1. UNCHANGED <<is_set, expired>>
      BY <2>25 DEF TimedWake, CondReturn
    <3>2. CASE t \in timedout /\ Goto(t, "timed_sleep", "timed_late")
      <4>1. t \in expired
        BY <3>2 DEF TypeOK
      <4>2. Abstract!GiveUp(t)
        BY <2>2, <3>1, <3>2, <4>1, CallOfLabels DEF Abstract!GiveUp
      <4> QED
        BY <2>5, <4>2
    <3>3. CASE Goto(t, "timed_sleep", "timed_test")
      BY <2>3, <3>1, <3>3, CallOfLabels
    <3> QED
      BY <2>25, <3>2, <3>3 DEF TimedWake
  <2>26. ASSUME NEW t \in Threads, TimedUnlock(t) PROVE Simulated
    <3>1. Abstract!Return(t)
      BY <2>2, <2>26, CallOfLabels DEF TimedUnlock, ForgetDeadline, monitor, ghosts, Abstract!Return, Abstract!Outcomes
    <3> QED
      BY <2>5, <3>1
  <2>27. ASSUME NEW t \in Threads, EventDestroy(t) PROVE Simulated
    BY <2>4, <2>27 DEF EventDestroy, monitor, ghosts
  <2>28. ASSUME NEW t \in Threads, WokenForNothing(t) PROVE Simulated
    BY <2>4, <2>28 DEF WokenForNothing, SpuriousWakeup, monitor, ghosts
  <2>29. CASE UNCHANGED vars
    BY <2>4, <2>29 DEF vars, monitor
  <2> QED
    BY <2>6, <2>7, <2>8, <2>9, <2>10, <2>11, <2>12, <2>13, <2>14, <2>15,
       <2>16, <2>17, <2>18, <2>19, <2>20, <2>21, <2>22, <2>23, <2>24, <2>25,
       <2>26, <2>27, <2>28, <2>29
       DEF Next, Call, Progress
<1> QED
  BY <1>1, <1>2, TypeCorrect, PTL
     DEF Spec, ImplementsEventFlag, Abstract!Spec, Abstract!vars
=============================================================================

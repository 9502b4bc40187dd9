----------------------------- MODULE SemaProofs -----------------------------
(***************************************************************************)
(* Theorems about Sema, for any finite set of threads, any initial value   *)
(* and any number of posts.                                                *)
(***************************************************************************)
EXTENDS Sema, FiniteSetTheorems, TLAPS

(* sema.c: every variable of the semaphore keeps its type, and the sets of *)
(* the condition only name threads inside the call they speak of.          *)
THEOREM TypeCorrect == Spec => []TypeOK
<1> USE SemaAssumption, MonitorAssumption
<1> USE DEF TypeOK, Steps, PostSteps, WaitSteps, TrySteps, TimedSteps
<1>1. Init => TypeOK
  <2>1. Init => destroyed \in BOOLEAN
    BY Zenon DEF Init
  <2>2. Init => posted \in 0..MaxPosts /\ acquired \in Nat /\ swallowed \in Nat
    BY DEF Init
  <2> QED
    BY <2>1, <2>2 DEF Init, MonitorInit
<1>2. TypeOK /\ [Next]_vars => TypeOK'
  <2> SUFFICES ASSUME TypeOK, [Next]_vars PROVE TypeOK'
    OBVIOUS
  <2>1. ASSUME NEW t \in Threads, PostCall(t) PROVE TypeOK'
    BY <2>1 DEF PostCall, Goto, monitor, ghosts
  <2>2. ASSUME NEW t \in Threads, PostLock(t) PROVE TypeOK'
    BY <2>2 DEF PostLock, Acquire, MutexLock, Goto, monitor, ghosts
  <2>3. ASSUME NEW t \in Threads, PostInc(t) PROVE TypeOK'
    BY <2>3 DEF PostInc, Inside, Goto, monitor, ghosts
  <2>4. ASSUME NEW t \in Threads, PostSignal(t) PROVE TypeOK'
    BY <2>4 DEF PostSignal, CondSignal, Goto, monitor, ghosts
  <2>5. ASSUME NEW t \in Threads, PostUnlock(t) PROVE TypeOK'
    BY <2>5 DEF PostUnlock, MutexUnlock, Goto, monitor, ghosts
  <2>6. ASSUME NEW t \in Threads, WaitCall(t) PROVE TypeOK'
    BY <2>6 DEF WaitCall, Inside, Goto, monitor, ghosts
  <2>7. ASSUME NEW t \in Threads, WaitLock(t) PROVE TypeOK'
    BY <2>7 DEF WaitLock, Acquire, MutexLock, Goto, monitor, ghosts
  <2>8. ASSUME NEW t \in Threads, WaitTest(t) PROVE TypeOK'
    BY <2>8 DEF WaitTest, CondBlock, MutexUnlock, Goto, monitor, ghosts
  <2>9. ASSUME NEW t \in Threads, WaitWake(t) PROVE TypeOK'
    BY <2>9 DEF WaitWake, CondReturn, MutexLock, Goto, monitor, ghosts
  <2>10. ASSUME NEW t \in Threads, WaitTake(t) PROVE TypeOK'
    BY <2>10 DEF WaitTake, Inside, Goto, monitor, ghosts
  <2>11. ASSUME NEW t \in Threads, WaitUnlock(t) PROVE TypeOK'
    BY <2>11 DEF WaitUnlock, MutexUnlock, Goto, monitor, ghosts
  <2>12. ASSUME NEW t \in Threads, TryCall(t) PROVE TypeOK'
    BY <2>12 DEF TryCall, Inside, Goto, monitor, ghosts
  <2>13. ASSUME NEW t \in Threads, TryLock(t) PROVE TypeOK'
    BY <2>13 DEF TryLock, Acquire, MutexLock, Goto, monitor, ghosts
  <2>14. ASSUME NEW t \in Threads, TryTest(t) PROVE TypeOK'
    BY <2>14 DEF TryTest, Inside, Goto, monitor, ghosts
  <2>15. ASSUME NEW t \in Threads, TryTake(t) PROVE TypeOK'
    BY <2>15 DEF TryTake, Inside, Goto, monitor, ghosts
  <2>16. ASSUME NEW t \in Threads, TryUnlock(t) PROVE TypeOK'
    BY <2>16 DEF TryUnlock, MutexUnlock, Goto, monitor, ghosts
  <2>17. ASSUME NEW t \in Threads, TimedCall(t) PROVE TypeOK'
    BY <2>17 DEF TimedCall, Inside, Goto, monitor, ghosts
  <2>18. ASSUME NEW t \in Threads, TimedExpire(t) PROVE TypeOK'
    BY <2>18 DEF TimedExpire, DeadlinePasses, monitor, ghosts
  <2>19. ASSUME NEW t \in Threads, TimedLock(t) PROVE TypeOK'
    BY <2>19 DEF TimedLock, Acquire, MutexLock, Goto, monitor, ghosts
  <2>20. ASSUME NEW t \in Threads, TimedTest(t) PROVE TypeOK'
    BY <2>20 DEF TimedTest, CondBlock, MutexUnlock, Goto, monitor, ghosts
  <2>21. ASSUME NEW t \in Threads, TimedTimeout(t) PROVE TypeOK'
    BY <2>21 DEF TimedTimeout, CondTimeout, monitor, ghosts
  <2>22. ASSUME NEW t \in Threads, TimedWake(t) PROVE TypeOK'
    BY <2>22 DEF TimedWake, CondReturn, MutexLock, Goto, monitor, ghosts
  <2>23. ASSUME NEW t \in Threads, TimedTake(t) PROVE TypeOK'
    BY <2>23 DEF TimedTake, Inside, Goto, monitor, ghosts
  <2>24. ASSUME NEW t \in Threads, TimedUnlock(t) PROVE TypeOK'
    BY <2>24 DEF TimedUnlock, MutexUnlock, ForgetDeadline, Goto, monitor, ghosts
  <2>25. ASSUME NEW t \in Threads, SemaDestroy(t) PROVE TypeOK'
    BY <2>25 DEF SemaDestroy, monitor, ghosts
  <2>26. ASSUME NEW t \in Threads, WokenForNothing(t) PROVE TypeOK'
    BY <2>26 DEF WokenForNothing, SpuriousWakeup, monitor, ghosts
  <2>27. CASE UNCHANGED vars
    BY <2>27 DEF vars, monitor, ghosts
  <2> QED
    BY <2>1, <2>2, <2>3, <2>4, <2>5, <2>6, <2>7, <2>8, <2>9, <2>10, <2>11, <2>12, <2>13, <2>14, <2>15, <2>16, <2>17, <2>18, <2>19, <2>20, <2>21, <2>22, <2>23, <2>24, <2>25, <2>26, <2>27 DEF Next, Call, Progress
<1> QED
  BY <1>1, <1>2, PTL DEF Spec


(* sema.c: the mutex is held by exactly the thread between its mutex_lock  *)
(* (or the return of its cond_wait) and its mutex_unlock.                  *)
THEOREM Exclusion == Spec => []MutualExclusion
<1> USE MonitorAssumption
<1> USE DEF TypeOK, MutualExclusion, Holding, Steps, PostSteps, WaitSteps,
            TrySteps, TimedSteps
<1>1. Init => MutualExclusion
  BY DEF Init, MonitorInit
<1>2. TypeOK /\ MutualExclusion /\ [Next]_vars => MutualExclusion'
  <2> SUFFICES ASSUME TypeOK, MutualExclusion, [Next]_vars PROVE MutualExclusion'
    OBVIOUS
  <2>1. ASSUME NEW t \in Threads, PostCall(t) PROVE MutualExclusion'
    BY <2>1 DEF PostCall, Goto, monitor, ghosts
  <2>2. ASSUME NEW t \in Threads, PostLock(t) PROVE MutualExclusion'
    BY <2>2 DEF PostLock, Acquire, MutexLock, Goto, monitor, ghosts
  <2>3. ASSUME NEW t \in Threads, PostInc(t) PROVE MutualExclusion'
    BY <2>3 DEF PostInc, Inside, Goto, monitor, ghosts
  <2>4. ASSUME NEW t \in Threads, PostSignal(t) PROVE MutualExclusion'
    BY <2>4 DEF PostSignal, CondSignal, Goto, monitor, ghosts
  <2>5. ASSUME NEW t \in Threads, PostUnlock(t) PROVE MutualExclusion'
    BY <2>5 DEF PostUnlock, MutexUnlock, Goto, monitor, ghosts
  <2>6. ASSUME NEW t \in Threads, WaitCall(t) PROVE MutualExclusion'
    BY <2>6 DEF WaitCall, Inside, Goto, monitor, ghosts
  <2>7. ASSUME NEW t \in Threads, WaitLock(t) PROVE MutualExclusion'
    BY <2>7 DEF WaitLock, Acquire, MutexLock, Goto, monitor, ghosts
  <2>8. ASSUME NEW t \in Threads, WaitTest(t) PROVE MutualExclusion'
    BY <2>8 DEF WaitTest, CondBlock, MutexUnlock, Goto, monitor, ghosts
  <2>9. ASSUME NEW t \in Threads, WaitWake(t) PROVE MutualExclusion'
    BY <2>9 DEF WaitWake, CondReturn, MutexLock, Goto, monitor, ghosts
  <2>10. ASSUME NEW t \in Threads, WaitTake(t) PROVE MutualExclusion'
    BY <2>10 DEF WaitTake, Inside, Goto, monitor, ghosts
  <2>11. ASSUME NEW t \in Threads, WaitUnlock(t) PROVE MutualExclusion'
    BY <2>11 DEF WaitUnlock, MutexUnlock, Goto, monitor, ghosts
  <2>12. ASSUME NEW t \in Threads, TryCall(t) PROVE MutualExclusion'
    BY <2>12 DEF TryCall, Inside, Goto, monitor, ghosts
  <2>13. ASSUME NEW t \in Threads, TryLock(t) PROVE MutualExclusion'
    BY <2>13 DEF TryLock, Acquire, MutexLock, Goto, monitor, ghosts
  <2>14. ASSUME NEW t \in Threads, TryTest(t) PROVE MutualExclusion'
    BY <2>14 DEF TryTest, Inside, Goto, monitor, ghosts
  <2>15. ASSUME NEW t \in Threads, TryTake(t) PROVE MutualExclusion'
    BY <2>15 DEF TryTake, Inside, Goto, monitor, ghosts
  <2>16. ASSUME NEW t \in Threads, TryUnlock(t) PROVE MutualExclusion'
    BY <2>16 DEF TryUnlock, MutexUnlock, Goto, monitor, ghosts
  <2>17. ASSUME NEW t \in Threads, TimedCall(t) PROVE MutualExclusion'
    BY <2>17 DEF TimedCall, Inside, Goto, monitor, ghosts
  <2>18. ASSUME NEW t \in Threads, TimedExpire(t) PROVE MutualExclusion'
    BY <2>18 DEF TimedExpire, DeadlinePasses, monitor, ghosts
  <2>19. ASSUME NEW t \in Threads, TimedLock(t) PROVE MutualExclusion'
    BY <2>19 DEF TimedLock, Acquire, MutexLock, Goto, monitor, ghosts
  <2>20. ASSUME NEW t \in Threads, TimedTest(t) PROVE MutualExclusion'
    BY <2>20 DEF TimedTest, CondBlock, MutexUnlock, Goto, monitor, ghosts
  <2>21. ASSUME NEW t \in Threads, TimedTimeout(t) PROVE MutualExclusion'
    BY <2>21 DEF TimedTimeout, CondTimeout, monitor, ghosts
  <2>22. ASSUME NEW t \in Threads, TimedWake(t) PROVE MutualExclusion'
    BY <2>22 DEF TimedWake, CondReturn, MutexLock, Goto, monitor, ghosts
  <2>23. ASSUME NEW t \in Threads, TimedTake(t) PROVE MutualExclusion'
    BY <2>23 DEF TimedTake, Inside, Goto, monitor, ghosts
  <2>24. ASSUME NEW t \in Threads, TimedUnlock(t) PROVE MutualExclusion'
    BY <2>24 DEF TimedUnlock, MutexUnlock, ForgetDeadline, Goto, monitor, ghosts
  <2>25. ASSUME NEW t \in Threads, SemaDestroy(t) PROVE MutualExclusion'
    BY <2>25 DEF SemaDestroy, monitor, ghosts
  <2>26. ASSUME NEW t \in Threads, WokenForNothing(t) PROVE MutualExclusion'
    BY <2>26 DEF WokenForNothing, SpuriousWakeup, monitor, ghosts
  <2>27. CASE UNCHANGED vars
    BY <2>27 DEF vars, monitor, ghosts
  <2> QED
    BY <2>1, <2>2, <2>3, <2>4, <2>5, <2>6, <2>7, <2>8, <2>9, <2>10, <2>11, <2>12, <2>13, <2>14, <2>15, <2>16, <2>17, <2>18, <2>19, <2>20, <2>21, <2>22, <2>23, <2>24, <2>25, <2>26, <2>27 DEF Next, Call, Progress
<1> QED
  BY <1>1, <1>2, TypeCorrect, PTL DEF Spec

(* However waiters, signals, timeouts and spurious wakeups interleave, no  *)
(* wait takes a token that is not there: value never falls below zero (or  *)
(* below what sema_init was given, when that was negative).                *)
NoTokenFromNothing ==
  value >= 0 \/ value >= InitValue

(* What is inductive about the tokens: value is not negative (or has not   *)
(* fallen below what it started from), and a thread about to take a token  *)
(* has one to take.                                                        *)
TokensThere == NoTokenFromNothing /\ TokenStillThere

(* sema.c: no interleaving of waits, posts, timeouts and spurious wakeups  *)
(* makes a wait take a token that is not there.                            *)
THEOREM NoPhantomToken == Spec => [](NoTokenFromNothing /\ TokenStillThere)
<1> USE MonitorAssumption, SemaAssumption
<1> USE DEF TypeOK, MutualExclusion, Holding, Steps, PostSteps, WaitSteps,
            TrySteps, TimedSteps, TokensThere, NoTokenFromNothing, TokenStillThere
<1>1. Init => TokensThere
  BY DEF Init, MonitorInit
<1>2. TypeOK /\ MutualExclusion /\ TokensThere /\ [Next]_vars => TokensThere'
  <2> SUFFICES ASSUME TypeOK, MutualExclusion, TokensThere, [Next]_vars
               PROVE  TokensThere'
    OBVIOUS
  <2>1. ASSUME NEW t \in Threads, PostCall(t) PROVE TokensThere'
    BY <2>1 DEF PostCall, Goto, monitor, ghosts
  <2>2. ASSUME NEW t \in Threads, PostLock(t) PROVE TokensThere'
    BY <2>2 DEF PostLock, Acquire, MutexLock, Goto, monitor, ghosts
  <2>3. ASSUME NEW t \in Threads, PostInc(t) PROVE TokensThere'
    BY <2>3 DEF PostInc, Inside, Goto, monitor, ghosts
  <2>4. ASSUME NEW t \in Threads, PostSignal(t) PROVE TokensThere'
    BY <2>4 DEF PostSignal, CondSignal, Goto, monitor, ghosts
  <2>5. ASSUME NEW t \in Threads, PostUnlock(t) PROVE TokensThere'
    BY <2>5 DEF PostUnlock, MutexUnlock, Goto, monitor, ghosts
  <2>6. ASSUME NEW t \in Threads, WaitCall(t) PROVE TokensThere'
    BY <2>6 DEF WaitCall, Inside, Goto, monitor, ghosts
  <2>7. ASSUME NEW t \in Threads, WaitLock(t) PROVE TokensThere'
    BY <2>7 DEF WaitLock, Acquire, MutexLock, Goto, monitor, ghosts
  <2>8. ASSUME NEW t \in Threads, WaitTest(t) PROVE TokensThere'
    BY <2>8 DEF WaitTest, CondBlock, MutexUnlock, Goto, monitor, ghosts
  <2>9. ASSUME NEW t \in Threads, WaitWake(t) PROVE TokensThere'
    BY <2>9 DEF WaitWake, CondReturn, MutexLock, Goto, monitor, ghosts
  <2>10. ASSUME NEW t \in Threads, WaitTake(t) PROVE TokensThere'
    BY <2>10 DEF WaitTake, Inside, Goto, monitor, ghosts
  <2>11. ASSUME NEW t \in Threads, WaitUnlock(t) PROVE TokensThere'
    BY <2>11 DEF WaitUnlock, MutexUnlock, Goto, monitor, ghosts
  <2>12. ASSUME NEW t \in Threads, TryCall(t) PROVE TokensThere'
    BY <2>12 DEF TryCall, Inside, Goto, monitor, ghosts
  <2>13. ASSUME NEW t \in Threads, TryLock(t) PROVE TokensThere'
    BY <2>13 DEF TryLock, Acquire, MutexLock, Goto, monitor, ghosts
  <2>14. ASSUME NEW t \in Threads, TryTest(t) PROVE TokensThere'
    BY <2>14 DEF TryTest, Inside, Goto, monitor, ghosts
  <2>15. ASSUME NEW t \in Threads, TryTake(t) PROVE TokensThere'
    BY <2>15 DEF TryTake, Inside, Goto, monitor, ghosts
  <2>16. ASSUME NEW t \in Threads, TryUnlock(t) PROVE TokensThere'
    BY <2>16 DEF TryUnlock, MutexUnlock, Goto, monitor, ghosts
  <2>17. ASSUME NEW t \in Threads, TimedCall(t) PROVE TokensThere'
    BY <2>17 DEF TimedCall, Inside, Goto, monitor, ghosts
  <2>18. ASSUME NEW t \in Threads, TimedExpire(t) PROVE TokensThere'
    BY <2>18 DEF TimedExpire, DeadlinePasses, monitor, ghosts
  <2>19. ASSUME NEW t \in Threads, TimedLock(t) PROVE TokensThere'
    BY <2>19 DEF TimedLock, Acquire, MutexLock, Goto, monitor, ghosts
  <2>20. ASSUME NEW t \in Threads, TimedTest(t) PROVE TokensThere'
    BY <2>20 DEF TimedTest, CondBlock, MutexUnlock, Goto, monitor, ghosts
  <2>21. ASSUME NEW t \in Threads, TimedTimeout(t) PROVE TokensThere'
    BY <2>21 DEF TimedTimeout, CondTimeout, monitor, ghosts
  <2>22. ASSUME NEW t \in Threads, TimedWake(t) PROVE TokensThere'
    BY <2>22 DEF TimedWake, CondReturn, MutexLock, Goto, monitor, ghosts
  <2>23. ASSUME NEW t \in Threads, TimedTake(t) PROVE TokensThere'
    BY <2>23 DEF TimedTake, Inside, Goto, monitor, ghosts
  <2>24. ASSUME NEW t \in Threads, TimedUnlock(t) PROVE TokensThere'
    BY <2>24 DEF TimedUnlock, MutexUnlock, ForgetDeadline, Goto, monitor, ghosts
  <2>25. ASSUME NEW t \in Threads, SemaDestroy(t) PROVE TokensThere'
    BY <2>25 DEF SemaDestroy, monitor, ghosts
  <2>26. ASSUME NEW t \in Threads, WokenForNothing(t) PROVE TokensThere'
    BY <2>26 DEF WokenForNothing, SpuriousWakeup, monitor, ghosts
  <2>27. CASE UNCHANGED vars
    BY <2>27 DEF vars, monitor, ghosts
  <2> QED
    BY <2>1, <2>2, <2>3, <2>4, <2>5, <2>6, <2>7, <2>8, <2>9, <2>10, <2>11, <2>12, <2>13, <2>14, <2>15, <2>16, <2>17, <2>18, <2>19, <2>20, <2>21, <2>22, <2>23, <2>24, <2>25, <2>26, <2>27 DEF Next, Call, Progress
<1>3. TokensThere => NoTokenFromNothing /\ TokenStillThere
  OBVIOUS
<1> QED
  BY <1>1, <1>2, <1>3, TypeCorrect, Exclusion, PTL DEF Spec

(* A step of one thread from one label to another: how it changes the      *)
(* number of threads at a set of labels.                                   *)
LEMMA CountAt ==
  ASSUME TypeOK, NEW S, NEW t \in Threads, NEW from, NEW to, Goto(t, from, to)
  PROVE  /\ Cardinality(At(S)) \in Nat
         /\ from \in S /\ to \in S => Cardinality(At(S))' = Cardinality(At(S))
         /\ from \notin S /\ to \notin S => Cardinality(At(S))' = Cardinality(At(S))
         /\ from \in S /\ to \notin S => Cardinality(At(S))' = Cardinality(At(S)) - 1
         /\ from \notin S /\ to \in S => Cardinality(At(S))' = Cardinality(At(S)) + 1
<1>1. pc \in [Threads -> Steps] /\ pc[t] = from /\ pc' = [pc EXCEPT ![t] = to]
  BY DEF TypeOK, Goto
<1>2. IsFiniteSet(At(S)) /\ Cardinality(At(S)) \in Nat
  <2>1. At(S) \in SUBSET Threads
    BY DEF At
  <2> QED
    BY <2>1, MonitorAssumption, FS_Subset, FS_CardinalityType
<1>3. CASE to \in S
  <2>1. At(S)' = At(S) \cup {t}
    BY <1>1, <1>3 DEF At
  <2>2. t \in At(S) <=> from \in S
    BY <1>1 DEF At
  <2> QED
    BY <1>2, <1>3, <2>1, <2>2, FS_AddElement
<1>4. CASE to \notin S
  <2>1. At(S)' = At(S) \ {t}
    BY <1>1, <1>4 DEF At
  <2>2. t \in At(S) <=> from \in S
    BY <1>1 DEF At
  <2> QED
    BY <1>2, <1>4, <2>1, <2>2, FS_RemoveElement
<1> QED
  BY <1>3, <1>4

(* sema.c: tokens are neither lost nor duplicated.                         *)
THEOREM Conservation == Spec => []TokensConserved
<1> DEFINE Adding == {"post_lock", "post_inc"}
           Taking == {"wait_unlock", "try_unlock", "timed_unlock"}
<1>1. Init => TokensConserved
  <2> SUFFICES ASSUME Init PROVE TokensConserved
    OBVIOUS
  <2>1. At(Adding) = {} /\ At(Taking) = {}
    BY DEF Init, At
  <2> QED
    BY <2>1, FS_EmptySet, SemaAssumption DEF Init, TokensConserved
<1>2. TypeOK /\ TokensConserved /\ [Next]_vars => TokensConserved'
  <2> SUFFICES ASSUME TypeOK, TokensConserved, [Next]_vars PROVE TokensConserved'
    OBVIOUS
  <2> DEFINE adding == Cardinality(At(Adding))
             taking == Cardinality(At(Taking))
  <2>1. \A t \in Threads : \A from, to : Goto(t, from, to) =>
          /\ adding \in Nat /\ taking \in Nat
          /\ from \in Adding /\ to \in Adding => adding' = adding
          /\ from \notin Adding /\ to \notin Adding => adding' = adding
          /\ from \in Adding /\ to \notin Adding => adding' = adding - 1
          /\ from \notin Adding /\ to \in Adding => adding' = adding + 1
          /\ from \in Taking /\ to \in Taking => taking' = taking
          /\ from \notin Taking /\ to \notin Taking => taking' = taking
          /\ from \in Taking /\ to \notin Taking => taking' = taking - 1
          /\ from \notin Taking /\ to \in Taking => taking' = taking + 1
    BY CountAt
  <2>2. /\ value = InitValue + (posted - adding) - (acquired + taking)
        /\ InitValue \in Int /\ value \in Int /\ posted \in Int /\ acquired \in Int
    BY SemaAssumption DEF TokensConserved, TypeOK
  <2>3. TokensConserved' <=>
          value' = InitValue + (posted' - adding') - (acquired' + taking')
    BY DEF TokensConserved
  <2>4. ASSUME UNCHANGED <<value, pc, posted, acquired>> PROVE TokensConserved'
    BY <2>2, <2>3, <2>4 DEF At
  <2> HIDE DEF adding, taking
  <2>5. ASSUME NEW t \in Threads, PostCall(t) PROVE TokensConserved'
    BY <2>1, <2>2, <2>3, <2>5 DEF PostCall, ghosts
  <2>6. ASSUME NEW t \in Threads, PostLock(t) PROVE TokensConserved'
    BY <2>1, <2>2, <2>3, <2>6 DEF PostLock, Acquire, ghosts
  <2>7. ASSUME NEW t \in Threads, PostInc(t) PROVE TokensConserved'
    BY <2>1, <2>2, <2>3, <2>7 DEF PostInc, Inside, ghosts
  <2>8. ASSUME NEW t \in Threads, PostSignal(t) PROVE TokensConserved'
    BY <2>1, <2>2, <2>3, <2>8 DEF PostSignal, ghosts
  <2>9. ASSUME NEW t \in Threads, PostUnlock(t) PROVE TokensConserved'
    BY <2>1, <2>2, <2>3, <2>9 DEF PostUnlock, ghosts
  <2>10. ASSUME NEW t \in Threads, WaitCall(t) PROVE TokensConserved'
    BY <2>1, <2>2, <2>3, <2>10 DEF WaitCall, Inside, ghosts
  <2>11. ASSUME NEW t \in Threads, WaitLock(t) PROVE TokensConserved'
    BY <2>1, <2>2, <2>3, <2>11 DEF WaitLock, Acquire, ghosts
  <2>12. ASSUME NEW t \in Threads, WaitTest(t) PROVE TokensConserved'
    BY <2>1, <2>2, <2>3, <2>12 DEF WaitTest, ghosts
  <2>13. ASSUME NEW t \in Threads, WaitWake(t) PROVE TokensConserved'
    BY <2>1, <2>2, <2>3, <2>13 DEF WaitWake, ghosts
  <2>14. ASSUME NEW t \in Threads, WaitTake(t) PROVE TokensConserved'
    BY <2>1, <2>2, <2>3, <2>14 DEF WaitTake, Inside, ghosts
  <2>15. ASSUME NEW t \in Threads, WaitUnlock(t) PROVE TokensConserved'
    BY <2>1, <2>2, <2>3, <2>15 DEF WaitUnlock, ghosts
  <2>16. ASSUME NEW t \in Threads, TryCall(t) PROVE TokensConserved'
    BY <2>1, <2>2, <2>3, <2>16 DEF TryCall, Inside, ghosts
  <2>17. ASSUME NEW t \in Threads, TryLock(t) PROVE TokensConserved'
    BY <2>1, <2>2, <2>3, <2>17 DEF TryLock, Acquire, ghosts
  <2>18. ASSUME NEW t \in Threads, TryTest(t) PROVE TokensConserved'
    BY <2>1, <2>2, <2>3, <2>18 DEF TryTest, Inside, ghosts
  <2>19. ASSUME NEW t \in Threads, TryTake(t) PROVE TokensConserved'
    BY <2>1, <2>2, <2>3, <2>19 DEF TryTake, Inside, ghosts
  <2>20. ASSUME NEW t \in Threads, TryUnlock(t) PROVE TokensConserved'
    BY <2>1, <2>2, <2>3, <2>20 DEF TryUnlock, ghosts
  <2>21. ASSUME NEW t \in Threads, TimedCall(t) PROVE TokensConserved'
    BY <2>1, <2>2, <2>3, <2>21 DEF TimedCall, Inside, ghosts
  <2>22. ASSUME NEW t \in Threads, TimedLock(t) PROVE TokensConserved'
    BY <2>1, <2>2, <2>3, <2>22 DEF TimedLock, Acquire, ghosts
  <2>23. ASSUME NEW t \in Threads, TimedTest(t) PROVE TokensConserved'
    BY <2>1, <2>2, <2>3, <2>23 DEF TimedTest, ghosts
  <2>24. ASSUME NEW t \in Threads, TimedWake(t) PROVE TokensConserved'
    BY <2>1, <2>2, <2>3, <2>24 DEF TimedWake, ghosts
  <2>25. ASSUME NEW t \in Threads, TimedTake(t) PROVE TokensConserved'
    BY <2>1, <2>2, <2>3, <2>25 DEF TimedTake, Inside, ghosts
  <2>26. ASSUME NEW t \in Threads, TimedUnlock(t) PROVE TokensConserved'
    <3>1. CASE Goto(t, "timed_unlock", "idle") /\ acquired' = acquired + 1
      BY <2>1, <2>2, <2>3, <2>26, <3>1 DEF TimedUnlock
    <3>2. CASE Goto(t, "timed_fail", "idle") /\ acquired' = acquired
      BY <2>1, <2>2, <2>3, <2>26, <3>2 DEF TimedUnlock
    <3> QED
      BY <2>26, <3>1, <3>2 DEF TimedUnlock
  <2>27. ASSUME NEW t \in Threads, TimedExpire(t) PROVE TokensConserved'
    BY <2>4, <2>27 DEF TimedExpire, ghosts
  <2>28. ASSUME NEW t \in Threads, TimedTimeout(t) PROVE TokensConserved'
    BY <2>4, <2>28 DEF TimedTimeout, ghosts
  <2>29. ASSUME NEW t \in Threads, SemaDestroy(t) PROVE TokensConserved'
    BY <2>4, <2>29 DEF SemaDestroy, ghosts
  <2>30. ASSUME NEW t \in Threads, WokenForNothing(t) PROVE TokensConserved'
    BY <2>4, <2>30 DEF WokenForNothing, ghosts
  <2>31. CASE UNCHANGED vars
    BY <2>4, <2>31 DEF vars, ghosts
  <2> QED
    BY <2>5, <2>6, <2>7, <2>8, <2>9, <2>10, <2>11, <2>12, <2>13, <2>14, <2>15, <2>16, <2>17, <2>18, <2>19, <2>20, <2>21, <2>22, <2>23, <2>24, <2>25, <2>26, <2>27, <2>28, <2>29, <2>30, <2>31 DEF Next, Call, Progress
<1> QED
  BY <1>1, <1>2, TypeCorrect, PTL DEF Spec

(* sema.c: while a thread is blocked on the condition, there is a thread   *)
(* under way for every token, but for the signals a timeout swallowed.     *)
THEOREM WakeupsKept == Spec => []NoLostWakeup
<1>1. Init => NoLostWakeup
  BY DEF Init, MonitorInit, NoLostWakeup
<1>2. TypeOK /\ NoLostWakeup /\ [Next]_vars => NoLostWakeup'
  <2> SUFFICES ASSUME TypeOK, NoLostWakeup, [Next]_vars PROVE NoLostWakeup'
    OBVIOUS
  <2>1. IsFiniteSet(InFlight) /\ IsFiniteSet(InFlight')
    <3>1. InFlight \in SUBSET Threads /\ InFlight' \in SUBSET Threads
      BY DEF InFlight
    <3> QED
      BY <3>1, MonitorAssumption, FS_Subset
  <2>2. PICK n \in Nat, m \in Nat : n = Cardinality(InFlight) /\ m = Cardinality(InFlight')
    BY <2>1, FS_CardinalityType
  <2>3. /\ sleeping # {} => value <= n + swallowed
        /\ value \in Int /\ swallowed \in Nat
    BY <2>2 DEF NoLostWakeup, TypeOK
  <2>4. NoLostWakeup' <=> (sleeping' # {} => value' <= m + swallowed')
    BY <2>2 DEF NoLostWakeup
  (* The three ways a step changes the threads in flight. *)
  <2>5. InFlight \subseteq InFlight' => n <= m
    BY <2>1, <2>2, FS_Subset
  <2>6. \A t : t \notin InFlight /\ InFlight' = InFlight \cup {t} => m = n + 1
    BY <2>1, <2>2, FS_AddElement
  <2>7. \A t : t \in InFlight /\ InFlight' = InFlight \ {t} => m = n - 1
    BY <2>1, <2>2, FS_RemoveElement
  <2>8. ASSUME NEW t \in Threads, PostCall(t) PROVE NoLostWakeup'
    <3>1. /\ InFlight \subseteq InFlight'
          /\ sleeping' \subseteq sleeping
      BY <2>8 DEF PostCall, Goto, monitor, ghosts, InFlight, TypeOK
    <3>2. value' \in Int /\ value' <= value /\ swallowed' = swallowed
      BY <2>8, <2>3 DEF PostCall, Goto, monitor, ghosts
    <3> QED
      BY <2>2, <2>3, <2>4, <2>5, <3>1, <3>2
  <2>9. ASSUME NEW t \in Threads, PostLock(t) PROVE NoLostWakeup'
    <3>1. /\ InFlight \subseteq InFlight'
          /\ sleeping' \subseteq sleeping
      BY <2>9 DEF PostLock, Acquire, MutexLock, Goto, monitor, ghosts, InFlight, TypeOK
    <3>2. value' \in Int /\ value' <= value /\ swallowed' = swallowed
      BY <2>9, <2>3 DEF PostLock, Acquire, MutexLock, Goto, monitor, ghosts
    <3> QED
      BY <2>2, <2>3, <2>4, <2>5, <3>1, <3>2
  <2>10. ASSUME NEW t \in Threads, PostUnlock(t) PROVE NoLostWakeup'
    <3>1. /\ InFlight \subseteq InFlight'
          /\ sleeping' \subseteq sleeping
      BY <2>10 DEF PostUnlock, MutexUnlock, Goto, monitor, ghosts, InFlight, TypeOK
    <3>2. value' \in Int /\ value' <= value /\ swallowed' = swallowed
      BY <2>10, <2>3 DEF PostUnlock, MutexUnlock, Goto, monitor, ghosts
    <3> QED
      BY <2>2, <2>3, <2>4, <2>5, <3>1, <3>2
  <2>11. ASSUME NEW t \in Threads, WaitCall(t) PROVE NoLostWakeup'
    <3>1. /\ InFlight \subseteq InFlight'
          /\ sleeping' \subseteq sleeping
      BY <2>11 DEF WaitCall, Inside, Goto, monitor, ghosts, InFlight, TypeOK
    <3>2. value' \in Int /\ value' <= value /\ swallowed' = swallowed
      BY <2>11, <2>3 DEF WaitCall, Inside, Goto, monitor, ghosts
    <3> QED
      BY <2>2, <2>3, <2>4, <2>5, <3>1, <3>2
  <2>12. ASSUME NEW t \in Threads, WaitLock(t) PROVE NoLostWakeup'
    <3>1. /\ InFlight \subseteq InFlight'
          /\ sleeping' \subseteq sleeping
      BY <2>12 DEF WaitLock, Acquire, MutexLock, Goto, monitor, ghosts, InFlight, TypeOK
    <3>2. value' \in Int /\ value' <= value /\ swallowed' = swallowed
      BY <2>12, <2>3 DEF WaitLock, Acquire, MutexLock, Goto, monitor, ghosts
    <3> QED
      BY <2>2, <2>3, <2>4, <2>5, <3>1, <3>2
  <2>13. ASSUME NEW t \in Threads, WaitWake(t) PROVE NoLostWakeup'
    <3>1. /\ InFlight \subseteq InFlight'
          /\ sleeping' \subseteq sleeping
      BY <2>13 DEF WaitWake, CondReturn, MutexLock, Goto, monitor, ghosts, InFlight, TypeOK
    <3>2. value' \in Int /\ value' <= value /\ swallowed' = swallowed
      BY <2>13, <2>3 DEF WaitWake, CondReturn, MutexLock, Goto, monitor, ghosts
    <3> QED
      BY <2>2, <2>3, <2>4, <2>5, <3>1, <3>2
  <2>14. ASSUME NEW t \in Threads, WaitUnlock(t) PROVE NoLostWakeup'
    <3>1. /\ InFlight \subseteq InFlight'
          /\ sleeping' \subseteq sleeping
      BY <2>14 DEF WaitUnlock, MutexUnlock, Goto, monitor, ghosts, InFlight, TypeOK
    <3>2. value' \in Int /\ value' <= value /\ swallowed' = swallowed
      BY <2>14, <2>3 DEF WaitUnlock, MutexUnlock, Goto, monitor, ghosts
    <3> QED
      BY <2>2, <2>3, <2>4, <2>5, <3>1, <3>2
  <2>15. ASSUME NEW t \in Threads, TryCall(t) PROVE NoLostWakeup'
    <3>1. /\ InFlight \subseteq InFlight'
          /\ sleeping' \subseteq sleeping
      BY <2>15 DEF TryCall, Inside, Goto, monitor, ghosts, InFlight, TypeOK
    <3>2. value' \in Int /\ value' <= value /\ swallowed' = swallowed
      BY <2>15, <2>3 DEF TryCall, Inside, Goto, monitor, ghosts
    <3> QED
      BY <2>2, <2>3, <2>4, <2>5, <3>1, <3>2
  <2>16. ASSUME NEW t \in Threads, TryLock(t) PROVE NoLostWakeup'
    <3>1. /\ InFlight \subseteq InFlight'
          /\ sleeping' \subseteq sleeping
      BY <2>16 DEF TryLock, Acquire, MutexLock, Goto, monitor, ghosts, InFlight, TypeOK
    <3>2. value' \in Int /\ value' <= value /\ swallowed' = swallowed
      BY <2>16, <2>3 DEF TryLock, Acquire, MutexLock, Goto, monitor, ghosts
    <3> QED
      BY <2>2, <2>3, <2>4, <2>5, <3>1, <3>2
  <2>17. ASSUME NEW t \in Threads, TryTest(t) PROVE NoLostWakeup'
    <3>1. /\ InFlight \subseteq InFlight'
          /\ sleeping' \subseteq sleeping
      BY <2>17 DEF TryTest, Inside, Goto, monitor, ghosts, InFlight, TypeOK
    <3>2. value' \in Int /\ value' <= value /\ swallowed' = swallowed
      BY <2>17, <2>3 DEF TryTest, Inside, Goto, monitor, ghosts
    <3> QED
      BY <2>2, <2>3, <2>4, <2>5, <3>1, <3>2
  <2>18. ASSUME NEW t \in Threads, TryTake(t) PROVE NoLostWakeup'
    <3>1. /\ InFlight \subseteq InFlight'
          /\ sleeping' \subseteq sleeping
      BY <2>18 DEF TryTake, Inside, Goto, monitor, ghosts, InFlight, TypeOK
    <3>2. value' \in Int /\ value' <= value /\ swallowed' = swallowed
      BY <2>18, <2>3 DEF TryTake, Inside, Goto, monitor, ghosts
    <3> QED
      BY <2>2, <2>3, <2>4, <2>5, <3>1, <3>2
  <2>19. ASSUME NEW t \in Threads, TryUnlock(t) PROVE NoLostWakeup'
    <3>1. /\ InFlight \subseteq InFlight'
          /\ sleeping' \subseteq sleeping
      BY <2>19 DEF TryUnlock, MutexUnlock, Goto, monitor, ghosts, InFlight, TypeOK
    <3>2. value' \in Int /\ value' <= value /\ swallowed' = swallowed
      BY <2>19, <2>3 DEF TryUnlock, MutexUnlock, Goto, monitor, ghosts
    <3> QED
      BY <2>2, <2>3, <2>4, <2>5, <3>1, <3>2
  <2>20. ASSUME NEW t \in Threads, TimedCall(t) PROVE NoLostWakeup'
    <3>1. /\ InFlight \subseteq InFlight'
          /\ sleeping' \subseteq sleeping
      BY <2>20 DEF TimedCall, Inside, Goto, monitor, ghosts, InFlight, TypeOK
    <3>2. value' \in Int /\ value' <= value /\ swallowed' = swallowed
      BY <2>20, <2>3 DEF TimedCall, Inside, Goto, monitor, ghosts
    <3> QED
      BY <2>2, <2>3, <2>4, <2>5, <3>1, <3>2
  <2>21. ASSUME NEW t \in Threads, TimedExpire(t) PROVE NoLostWakeup'
    <3>1. /\ InFlight \subseteq InFlight'
          /\ sleeping' \subseteq sleeping
      BY <2>21 DEF TimedExpire, DeadlinePasses, monitor, ghosts, InFlight, TypeOK
    <3>2. value' \in Int /\ value' <= value /\ swallowed' = swallowed
      BY <2>21, <2>3 DEF TimedExpire, DeadlinePasses, monitor, ghosts
    <3> QED
      BY <2>2, <2>3, <2>4, <2>5, <3>1, <3>2
  <2>22. ASSUME NEW t \in Threads, TimedLock(t) PROVE NoLostWakeup'
    <3>1. /\ InFlight \subseteq InFlight'
          /\ sleeping' \subseteq sleeping
      BY <2>22 DEF TimedLock, Acquire, MutexLock, Goto, monitor, ghosts, InFlight, TypeOK
    <3>2. value' \in Int /\ value' <= value /\ swallowed' = swallowed
      BY <2>22, <2>3 DEF TimedLock, Acquire, MutexLock, Goto, monitor, ghosts
    <3> QED
      BY <2>2, <2>3, <2>4, <2>5, <3>1, <3>2
  <2>23. ASSUME NEW t \in Threads, TimedWake(t) PROVE NoLostWakeup'
    <3>1. /\ InFlight \subseteq InFlight'
          /\ sleeping' \subseteq sleeping
      BY <2>23 DEF TimedWake, CondReturn, MutexLock, Goto, monitor, ghosts, InFlight, TypeOK
    <3>2. value' \in Int /\ value' <= value /\ swallowed' = swallowed
      BY <2>23, <2>3 DEF TimedWake, CondReturn, MutexLock, Goto, monitor, ghosts
    <3> QED
      BY <2>2, <2>3, <2>4, <2>5, <3>1, <3>2
  <2>24. ASSUME NEW t \in Threads, TimedUnlock(t) PROVE NoLostWakeup'
    <3>1. /\ InFlight \subseteq InFlight'
          /\ sleeping' \subseteq sleeping
      BY <2>24 DEF TimedUnlock, MutexUnlock, ForgetDeadline, Goto, monitor, ghosts, InFlight, TypeOK
    <3>2. value' \in Int /\ value' <= value /\ swallowed' = swallowed
      BY <2>24, <2>3 DEF TimedUnlock, MutexUnlock, ForgetDeadline, Goto, monitor, ghosts
    <3> QED
      BY <2>2, <2>3, <2>4, <2>5, <3>1, <3>2
  <2>25. ASSUME NEW t \in Threads, SemaDestroy(t) PROVE NoLostWakeup'
    <3>1. /\ InFlight \subseteq InFlight'
          /\ sleeping' \subseteq sleeping
      BY <2>25 DEF SemaDestroy, monitor, ghosts, InFlight, TypeOK
    <3>2. value' \in Int /\ value' <= value /\ swallowed' = swallowed
      BY <2>25, <2>3 DEF SemaDestroy, monitor, ghosts
    <3> QED
      BY <2>2, <2>3, <2>4, <2>5, <3>1, <3>2
  <2>26. ASSUME NEW t \in Threads, WokenForNothing(t) PROVE NoLostWakeup'
    <3>1. /\ InFlight \subseteq InFlight'
          /\ sleeping' \subseteq sleeping
      BY <2>26 DEF WokenForNothing, SpuriousWakeup, monitor, ghosts, InFlight, TypeOK
    <3>2. value' \in Int /\ value' <= value /\ swallowed' = swallowed
      BY <2>26, <2>3 DEF WokenForNothing, SpuriousWakeup, monitor, ghosts
    <3> QED
      BY <2>2, <2>3, <2>4, <2>5, <3>1, <3>2
  <2>27. ASSUME NEW t \in Threads, PostInc(t) PROVE NoLostWakeup'
    <3>1. t \notin InFlight /\ InFlight' = InFlight \cup {t}
      BY <2>27 DEF PostInc, Inside, Goto, monitor, InFlight, TypeOK
    <3>2. value' = value + 1 /\ UNCHANGED <<sleeping, swallowed>>
      BY <2>27 DEF PostInc, Inside, monitor, ghosts
    <3>3. m = n + 1
      BY <2>6, <3>1
    <3> QED
      BY <2>2, <2>3, <2>4, <3>2, <3>3
  <2>28. ASSUME NEW t \in Threads, PostSignal(t) PROVE NoLostWakeup'
    <3>1. UNCHANGED <<value, swallowed>>
      BY <2>28 DEF PostSignal, ghosts
    <3>2. CASE sleeping = {}
      BY <2>28, <2>4, <3>2 DEF PostSignal, CondSignal
    <3>3. CASE sleeping # {}
      <4>1. PICK w \in sleeping : sleeping' = sleeping \ {w}
        BY <2>28, <3>3 DEF PostSignal, CondSignal
      <4>2. /\ pc[t] = "post_signal" /\ pc' = [pc EXCEPT ![t] = "post_unlock"]
            /\ timedout' = timedout
        BY <2>28 DEF PostSignal, CondSignal, Goto
      <4>3. w \in Threads /\ pc[w] \in {"wait_sleep", "timed_sleep"} /\ w \notin timedout
        BY <4>1 DEF TypeOK
      <4>4. t \in InFlight /\ w \notin InFlight /\ t # w
        BY <4>1, <4>2, <4>3 DEF InFlight
      <4>5. InFlight' = (InFlight \cup {w}) \ {t}
        BY <4>1, <4>2, <4>3 DEF InFlight, TypeOK
      <4>6. m = n
        <5>1. /\ IsFiniteSet(InFlight \cup {w})
              /\ Cardinality(InFlight \cup {w}) = n + 1
          BY <2>1, <2>2, <4>4, FS_AddElement
        <5>2. Cardinality(InFlight') = Cardinality(InFlight \cup {w}) - 1
          BY <4>4, <4>5, <5>1, FS_RemoveElement
        <5> QED
          BY <2>2, <5>1, <5>2
      <4> QED
        BY <2>2, <2>3, <2>4, <3>1, <3>3, <4>6
    <3> QED
      BY <3>2, <3>3
  <2>29. ASSUME NEW t \in Threads, WaitTest(t) PROVE NoLostWakeup'
    <3>1. UNCHANGED <<value, swallowed>>
      BY <2>29 DEF WaitTest, ghosts
    <3>2. CASE value <= 0
      BY <2>2, <2>3, <2>4, <3>1, <3>2
    <3>3. CASE value > 0
      <4>1. Goto(t, "wait_test", "wait_take") /\ UNCHANGED monitor
        BY <2>29, <2>3, <3>3 DEF WaitTest
      <4>2. InFlight' = InFlight /\ sleeping' = sleeping
        BY <4>1 DEF Goto, monitor, InFlight, TypeOK
      <4> QED
        BY <2>2, <2>3, <2>4, <2>5, <3>1, <4>2
    <3> QED
      BY <2>3, <3>2, <3>3
  <2>30. ASSUME NEW t \in Threads, TimedTest(t) PROVE NoLostWakeup'
    <3>1. UNCHANGED <<value, swallowed>>
      BY <2>30 DEF TimedTest, ghosts
    <3>2. CASE value <= 0
      BY <2>2, <2>3, <2>4, <3>1, <3>2
    <3>3. CASE value > 0
      <4>1. Goto(t, "timed_test", "timed_take") /\ UNCHANGED monitor
        BY <2>30, <2>3, <3>3 DEF TimedTest
      <4>2. InFlight' = InFlight /\ sleeping' = sleeping
        BY <4>1 DEF Goto, monitor, InFlight, TypeOK
      <4> QED
        BY <2>2, <2>3, <2>4, <2>5, <3>1, <4>2
    <3> QED
      BY <2>3, <3>2, <3>3
  <2>31. ASSUME NEW t \in Threads, WaitTake(t) PROVE NoLostWakeup'
    <3>1. t \in InFlight /\ InFlight' = InFlight \ {t}
      BY <2>31 DEF WaitTake, Inside, Goto, monitor, InFlight, TypeOK
    <3>2. value' = value - 1 /\ UNCHANGED <<sleeping, swallowed>>
      BY <2>31 DEF WaitTake, Inside, monitor, ghosts
    <3>3. m = n - 1
      BY <2>7, <3>1
    <3> QED
      BY <2>2, <2>3, <2>4, <3>2, <3>3
  <2>32. ASSUME NEW t \in Threads, TimedTake(t) PROVE NoLostWakeup'
    <3>1. t \in InFlight /\ InFlight' = InFlight \ {t}
      BY <2>32 DEF TimedTake, Inside, Goto, monitor, InFlight, TypeOK
    <3>2. value' = value - 1 /\ UNCHANGED <<sleeping, swallowed>>
      BY <2>32 DEF TimedTake, Inside, monitor, ghosts
    <3>3. m = n - 1
      BY <2>7, <3>1
    <3> QED
      BY <2>2, <2>3, <2>4, <3>2, <3>3
  <2>33. ASSUME NEW t \in Threads, TimedTimeout(t) PROVE NoLostWakeup'
    <3>1. UNCHANGED <<value, pc>> /\ sleeping' \subseteq sleeping
      BY <2>33 DEF TimedTimeout, CondTimeout
    <3>2. CASE t \in signalled
      <4>1. swallowed' = swallowed + 1
        BY <2>33, <3>2 DEF TimedTimeout
      <4>2. t \notin sleeping
        BY <3>2 DEF TypeOK
      <4>3. InFlight \ {t} \subseteq InFlight'
        BY <2>33, <4>2 DEF TimedTimeout, CondTimeout, InFlight
      <4>4. n - 1 <= m
        <5>1. Cardinality(InFlight \ {t}) = IF t \in InFlight THEN n - 1 ELSE n
          BY <2>1, <2>2, FS_RemoveElement
        <5>2. Cardinality(InFlight \ {t}) <= m
          BY <2>1, <2>2, <4>3, FS_Subset
        <5> QED
          BY <2>2, <5>1, <5>2
      <4> QED
        BY <2>2, <2>3, <2>4, <3>1, <4>1, <4>4
    <3>3. CASE t \notin signalled
      <4>1. swallowed' = swallowed /\ t \in sleeping
        BY <2>33, <3>3 DEF TimedTimeout, CondTimeout
      <4>2. InFlight \subseteq InFlight'
        BY <2>33, <4>1 DEF TimedTimeout, CondTimeout, InFlight, TypeOK
      <4> QED
        BY <2>2, <2>3, <2>4, <2>5, <3>1, <4>1, <4>2
    <3> QED
      BY <3>2, <3>3
  <2>34. CASE UNCHANGED vars
    <3>1. UNCHANGED <<value, swallowed, sleeping>> /\ InFlight' = InFlight
      BY <2>34 DEF vars, monitor, ghosts, InFlight
    <3> QED
      BY <2>2, <2>3, <2>4, <2>5, <3>1
  <2> QED
    BY <2>8, <2>9, <2>10, <2>11, <2>12, <2>13, <2>14, <2>15, <2>16, <2>17, <2>18, <2>19, <2>20, <2>21, <2>22, <2>23, <2>24, <2>25, <2>26, <2>27, <2>28, <2>29, <2>30, <2>31, <2>32, <2>33, <2>34 DEF Next, Call, Progress
<1> QED
  BY <1>1, <1>2, TypeCorrect, PTL DEF Spec

(* While sema_post still holds the mutex after value++, the token it added *)
(* is there (for a semaphore that did not start in debt).                  *)
TokenOut ==
  InitValue >= 0 =>
    \A t \in Threads : pc[t] \in {"post_signal", "post_unlock"} => value > 0

LEMMA PosterSeesToken == Spec => []TokenOut
<1> USE MonitorAssumption, SemaAssumption
<1> USE DEF TypeOK, MutualExclusion, Holding, Steps, PostSteps, WaitSteps,
            TrySteps, TimedSteps, NoTokenFromNothing, TokenOut
<1>1. Init => TokenOut
  BY DEF Init, MonitorInit
<1>2. TypeOK /\ MutualExclusion /\ NoTokenFromNothing /\ TokenOut /\ [Next]_vars
      => TokenOut'
  <2> SUFFICES ASSUME TypeOK, MutualExclusion, NoTokenFromNothing, TokenOut, [Next]_vars
               PROVE  TokenOut'
    OBVIOUS
  <2>1. ASSUME NEW t \in Threads, PostCall(t) PROVE TokenOut'
    BY <2>1 DEF PostCall, Goto, monitor, ghosts
  <2>2. ASSUME NEW t \in Threads, PostLock(t) PROVE TokenOut'
    BY <2>2 DEF PostLock, Acquire, MutexLock, Goto, monitor, ghosts
  <2>3. ASSUME NEW t \in Threads, PostInc(t) PROVE TokenOut'
    BY <2>3 DEF PostInc, Inside, Goto, monitor, ghosts
  <2>4. ASSUME NEW t \in Threads, PostSignal(t) PROVE TokenOut'
    BY <2>4 DEF PostSignal, CondSignal, Goto, monitor, ghosts
  <2>5. ASSUME NEW t \in Threads, PostUnlock(t) PROVE TokenOut'
    BY <2>5 DEF PostUnlock, MutexUnlock, Goto, monitor, ghosts
  <2>6. ASSUME NEW t \in Threads, WaitCall(t) PROVE TokenOut'
    BY <2>6 DEF WaitCall, Inside, Goto, monitor, ghosts
  <2>7. ASSUME NEW t \in Threads, WaitLock(t) PROVE TokenOut'
    BY <2>7 DEF WaitLock, Acquire, MutexLock, Goto, monitor, ghosts
  <2>8. ASSUME NEW t \in Threads, WaitTest(t) PROVE TokenOut'
    BY <2>8 DEF WaitTest, CondBlock, MutexUnlock, Goto, monitor, ghosts
  <2>9. ASSUME NEW t \in Threads, WaitWake(t) PROVE TokenOut'
    BY <2>9 DEF WaitWake, CondReturn, MutexLock, Goto, monitor, ghosts
  <2>10. ASSUME NEW t \in Threads, WaitTake(t) PROVE TokenOut'
    BY <2>10 DEF WaitTake, Inside, Goto, monitor, ghosts
  <2>11. ASSUME NEW t \in Threads, WaitUnlock(t) PROVE TokenOut'
    BY <2>11 DEF WaitUnlock, MutexUnlock, Goto, monitor, ghosts
  <2>12. ASSUME NEW t \in Threads, TryCall(t) PROVE TokenOut'
    BY <2>12 DEF TryCall, Inside, Goto, monitor, ghosts
  <2>13. ASSUME NEW t \in Threads, TryLock(t) PROVE TokenOut'
    BY <2>13 DEF TryLock, Acquire, MutexLock, Goto, monitor, ghosts
  <2>14. ASSUME NEW t \in Threads, TryTest(t) PROVE TokenOut'
    BY <2>14 DEF TryTest, Inside, Goto, monitor, ghosts
  <2>15. ASSUME NEW t \in Threads, TryTake(t) PROVE TokenOut'
    BY <2>15 DEF TryTake, Inside, Goto, monitor, ghosts
  <2>16. ASSUME NEW t \in Threads, TryUnlock(t) PROVE TokenOut'
    BY <2>16 DEF TryUnlock, MutexUnlock, Goto, monitor, ghosts
  <2>17. ASSUME NEW t \in Threads, TimedCall(t) PROVE TokenOut'
    BY <2>17 DEF TimedCall, Inside, Goto, monitor, ghosts
  <2>18. ASSUME NEW t \in Threads, TimedExpire(t) PROVE TokenOut'
    BY <2>18 DEF TimedExpire, DeadlinePasses, monitor, ghosts
  <2>19. ASSUME NEW t \in Threads, TimedLock(t) PROVE TokenOut'
    BY <2>19 DEF TimedLock, Acquire, MutexLock, Goto, monitor, ghosts
  <2>20. ASSUME NEW t \in Threads, TimedTest(t) PROVE TokenOut'
    BY <2>20 DEF TimedTest, CondBlock, MutexUnlock, Goto, monitor, ghosts
  <2>21. ASSUME NEW t \in Threads, TimedTimeout(t) PROVE TokenOut'
    BY <2>21 DEF TimedTimeout, CondTimeout, monitor, ghosts
  <2>22. ASSUME NEW t \in Threads, TimedWake(t) PROVE TokenOut'
    BY <2>22 DEF TimedWake, CondReturn, MutexLock, Goto, monitor, ghosts
  <2>23. ASSUME NEW t \in Threads, TimedTake(t) PROVE TokenOut'
    BY <2>23 DEF TimedTake, Inside, Goto, monitor, ghosts
  <2>24. ASSUME NEW t \in Threads, TimedUnlock(t) PROVE TokenOut'
    BY <2>24 DEF TimedUnlock, MutexUnlock, ForgetDeadline, Goto, monitor, ghosts
  <2>25. ASSUME NEW t \in Threads, SemaDestroy(t) PROVE TokenOut'
    BY <2>25 DEF SemaDestroy, monitor, ghosts
  <2>26. ASSUME NEW t \in Threads, WokenForNothing(t) PROVE TokenOut'
    BY <2>26 DEF WokenForNothing, SpuriousWakeup, monitor, ghosts
  <2>27. CASE UNCHANGED vars
    BY <2>27 DEF vars, monitor, ghosts
  <2> QED
    BY <2>1, <2>2, <2>3, <2>4, <2>5, <2>6, <2>7, <2>8, <2>9, <2>10, <2>11, <2>12, <2>13, <2>14, <2>15, <2>16, <2>17, <2>18, <2>19, <2>20, <2>21, <2>22, <2>23, <2>24, <2>25, <2>26, <2>27 DEF Next, Call, Progress
<1> QED
  BY <1>1, <1>2, TypeCorrect, Exclusion, NoPhantomToken, PTL DEF Spec

(* sema.c: once every token is back and nobody waits, the semaphore can be *)
(* destroyed; no poster is still using it.                                 *)
THEOREM SafeDestroy == Spec => []NoUseAfterDestroy
<1> USE DEF NoUseAfterDestroy
<1>1. Init => NoUseAfterDestroy
  BY DEF Init
<1>2. TypeOK /\ MutualExclusion /\ NoTokenFromNothing /\ TokensConserved /\ TokenOut
      /\ NoUseAfterDestroy /\ [Next]_vars => NoUseAfterDestroy'
  <2> SUFFICES ASSUME TypeOK, MutualExclusion, NoTokenFromNothing, TokensConserved,
                      TokenOut, NoUseAfterDestroy, [Next]_vars
               PROVE  NoUseAfterDestroy'
    OBVIOUS
  (* A destroyed semaphore stays as it is. *)
  <2>1. CASE destroyed
    <3>1. /\ \A t \in Threads : pc[t] = "idle"
          /\ sleeping = {} /\ timedout = {} /\ expired = {}
      BY <2>1 DEF TypeOK, TimedSteps
    <3> SUFFICES ASSUME NEW t \in Threads, ~UNCHANGED vars,
                        Call(t) \/ Progress(t) \/ TimedExpire(t) \/ WokenForNothing(t)
                          \/ SemaDestroy(t)
                 PROVE  FALSE
      BY <2>1 DEF Next, vars, monitor, ghosts
    <3>2. ~Call(t) /\ ~SemaDestroy(t)
      BY <2>1 DEF Call, PostCall, WaitCall, TryCall, TimedCall, SemaDestroy
    <3>3. ~TimedExpire(t) /\ ~WokenForNothing(t)
      BY <3>1 DEF TimedExpire, WokenForNothing, SpuriousWakeup
    <3>4. ~Progress(t)
      BY <3>1 DEF Progress, PostLock, PostInc, PostSignal, PostUnlock, WaitLock, WaitTest,
                  WaitWake, WaitTake, WaitUnlock, TryLock, TryTest, TryTake, TryUnlock,
                  TimedLock, TimedTest, TimedWake, TimedTake, TimedUnlock, TimedTimeout,
                  Acquire, Inside, Goto
    <3> QED
      BY <3>2, <3>3, <3>4
  <2>2. ASSUME ~destroyed, NEW t \in Threads, SemaDestroy(t) PROVE NoUseAfterDestroy'
    <3>1. /\ InitValue >= 0 /\ posted = MaxPosts /\ acquired = InitValue + MaxPosts
          /\ \A u \in Threads : pc[u] \in {"idle"} \cup PostSteps
          /\ UNCHANGED <<monitor, pc>>
      BY <2>2 DEF SemaDestroy
    <3> DEFINE Adding == {"post_lock", "post_inc"}
               Taking == {"wait_unlock", "try_unlock", "timed_unlock"}
    <3>2. IsFiniteSet(At(Adding)) /\ Cardinality(At(Adding)) \in Nat
      <4>1. At(Adding) \in SUBSET Threads
        BY DEF At
      <4> QED
        BY <4>1, MonitorAssumption, FS_Subset, FS_CardinalityType
    <3>3. At(Taking) = {}
      BY <3>1 DEF At, PostSteps
    <3>4. Cardinality(At(Taking)) = 0
      BY <3>3, FS_EmptySet
    <3>5. value = InitValue + (posted - Cardinality(At(Adding)))
                            - (acquired + Cardinality(At(Taking)))
      BY DEF TokensConserved
    <3>6. value = 0 - Cardinality(At(Adding))
      <4> HIDE DEF Adding, Taking
      <4> QED
        BY <3>1, <3>2, <3>4, <3>5, SemaAssumption
    <3>7. value >= 0
      BY <3>1, SemaAssumption DEF NoTokenFromNothing, TypeOK
    <3>8. value = 0 /\ Cardinality(At(Adding)) = 0
      <4> HIDE DEF Adding
      <4> QED
        BY <3>2, <3>6, <3>7
    <3>9. At(Adding) = {}
      BY <3>2, <3>8, FS_EmptySet
    <3>10. \A u \in Threads : pc[u] = "idle"
      BY <3>1, <3>8, <3>9 DEF TokenOut, At, PostSteps
    <3>11. owner = NoThread /\ sleeping = {}
      BY <3>10 DEF MutualExclusion, Holding, TypeOK
    <3> QED
      BY <3>1, <3>10, <3>11 DEF monitor
  <2>3. ASSUME ~destroyed, NEW t \in Threads,
               Call(t) \/ Progress(t) \/ TimedExpire(t) \/ WokenForNothing(t)
        PROVE  destroyed' = destroyed
    BY <2>3 DEF Call, Progress, PostCall, PostLock, PostInc, PostSignal, PostUnlock,
                WaitCall, WaitLock, WaitTest, WaitWake, WaitTake, WaitUnlock,
                TryCall, TryLock, TryTest, TryTake, TryUnlock, TimedCall, TimedExpire,
                TimedLock, TimedTest, TimedTimeout, TimedWake, TimedTake, TimedUnlock,
                WokenForNothing, Acquire, Inside, ghosts
  <2> QED
    BY <2>1, <2>2, <2>3 DEF Next, vars, ghosts
<1> QED
  BY <1>1, <1>2, TypeCorrect, Exclusion, NoPhantomToken, Conservation,
     PosterSeesToken, PTL DEF Spec

(* What each label means to the abstract semaphore, evaluated.             *)
LEMMA CallOfLabels ==
  /\ CallOf("idle") = "none"
  /\ CallOf("post_lock") = "post"
  /\ CallOf("post_inc") = "post"
  /\ CallOf("post_signal") = "posted"
  /\ CallOf("post_unlock") = "posted"
  /\ CallOf("wait_lock") = "wait"
  /\ CallOf("wait_test") = "wait"
  /\ CallOf("wait_sleep") = "wait"
  /\ CallOf("wait_take") = "wait"
  /\ CallOf("try_lock") = "try"
  /\ CallOf("try_test") = "try"
  /\ CallOf("try_take") = "try"
  /\ CallOf("timed_lock") = "timed"
  /\ CallOf("timed_test") = "timed"
  /\ CallOf("timed_sleep") = "timed"
  /\ CallOf("timed_take") = "timed"
  /\ CallOf("wait_unlock") = "granted"
  /\ CallOf("try_unlock") = "granted"
  /\ CallOf("timed_unlock") = "granted"
  /\ CallOf("try_fail") = "refused"
  /\ CallOf("timed_fail") = "refused"
BY DEF CallOf

(* sema.c is an implementation of the atomic counting semaphore.           *)
THEOREM Refinement == Spec => ImplementsSemaphore
<1> DEFINE callbar == [t \in Threads |-> CallOf(pc[t])]
<1>1. Init => Abstract!Init
  BY CallOfLabels DEF Init, MonitorInit, Abstract!Init
<1>2. TypeOK /\ TokenStillThere /\ [Next]_vars
      => [Abstract!Next]_<<value, callbar, expired>>
  <2> SUFFICES ASSUME TypeOK, TokenStillThere, [Next]_vars
               PROVE  Abstract!Next \/ UNCHANGED <<value, callbar, expired>>
    OBVIOUS
  (* What a step of one thread does to the call of that thread. *)
  <2>1. ASSUME NEW t \in Threads, NEW from, NEW to, Goto(t, from, to)
        PROVE  callbar[t] = CallOf(from) /\ callbar' = [callbar EXCEPT ![t] = CallOf(to)]
    BY <2>1 DEF Goto, TypeOK
  <2>2. \A t \in Threads : \A from, to, S :
          Goto(t, from, to) /\ CallOf(from) \in S => Abstract!Become(t, S, CallOf(to))
    BY <2>1 DEF Abstract!Become
  <2>3. \A t \in Threads : \A from, to :
          Goto(t, from, to) /\ CallOf(from) = CallOf(to) => callbar' = callbar
    BY <2>1 DEF Goto
  <2>4. pc' = pc => callbar' = callbar
    OBVIOUS
  <2>5. \A t \in Threads :
          \/ Abstract!Invoke(t) \/ Abstract!Post(t) \/ Abstract!Grant(t)
          \/ Abstract!Refuse(t) \/ Abstract!Expire(t) \/ Abstract!Return(t)
          => Abstract!Next
    BY DEF Abstract!Next
  <2> HIDE DEF callbar
  <2> DEFINE Simulated == Abstract!Next \/ UNCHANGED <<value, callbar, expired>>
  <2>6. ASSUME NEW t \in Threads, PostCall(t) PROVE Simulated
    <3>1. Abstract!Invoke(t)
      BY <2>2, <2>6, CallOfLabels DEF PostCall, monitor, ghosts, Abstract!Invoke, Abstract!Operations
    <3> QED
      BY <2>5, <3>1
  <2>7. ASSUME NEW t \in Threads, PostLock(t) PROVE Simulated
    BY <2>3, <2>7, CallOfLabels DEF PostLock, Acquire, monitor, ghosts
  <2>8. ASSUME NEW t \in Threads, PostInc(t) PROVE Simulated
    <3>1. Abstract!Post(t)
      BY <2>2, <2>8, CallOfLabels DEF PostInc, Inside, monitor, ghosts, Abstract!Post
    <3> QED
      BY <2>5, <3>1
  <2>9. ASSUME NEW t \in Threads, PostSignal(t) PROVE Simulated
    BY <2>3, <2>9, CallOfLabels DEF PostSignal, CondSignal, monitor, ghosts
  <2>10. ASSUME NEW t \in Threads, PostUnlock(t) PROVE Simulated
    <3>1. t \notin expired
      BY <2>10 DEF PostUnlock, Goto, TypeOK, TimedSteps
    <3>2. expired' = expired \ {t}
      BY <2>10, <3>1 DEF PostUnlock
    <3>3. Abstract!Return(t)
      BY <2>2, <2>10, <3>2, CallOfLabels DEF PostUnlock, Abstract!Return, Abstract!Outcomes
    <3> QED
      BY <2>5, <3>3
  <2>11. ASSUME NEW t \in Threads, WaitCall(t) PROVE Simulated
    <3>1. Abstract!Invoke(t)
      BY <2>2, <2>11, CallOfLabels DEF WaitCall, Inside, monitor, ghosts, Abstract!Invoke, Abstract!Operations
    <3> QED
      BY <2>5, <3>1
  <2>12. ASSUME NEW t \in Threads, WaitLock(t) PROVE Simulated
    BY <2>3, <2>12, CallOfLabels DEF WaitLock, Acquire, monitor, ghosts
  <2>13. ASSUME NEW t \in Threads, WaitTest(t) PROVE Simulated
    BY <2>3, <2>13, CallOfLabels DEF WaitTest, CondBlock, monitor, ghosts
  <2>14. ASSUME NEW t \in Threads, WaitWake(t) PROVE Simulated
    BY <2>3, <2>14, CallOfLabels DEF WaitWake, CondReturn, monitor, ghosts
  <2>15. ASSUME NEW t \in Threads, WaitTake(t) PROVE Simulated
    <3>1. value > 0
      BY <2>15 DEF WaitTake, Inside, Goto, TokenStillThere
    <3>2. Abstract!Grant(t)
      BY <2>2, <2>15, <3>1, CallOfLabels DEF WaitTake, Inside, monitor, ghosts, Abstract!Grant
    <3> QED
      BY <2>5, <3>2
  <2>16. ASSUME NEW t \in Threads, WaitUnlock(t) PROVE Simulated
    <3>1. t \notin expired
      BY <2>16 DEF WaitUnlock, Goto, TypeOK, TimedSteps
    <3>2. expired' = expired \ {t}
      BY <2>16, <3>1 DEF WaitUnlock
    <3>3. Abstract!Return(t)
      BY <2>2, <2>16, <3>2, CallOfLabels DEF WaitUnlock, Abstract!Return, Abstract!Outcomes
    <3> QED
      BY <2>5, <3>3
  <2>17. ASSUME NEW t \in Threads, TryCall(t) PROVE Simulated
    <3>1. Abstract!Invoke(t)
      BY <2>2, <2>17, CallOfLabels DEF TryCall, Inside, monitor, ghosts, Abstract!Invoke, Abstract!Operations
    <3> QED
      BY <2>5, <3>1
  <2>18. ASSUME NEW t \in Threads, TryLock(t) PROVE Simulated
    BY <2>3, <2>18, CallOfLabels DEF TryLock, Acquire, monitor, ghosts
  <2>19. ASSUME NEW t \in Threads, TryTest(t) PROVE Simulated
    <3>1. CASE value > 0 /\ Inside(t, "try_test", "try_take")
      BY <2>3, <2>19, <3>1, CallOfLabels DEF TryTest, Inside, monitor, ghosts
    <3>2. CASE value <= 0 /\ Inside(t, "try_test", "try_fail")
      <4>1. Abstract!Refuse(t)
        BY <2>2, <2>19, <3>2, CallOfLabels DEF TryTest, Inside, monitor, ghosts, Abstract!Refuse
      <4> QED
        BY <2>5, <4>1
    <3> QED
      BY <2>19, <3>1, <3>2 DEF TryTest
  <2>20. ASSUME NEW t \in Threads, TryTake(t) PROVE Simulated
    <3>1. value > 0
      BY <2>20 DEF TryTake, Inside, Goto, TokenStillThere
    <3>2. Abstract!Grant(t)
      BY <2>2, <2>20, <3>1, CallOfLabels DEF TryTake, Inside, monitor, ghosts, Abstract!Grant
    <3> QED
      BY <2>5, <3>2
  <2>21. ASSUME NEW t \in Threads, TryUnlock(t) PROVE Simulated
    <3>1. t \notin expired
      BY <2>21 DEF TryUnlock, Goto, TypeOK, TimedSteps
    <3>2. expired' = expired \ {t}
      BY <2>21, <3>1 DEF TryUnlock
    <3>3. Abstract!Return(t)
      BY <2>2, <2>21, <3>2, CallOfLabels DEF TryUnlock, Abstract!Return, Abstract!Outcomes
    <3> QED
      BY <2>5, <3>3
  <2>22. ASSUME NEW t \in Threads, TimedCall(t) PROVE Simulated
    <3>1. Abstract!Invoke(t)
      BY <2>2, <2>22, CallOfLabels DEF TimedCall, Inside, monitor, ghosts, Abstract!Invoke, Abstract!Operations
    <3> QED
      BY <2>5, <3>1
  <2>23. ASSUME NEW t \in Threads, TimedExpire(t) PROVE Simulated
    <3>1. callbar[t] = "timed" /\ callbar' = callbar
      BY <2>4, <2>23, CallOfLabels DEF TimedExpire, callbar
    <3>2. Abstract!Expire(t)
      BY <2>23, <3>1 DEF TimedExpire, DeadlinePasses, Abstract!Expire, callbar
    <3> QED
      BY <2>5, <3>2
  <2>24. ASSUME NEW t \in Threads, TimedLock(t) PROVE Simulated
    BY <2>3, <2>24, CallOfLabels DEF TimedLock, Acquire, monitor, ghosts
  <2>25. ASSUME NEW t \in Threads, TimedTest(t) PROVE Simulated
    BY <2>3, <2>25, CallOfLabels DEF TimedTest, CondBlock, monitor, ghosts
  <2>26. ASSUME NEW t \in Threads, TimedTimeout(t) PROVE Simulated
    BY <2>4, <2>26 DEF TimedTimeout, CondTimeout, monitor, ghosts
  <2>27. ASSUME NEW t \in Threads, TimedWake(t) PROVE Simulated
    <3>1. UNCHANGED <<value, expired>>
      BY <2>27 DEF TimedWake, CondReturn
    <3>2. CASE t \in timedout /\ Goto(t, "timed_sleep", "timed_fail")
      <4>1. t \in expired
        BY <3>2 DEF TypeOK
      <4>2. Abstract!Refuse(t)
        BY <2>2, <3>1, <3>2, <4>1, CallOfLabels DEF Abstract!Refuse
      <4> QED
        BY <2>5, <4>2
    <3>3. CASE Goto(t, "timed_sleep", "timed_test")
      BY <2>3, <3>1, <3>3, CallOfLabels
    <3> QED
      BY <2>27, <3>2, <3>3 DEF TimedWake
  <2>28. ASSUME NEW t \in Threads, TimedTake(t) PROVE Simulated
    <3>1. value > 0
      BY <2>28 DEF TimedTake, Inside, Goto, TokenStillThere
    <3>2. Abstract!Grant(t)
      BY <2>2, <2>28, <3>1, CallOfLabels DEF TimedTake, Inside, monitor, ghosts, Abstract!Grant
    <3> QED
      BY <2>5, <3>2
  <2>29. ASSUME NEW t \in Threads, TimedUnlock(t) PROVE Simulated
    <3>1. Abstract!Return(t)
      BY <2>2, <2>29, CallOfLabels DEF TimedUnlock, ForgetDeadline, monitor, ghosts, Abstract!Return, Abstract!Outcomes
    <3> QED
      BY <2>5, <3>1
  <2>30. ASSUME NEW t \in Threads, SemaDestroy(t) PROVE Simulated
    BY <2>4, <2>30 DEF SemaDestroy, monitor, ghosts
  <2>31. ASSUME NEW t \in Threads, WokenForNothing(t) PROVE Simulated
    BY <2>4, <2>31 DEF WokenForNothing, SpuriousWakeup, monitor, ghosts
  <2>32. CASE UNCHANGED vars
    BY <2>4, <2>32 DEF vars, monitor
  <2> QED
    BY <2>6, <2>7, <2>8, <2>9, <2>10, <2>11, <2>12, <2>13, <2>14, <2>15, <2>16, <2>17, <2>18, <2>19, <2>20, <2>21, <2>22, <2>23, <2>24, <2>25, <2>26, <2>27, <2>28, <2>29, <2>30, <2>31, <2>32 DEF Next, Call, Progress
<1> QED
  BY <1>1, <1>2, TypeCorrect, NoPhantomToken, PTL
     DEF Spec, ImplementsSemaphore, Abstract!Spec, Abstract!vars
=============================================================================

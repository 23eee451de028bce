------------------------- MODULE AppRecovery_proofs -------------------------
(***************************************************************************)
(* Proofs about AppRecovery, for any number of runs and writers.  That the *)
(* lock serializes runs, and that success is earned, holds wherever        *)
(* SIGTERM arrives; what the writers see holds of every run whose signals  *)
(* its code guards against.                                                *)
(***************************************************************************)
EXTENDS AppRecovery, Naturals, TLAPS

RunStep(r) ==
  Begin(r) \/ Step(r) \/ StrayEnds(r) \/ AbandonedEnds(r) \/ Interrupt(r) \/ Kill(r)

\* A signal that abandons a command, and the end of a command that is not killed.
Abandons(r) == child[r] \in {"forked", "cleanup"} /\ Abandon(r)

Leaves(r) ==
  /\ LeaveBehind(r)
  /\ \/ child[r] = "forked" /\ Unguarded(r)
     \/ child[r] = "abandoned" /\ UNCHANGED unguarded

SerialInv == \A r \in Runs : LockInv(r)

ResumeInv == \A r \in Runs : WriterInv(r)

GuardedInv == \A r \in Runs : GuardInv(r)

EvidenceInv == \A r \in Runs : ProgressInv(r)

\* The steps of a run, one by one.
LEMMA StepCases ==
  ASSUME NEW r \in Runs, RunStep(r)
  PROVE  \/ Begin(r) \/ Query(r) \/ AllStopped(r) \/ AllResumed(r)
         \/ \E u \in Units : StopWriter(r, u) \/ StartWriter(r, u) \/ NoteFailedStart(r, u)
         \/ Spawn(r) \/ Spawned(r) \/ HookDone(r) \/ WaitFails(r) \/ CommandFails(r)
         \/ RemoveScratch(r) \/ PublishAttempt(r) \/ PublishSuccess(r) \/ Leave(r)
         \/ PublishFailure(r) \/ FinishFails(r) \/ StrayEnds(r) \/ Leaves(r) \/ Abandons(r)
         \/ InterruptBetween(r) \/ InterruptResuming(r) \/ InterruptFinishing(r) \/ Kill(r)
<1>1. AbandonedEnds(r) => Leaves(r)
  BY DEF AbandonedEnds, Leaves
<1>2. InterruptSpawning(r) \/ InterruptCleaning(r) => Leaves(r) \/ Abandons(r)
  BY DEF InterruptSpawning, InterruptCleaning, Leaves, Abandons
<1>3. QED
  BY <1>1, <1>2 DEF RunStep, Step, Backup, Command, Finish, Interrupt, InterruptWaiting,
                    InterruptAbandoning

-----------------------------------------------------------------------------
\* Every variable keeps to its type: a receipt names a run and one of two results.
THEOREM TypeCorrect == Spec => []TypeOK
<1>1. Init => TypeOK
  BY RecoveryAssumption DEF Init, TypeOK, NoReceipt, Actions
<1>2. ASSUME TypeOK, NEW r \in Runs, RunStep(r)
      PROVE  TypeOK'
  <2> USE <1>2, RecoveryAssumption
      DEF TypeOK, Runs, Actions, Commands, BackupHooks, DrillHooks, Ended,
          writers, hooks, receipts
  <2>0. unguarded' \in [Runs -> BOOLEAN]
    <3>1. \/ unguarded' = unguarded
          \/ unguarded' = [unguarded EXCEPT ![r] = TRUE]
          \/ unguarded' = [unguarded EXCEPT ![r] = FALSE]
      BY StepCases
         DEF Begin, Query, AllStopped, AllResumed, StopWriter, StartWriter, NoteFailedStart, Spawn,
             Spawned, HookDone, WaitFails, CommandFails, RemoveScratch, PublishAttempt,
             PublishSuccess, PublishFailure, Leave, FinishFails, RecordFailure, Exit, StrayEnds,
             Leaves, LeaveBehind, Abandons, Abandon, Unguarded, InterruptBetween,
             InterruptResuming, InterruptFinishing, Kill
    <3>2. QED
      BY <3>1
  <2> USE <2>0
  <2>1. CASE Begin(r)
    BY <2>1 DEF Begin, Goto
  <2>2. CASE Query(r)
    <3>1. raised' = raised \/ raised' = [raised EXCEPT ![r] = TRUE]
      BY <2>2 DEF Query, Raise, Restart, Goto
    <3>2. raised' \in [Runs -> BOOLEAN]
      BY <3>1
    <3>3. QED
      BY <3>2, <2>2 DEF Query, Raise, Restart, Goto
  <2>3. CASE AllStopped(r)
    BY <2>3 DEF AllStopped, Goto
  <2>4. CASE AllResumed(r)
    <3>1. raised' = raised \/ raised' = [raised EXCEPT ![r] = TRUE]
      BY <2>4 DEF AllResumed, Goto
    <3>2. raised' \in [Runs -> BOOLEAN]
      BY <3>1
    <3>3. QED
      BY <3>2, <2>4 DEF AllResumed, Goto
  <2>5. ASSUME NEW u \in Units, StopWriter(r, u)
        PROVE  TypeOK'
    BY <2>5 DEF StopWriter, TakeDown
  <2>6. ASSUME NEW u \in Units, StartWriter(r, u)
        PROVE  TypeOK'
    BY <2>6 DEF StartWriter
  <2>7. ASSUME NEW u \in Units, NoteFailedStart(r, u)
        PROVE  TypeOK'
    BY <2>7 DEF NoteFailedStart, Noted
  <2>8. CASE Spawn(r)
    BY <2>8 DEF Spawn
  <2>9. CASE Spawned(r)
    BY <2>9 DEF Spawned
  <2>10. CASE HookDone(r)
    BY <2>10 DEF HookDone, Following, Restart, Goto
  <2>11. CASE CommandFails(r)
    BY <2>11 DEF CommandFails, Raise, Restart, Goto
  <2>12. CASE RemoveScratch(r)
    BY <2>12 DEF RemoveScratch, Goto
  <2>13. CASE PublishAttempt(r)
    BY <2>13 DEF PublishAttempt, Publish, ActionOf, Goto
  <2>14. CASE PublishSuccess(r)
    BY <2>14 DEF PublishSuccess, ActionOf, Goto
  <2>15. CASE Leave(r)
    BY <2>15 DEF Leave, Exit, Goto
  <2>16. CASE PublishFailure(r)
    BY <2>16 DEF PublishFailure, Publish, ActionOf, Exit, Goto
  <2>17. CASE FinishFails(r)
    <3>1. raised' = raised \/ raised' = [raised EXCEPT ![r] = TRUE] \/ raised' = [raised EXCEPT ![r] = FALSE]
      BY <2>17 DEF FinishFails, RecordFailure, Exit, Goto
    <3>2. raised' \in [Runs -> BOOLEAN]
      BY <3>1
    <3>3. CASE RecordFailure(r)
      BY <3>2, <3>3 DEF RecordFailure, Goto
    <3>4. CASE Exit(r) /\ UNCHANGED receipts
      BY <3>2, <3>4 DEF Exit, Goto
    <3>5. QED
      BY <3>3, <3>4, <2>17 DEF FinishFails
  <2>18. CASE StrayEnds(r)
    BY <2>18 DEF StrayEnds, TakeDown
  <2>19. CASE InterruptBetween(r)
    BY <2>19 DEF InterruptBetween, Raise, Restart, Goto
  <2>20. CASE Leaves(r)
    <3>1. raised' = raised \/ raised' = [raised EXCEPT ![r] = TRUE]
      BY <2>20 DEF Leaves, LeaveBehind, Raise
    <3>2. raised' \in [Runs -> BOOLEAN]
      BY <3>1
    <3>3. stray' \in [Runs -> SUBSET Commands]
      <4>1. pc[r] \in Commands /\ (stray' = stray \/ stray' = [stray EXCEPT ![r] = @ \cup {pc[r]}])
        <5> HIDE DEF Commands, TypeOK
        <5>1. QED
          BY <2>20 DEF Leaves, LeaveBehind
      <4>2. QED
        BY <4>1
    <3>4. CASE pc[r] = "start"
      BY <3>2, <3>3, <3>4, <2>20 DEF Leaves, LeaveBehind, Noted
    <3>5. CASE pc[r] # "start"
      BY <3>2, <3>3, <3>5, <2>20 DEF Leaves, LeaveBehind, TakeDown, Raise, Restart, Goto
    <3>6. QED
      BY <3>4, <3>5
  <2>21. CASE InterruptResuming(r)
    BY <2>21 DEF InterruptResuming, Unguarded, Goto
  <2>22. CASE InterruptFinishing(r)
    BY <2>22 DEF InterruptFinishing, RecordFailure, Goto
  <2>23. CASE Kill(r)
    BY <2>23 DEF Kill, Exit, Goto
  <2>24. CASE WaitFails(r)
    BY <2>24 DEF WaitFails, TakeDown
  <2>25. CASE Abandons(r)
    BY <2>25 DEF Abandons, Abandon, Unguarded
  <2>26. QED
    BY <2>1, <2>2, <2>3, <2>4, <2>5, <2>6, <2>7, <2>8, <2>9, <2>10, <2>11, <2>12, <2>13, <2>14, <2>15,
       <2>16, <2>17, <2>18, <2>19, <2>20, <2>21, <2>22, <2>23, <2>24, <2>25, StepCases
<1>3. TypeOK /\ UNCHANGED vars => TypeOK'
  BY DEF TypeOK, vars, writers, hooks, receipts
<1>4. TypeOK /\ [Next]_vars => TypeOK'
  BY <1>2, <1>3 DEF Next, RunStep
<1>5. QED
  BY <1>1, <1>4, PTL DEF Spec

-----------------------------------------------------------------------------
\* A run works under the lock and leaves no process behind.
LEMMA SerialCarried ==
  ASSUME TypeOK, SerialInv, [Next]_vars
  PROVE  SerialInv'
<1>1. ASSUME NEW r \in Runs, RunStep(r), NEW q \in Runs
      PROVE  LockInv(q)'
  <2> USE <1>1, RecoveryAssumption
      DEF TypeOK, SerialInv, LockInv, Past, Runs, Commands, BackupHooks, DrillHooks, Ended,
          writers, hooks, receipts
  <2>1. CASE Begin(r)
    BY <2>1 DEF Begin, Goto
  <2>2. CASE Query(r)
    BY <2>2 DEF Query, Raise, Restart, Goto
  <2>3. CASE AllStopped(r)
    BY <2>3 DEF AllStopped, Goto
  <2>4. CASE AllResumed(r)
    BY <2>4 DEF AllResumed, Goto
  <2>5. ASSUME NEW u \in Units, StopWriter(r, u)
        PROVE  LockInv(q)'
    BY <2>5 DEF StopWriter, TakeDown
  <2>6. ASSUME NEW u \in Units, StartWriter(r, u)
        PROVE  LockInv(q)'
    BY <2>6 DEF StartWriter
  <2>7. ASSUME NEW u \in Units, NoteFailedStart(r, u)
        PROVE  LockInv(q)'
    BY <2>7 DEF NoteFailedStart, Noted
  <2>8. CASE Spawn(r)
    BY <2>8 DEF Spawn
  <2>9. CASE Spawned(r)
    BY <2>9 DEF Spawned
  <2>10. CASE HookDone(r)
    BY <2>10 DEF HookDone, Following, Restart, Goto
  <2>11. CASE CommandFails(r)
    BY <2>11 DEF CommandFails, Raise, Restart, Goto
  <2>12. CASE RemoveScratch(r)
    BY <2>12 DEF RemoveScratch, Goto
  <2>13. CASE PublishAttempt(r)
    BY <2>13 DEF PublishAttempt, Publish, ActionOf, Goto
  <2>14. CASE PublishSuccess(r)
    BY <2>14 DEF PublishSuccess, ActionOf, Goto
  <2>15. CASE Leave(r)
    BY <2>15 DEF Leave, Exit, Goto
  <2>16. CASE PublishFailure(r)
    BY <2>16 DEF PublishFailure, Publish, ActionOf, Exit, Goto
  <2>17. CASE FinishFails(r)
    BY <2>17 DEF FinishFails, RecordFailure, Exit, Goto
  <2>18. CASE StrayEnds(r)
    BY <2>18 DEF StrayEnds, TakeDown
  <2>19. CASE InterruptBetween(r)
    BY <2>19 DEF InterruptBetween, Raise, Restart, Goto
  <2>20. CASE Leaves(r)
    BY <2>20 DEF Leaves, LeaveBehind, Noted, Unguarded, TakeDown, Raise, Restart, Goto
  <2>21. CASE InterruptResuming(r)
    BY <2>21 DEF InterruptResuming, Unguarded, Goto
  <2>22. CASE InterruptFinishing(r)
    BY <2>22 DEF InterruptFinishing, RecordFailure, Goto
  <2>23. CASE Kill(r)
    BY <2>23 DEF Kill, Exit, Goto
  <2>24. CASE WaitFails(r)
    BY <2>24 DEF WaitFails, TakeDown
  <2>25. CASE Abandons(r)
    BY <2>25 DEF Abandons, Abandon, Unguarded
  <2>26. QED
    BY <2>1, <2>2, <2>3, <2>4, <2>5, <2>6, <2>7, <2>8, <2>9, <2>10, <2>11, <2>12, <2>13, <2>14, <2>15,
       <2>16, <2>17, <2>18, <2>19, <2>20, <2>21, <2>22, <2>23, <2>24, <2>25, StepCases
<1>2. CASE UNCHANGED vars
  BY <1>2 DEF vars, writers, hooks, receipts, SerialInv, LockInv
<1>3. QED
  BY <1>1, <1>2 DEF Next, RunStep, SerialInv

\* The type and the lock invariants hold together.
LEMMA SerialKnown == Spec => [](TypeOK /\ SerialInv)
<1>1. Init => SerialInv
  BY DEF Init, SerialInv, LockInv, Ended, Past
<1>2. TypeOK /\ SerialInv /\ [Next]_vars => SerialInv'
  BY SerialCarried
<1>3. QED
  BY <1>1, <1>2, TypeCorrect, PTL DEF Spec

\* No hook of one run is ever alive beside a command of another, wherever signals
\* arrive: not even one whose process group was never guarded.
THEOREM OperationsAreSerialized == Spec => []OneOperation
<1>1. TypeOK /\ SerialInv => OneOperation
  BY RecoveryAssumption DEF TypeOK, SerialInv, LockInv, OneOperation, Live, Ended, Past
<1>2. QED
  BY <1>1, SerialKnown, PTL

-----------------------------------------------------------------------------
\* A run's account of its writers stays true, wherever signals arrive.
LEMMA ResumeCarried ==
  ASSUME TypeOK, SerialInv, ResumeInv, [Next]_vars
  PROVE  ResumeInv'
<1>1. ASSUME NEW r \in Runs, RunStep(r), NEW q \in Runs
      PROVE  WriterInv(q)'
  <2> USE <1>1, RecoveryAssumption
      DEF TypeOK, SerialInv, LockInv, ResumeInv, WriterInv, Past,
          Runs, Commands, BackupHooks, DrillHooks, Ended, writers, hooks, receipts
  <2>1. CASE Begin(r)
    BY <2>1 DEF Begin, Goto
  <2>2. CASE Query(r)
    BY <2>2 DEF Query, Raise, Restart, Goto
  <2>3. CASE AllStopped(r)
    BY <2>3 DEF AllStopped, Goto
  <2>4. CASE AllResumed(r)
    BY <2>4 DEF AllResumed, Goto
  <2>5. ASSUME NEW u \in Units, StopWriter(r, u)
        PROVE  WriterInv(q)'
    BY <2>5 DEF StopWriter, TakeDown
  <2>6. ASSUME NEW u \in Units, StartWriter(r, u)
        PROVE  WriterInv(q)'
    BY <2>6 DEF StartWriter
  <2>7. ASSUME NEW u \in Units, NoteFailedStart(r, u)
        PROVE  WriterInv(q)'
    BY <2>7 DEF NoteFailedStart, Noted
  <2>8. CASE Spawn(r)
    BY <2>8 DEF Spawn
  <2>9. CASE Spawned(r)
    BY <2>9 DEF Spawned
  <2>10. CASE HookDone(r)
    BY <2>10 DEF HookDone, Following, Restart, Goto
  <2>11. CASE CommandFails(r)
    BY <2>11 DEF CommandFails, Raise, Restart, Goto
  <2>12. CASE RemoveScratch(r)
    BY <2>12 DEF RemoveScratch, Goto
  <2>13. CASE PublishAttempt(r)
    BY <2>13 DEF PublishAttempt, Publish, ActionOf, Goto
  <2>14. CASE PublishSuccess(r)
    BY <2>14 DEF PublishSuccess, ActionOf, Goto
  <2>15. CASE Leave(r)
    BY <2>15 DEF Leave, Exit, Goto
  <2>16. CASE PublishFailure(r)
    BY <2>16 DEF PublishFailure, Publish, ActionOf, Exit, Goto
  <2>17. CASE FinishFails(r)
    BY <2>17 DEF FinishFails, RecordFailure, Exit, Goto
  <2>18. CASE StrayEnds(r)
    BY <2>18 DEF StrayEnds, TakeDown
  <2>19. CASE InterruptBetween(r)
    BY <2>19 DEF InterruptBetween, Raise, Restart, Goto
  <2>20. CASE Leaves(r)
    BY <2>20 DEF Leaves, LeaveBehind, Noted, Unguarded, TakeDown, Raise, Restart, Goto
  <2>21. CASE InterruptResuming(r)
    BY <2>21 DEF InterruptResuming, Unguarded, Goto
  <2>22. CASE InterruptFinishing(r)
    BY <2>22 DEF InterruptFinishing, RecordFailure, Goto
  <2>23. CASE Kill(r)
    BY <2>23 DEF Kill, Exit, Goto
  <2>24. CASE WaitFails(r)
    BY <2>24 DEF WaitFails, TakeDown
  <2>25. CASE Abandons(r)
    BY <2>25 DEF Abandons, Abandon, Unguarded
  <2>26. QED
    BY <2>1, <2>2, <2>3, <2>4, <2>5, <2>6, <2>7, <2>8, <2>9, <2>10, <2>11, <2>12, <2>13, <2>14, <2>15,
       <2>16, <2>17, <2>18, <2>19, <2>20, <2>21, <2>22, <2>23, <2>24, <2>25, StepCases
<1>2. CASE UNCHANGED vars
  BY <1>2 DEF vars, writers, hooks, receipts, ResumeInv, WriterInv
<1>3. QED
  BY <1>1, <1>2 DEF Next, RunStep, ResumeInv

\* The three invariants hold together.
LEMMA ResumeKnown == Spec => [](TypeOK /\ SerialInv /\ ResumeInv)
<1>1. Init => ResumeInv
  BY DEF Init, ResumeInv, WriterInv, Past, BackupHooks, DrillHooks
<1>2. TypeOK /\ SerialInv /\ ResumeInv /\ [Next]_vars => ResumeInv'
  BY ResumeCarried
<1>3. QED
  BY <1>1, <1>2, SerialKnown, PTL DEF Spec

-----------------------------------------------------------------------------
\* While signals meet guards, it stays true through exceptions as well.
LEMMA GuardCarried ==
  ASSUME TypeOK, SerialInv, ResumeInv, GuardedInv, [Next]_vars
  PROVE  GuardedInv'
<1>1. ASSUME NEW r \in Runs, RunStep(r), NEW q \in Runs
      PROVE  GuardInv(q)'
  <2> USE <1>1, RecoveryAssumption
      DEF TypeOK, SerialInv, LockInv, ResumeInv, WriterInv, GuardedInv, GuardInv, Past,
          Runs, Commands, BackupHooks, DrillHooks, Ended, writers, hooks, receipts
  <2>1. CASE Begin(r)
    BY <2>1 DEF Begin, Goto
  <2>2. CASE Query(r)
    BY <2>2 DEF Query, Raise, Restart, Goto
  <2>3. CASE AllStopped(r)
    BY <2>3 DEF AllStopped, Goto
  <2>4. CASE AllResumed(r)
    BY <2>4 DEF AllResumed, Goto
  <2>5. ASSUME NEW u \in Units, StopWriter(r, u)
        PROVE  GuardInv(q)'
    BY <2>5 DEF StopWriter, TakeDown
  <2>6. ASSUME NEW u \in Units, StartWriter(r, u)
        PROVE  GuardInv(q)'
    BY <2>6 DEF StartWriter
  <2>7. ASSUME NEW u \in Units, NoteFailedStart(r, u)
        PROVE  GuardInv(q)'
    BY <2>7 DEF NoteFailedStart, Noted
  <2>8. CASE Spawn(r)
    BY <2>8 DEF Spawn
  <2>9. CASE Spawned(r)
    BY <2>9 DEF Spawned
  <2>10. CASE HookDone(r)
    BY <2>10 DEF HookDone, Following, Restart, Goto
  <2>11. CASE CommandFails(r)
    BY <2>11 DEF CommandFails, Raise, Restart, Goto
  <2>12. CASE RemoveScratch(r)
    BY <2>12 DEF RemoveScratch, Goto
  <2>13. CASE PublishAttempt(r)
    BY <2>13 DEF PublishAttempt, Publish, ActionOf, Goto
  <2>14. CASE PublishSuccess(r)
    BY <2>14 DEF PublishSuccess, ActionOf, Goto
  <2>15. CASE Leave(r)
    BY <2>15 DEF Leave, Exit, Goto
  <2>16. CASE PublishFailure(r)
    BY <2>16 DEF PublishFailure, Publish, ActionOf, Exit, Goto
  <2>17. CASE FinishFails(r)
    BY <2>17 DEF FinishFails, RecordFailure, Exit, Goto
  <2>18. CASE StrayEnds(r)
    BY <2>18 DEF StrayEnds, TakeDown
  <2>19. CASE InterruptBetween(r)
    BY <2>19 DEF InterruptBetween, Raise, Restart, Goto
  <2>20. CASE Leaves(r)
    BY <2>20 DEF Leaves, LeaveBehind, Noted, Unguarded, TakeDown, Raise, Restart, Goto
  <2>21. CASE InterruptResuming(r)
    BY <2>21 DEF InterruptResuming, Unguarded, Goto
  <2>22. CASE InterruptFinishing(r)
    BY <2>22 DEF InterruptFinishing, RecordFailure, Goto
  <2>23. CASE Kill(r)
    BY <2>23 DEF Kill, Exit, Goto
  <2>24. CASE WaitFails(r)
    BY <2>24 DEF WaitFails, TakeDown
  <2>25. CASE Abandons(r)
    BY <2>25 DEF Abandons, Abandon, Unguarded
  <2>26. QED
    BY <2>1, <2>2, <2>3, <2>4, <2>5, <2>6, <2>7, <2>8, <2>9, <2>10, <2>11, <2>12, <2>13, <2>14, <2>15,
       <2>16, <2>17, <2>18, <2>19, <2>20, <2>21, <2>22, <2>23, <2>24, <2>25, StepCases
<1>2. CASE UNCHANGED vars
  BY <1>2 DEF vars, writers, hooks, receipts, GuardedInv, GuardInv
<1>3. QED
  BY <1>1, <1>2 DEF Next, RunStep, GuardedInv

\* All of it holds together.
LEMMA GuardKnown == Spec => [](TypeOK /\ SerialInv /\ ResumeInv /\ GuardedInv)
<1>1. Init => GuardedInv
  BY DEF Init, GuardedInv, GuardInv, Past
<1>2. TypeOK /\ SerialInv /\ ResumeInv /\ GuardedInv /\ [Next]_vars => GuardedInv'
  BY GuardCarried
<1>3. QED
  BY <1>1, <1>2, ResumeKnown, PTL DEF Spec

\* "Resume all of them after any failure": for any set of writers, any cascade and
\* any failure of any command, if no signal lands in Popen, in a cleanup or between two
\* restarts.
THEOREM WritersAreResumed == Spec => []WritersResumed
<1>1. GuardedInv => WritersResumed
  BY DEF GuardedInv, GuardInv, WritersResumed, Resumed, Past
<1>2. QED
  BY <1>1, GuardKnown, PTL

\* Data is exported and archived only while the writers found active are down, by every
\* run whose hooks' groups were guarded from the fork to the kill.
THEOREM HooksRunBesideStoppedWriters == Spec => []HooksSeeStoppedWriters
<1>1. ResumeInv /\ GuardedInv => HooksSeeStoppedWriters
  BY DEF ResumeInv, WriterInv, GuardedInv, GuardInv, HooksSeeStoppedWriters, Live, BackupHooks
<1>2. QED
  BY <1>1, GuardKnown, PTL

-----------------------------------------------------------------------------
\* A run without an exception has its hooks behind it.
LEMMA EvidenceCarried ==
  ASSUME TypeOK, SerialInv, ResumeInv, EvidenceInv, [Next]_vars
  PROVE  EvidenceInv'
<1>1. ASSUME NEW r \in Runs, RunStep(r), NEW q \in Runs
      PROVE  ProgressInv(q)'
  <2> USE <1>1, RecoveryAssumption
      DEF TypeOK, SerialInv, LockInv, ResumeInv, WriterInv, EvidenceInv, ProgressInv, Past,
          Runs, Commands, BackupHooks, DrillHooks, Ended, writers, hooks, receipts
  <2>1. CASE Begin(r)
    BY <2>1 DEF Begin, Goto
  <2>2. CASE Query(r)
    BY <2>2 DEF Query, Raise, Restart, Goto
  <2>3. CASE AllStopped(r)
    BY <2>3 DEF AllStopped, Goto
  <2>4. CASE AllResumed(r)
    BY <2>4 DEF AllResumed, Goto
  <2>5. ASSUME NEW u \in Units, StopWriter(r, u)
        PROVE  ProgressInv(q)'
    BY <2>5 DEF StopWriter, TakeDown
  <2>6. ASSUME NEW u \in Units, StartWriter(r, u)
        PROVE  ProgressInv(q)'
    BY <2>6 DEF StartWriter
  <2>7. ASSUME NEW u \in Units, NoteFailedStart(r, u)
        PROVE  ProgressInv(q)'
    BY <2>7 DEF NoteFailedStart, Noted
  <2>8. CASE Spawn(r)
    BY <2>8 DEF Spawn
  <2>9. CASE Spawned(r)
    BY <2>9 DEF Spawned
  <2>10. CASE HookDone(r)
    BY <2>10 DEF HookDone, Following, Restart, Goto
  <2>11. CASE CommandFails(r)
    BY <2>11 DEF CommandFails, Raise, Restart, Goto
  <2>12. CASE RemoveScratch(r)
    BY <2>12 DEF RemoveScratch, Goto
  <2>13. CASE PublishAttempt(r)
    BY <2>13 DEF PublishAttempt, Publish, ActionOf, Goto
  <2>14. CASE PublishSuccess(r)
    BY <2>14 DEF PublishSuccess, ActionOf, Goto
  <2>15. CASE Leave(r)
    BY <2>15 DEF Leave, Exit, Goto
  <2>16. CASE PublishFailure(r)
    BY <2>16 DEF PublishFailure, Publish, ActionOf, Exit, Goto
  <2>17. CASE FinishFails(r)
    BY <2>17 DEF FinishFails, RecordFailure, Exit, Goto
  <2>18. CASE StrayEnds(r)
    BY <2>18 DEF StrayEnds, TakeDown
  <2>19. CASE InterruptBetween(r)
    BY <2>19 DEF InterruptBetween, Raise, Restart, Goto
  <2>20. CASE Leaves(r)
    BY <2>20 DEF Leaves, LeaveBehind, Noted, Unguarded, TakeDown, Raise, Restart, Goto
  <2>21. CASE InterruptResuming(r)
    BY <2>21 DEF InterruptResuming, Unguarded, Goto
  <2>22. CASE InterruptFinishing(r)
    BY <2>22 DEF InterruptFinishing, RecordFailure, Goto
  <2>23. CASE Kill(r)
    BY <2>23 DEF Kill, Exit, Goto
  <2>24. CASE WaitFails(r)
    BY <2>24 DEF WaitFails, TakeDown
  <2>25. CASE Abandons(r)
    BY <2>25 DEF Abandons, Abandon, Unguarded
  <2>26. QED
    BY <2>1, <2>2, <2>3, <2>4, <2>5, <2>6, <2>7, <2>8, <2>9, <2>10, <2>11, <2>12, <2>13, <2>14, <2>15,
       <2>16, <2>17, <2>18, <2>19, <2>20, <2>21, <2>22, <2>23, <2>24, <2>25, StepCases
<1>2. CASE UNCHANGED vars
  BY <1>2 DEF vars, writers, hooks, receipts, EvidenceInv, ProgressInv
<1>3. QED
  BY <1>1, <1>2 DEF Next, RunStep, EvidenceInv

\* A success receipt is published only by a run that did all its recipe asks for
\* and started every writer it had stopped, wherever signals arrive.
THEOREM SuccessIsEarned == Spec => SuccessEarned
<1> DEFINE Earned ==
      \A r \in Runs : success'[ActionOf(r)] = r /\ success[ActionOf(r)] # r =>
        /\ (IF r \in Backups THEN BackupHooks ELSE DrillHooks) \subseteq completed[r]
        /\ failed[r] = {} /\ \A u \in snapshot[r] : writer[u] = "active"
<1>1. Init => EvidenceInv
  BY RecoveryAssumption DEF Init, EvidenceInv, ProgressInv, BackupHooks, DrillHooks
<1>2. TypeOK /\ SerialInv /\ ResumeInv /\ EvidenceInv /\ [Next]_vars => EvidenceInv'
  BY EvidenceCarried
<1>3. TypeOK /\ ResumeInv /\ EvidenceInv /\ [Next]_vars => [Earned]_vars
  <2>1. ASSUME TypeOK, ResumeInv, EvidenceInv, NEW q \in Runs, PublishSuccess(q)
        PROVE  Earned
    BY <2>1, RecoveryAssumption
       DEF TypeOK, PublishSuccess, ActionOf, Actions, Runs, ResumeInv, WriterInv, EvidenceInv,
           ProgressInv, Past
  <2>2. ASSUME NEW q \in Runs, RunStep(q), ~PublishSuccess(q)
        PROVE  success' = success
    BY <2>2, StepCases
       DEF Begin, Query, AllStopped, AllResumed, StopWriter, StartWriter, NoteFailedStart, Spawn,
           Spawned, HookDone, WaitFails, CommandFails, RemoveScratch, PublishAttempt, PublishFailure,
           Leave, FinishFails, RecordFailure, Exit, StrayEnds, Leaves, LeaveBehind, Abandons, Abandon,
           InterruptBetween, InterruptResuming, InterruptFinishing, Kill, receipts
  <2>3. QED
    BY <2>1, <2>2 DEF Next, RunStep
<1>4. QED
  BY <1>1, <1>2, <1>3, ResumeKnown, PTL DEF Spec, SuccessEarned

-----------------------------------------------------------------------------
(* Why a run comes to an end. *)

\* How far a run still has to go: its steps, and those of its command.
Ahead ==
  [idle |-> 12, query |-> 11, stop |-> 10, export |-> 9, backup |-> 8, recover |-> 11, restore |-> 10,
   check |-> 9, start |-> 7, scratch |-> 6, attempt |-> 5, success |-> 4, published |-> 3,
   failure |-> 2, ended |-> 1]
Waits == [none |-> 4, forked |-> 3, running |-> 2, cleanup |-> 1, abandoned |-> 0]

\* A run goes on to a later step, is done with one more unit, or comes further with its
\* command: an order without infinite descent, for a finite set of units.
Advances(r) ==
  \/ Ahead[pc'[r]] < Ahead[pc[r]]
  \/ /\ pc'[r] = pc[r]
     /\ \/ todo'[r] \subseteq todo[r] /\ todo'[r] # todo[r]
        \/ todo'[r] = todo[r] /\ Waits[child'[r]] < Waits[child[r]]

Rests(r) == pc'[r] = pc[r] /\ todo'[r] = todo[r] /\ child'[r] = child[r]

\* An exception leads out of the hooks, never back.
LEMMA RaiseAdvances ==
  ASSUME TypeOK, NEW r \in Runs, pc[r] \in ({"query"} \cup Commands) \ {"start"}, Raise(r)
  PROVE  Ahead[pc'[r]] < Ahead[pc[r]]
<1>1. pc'[r] = IF pc[r] \in {"stop"} \cup BackupHooks THEN "start" ELSE "scratch"
  BY DEF Raise, Goto, TypeOK
<1>2. pc[r] \in {"query", "stop", "export", "backup", "recover", "restore", "check"}
  BY DEF Commands, BackupHooks, DrillHooks
<1>3. QED
  BY <1>1, <1>2 DEF Ahead, BackupHooks

\* A command is spawned, waited for and ended once; a loop is done with one more unit.
LEMMA CommandAdvances ==
  ASSUME TypeOK, NEW r \in Runs, Backup(r) \/ Command(r)
  PROVE  Advances(r)
<1> USE DEF TypeOK
<1>1. CASE Query(r)
  <2>1. CASE Raise(r)
    BY <1>1, <2>1, RaiseAdvances DEF Query, Advances
  <2>2. CASE Goto(r, "stop")
    BY <1>1, <2>2 DEF Query, Goto, Advances, Ahead
  <2>3. QED
    BY <1>1, <2>1, <2>2 DEF Query
<1>2. CASE AllStopped(r) \/ AllResumed(r)
  BY <1>2 DEF AllStopped, AllResumed, Goto, Advances, Ahead
<1>3. ASSUME NEW u \in Units, StopWriter(r, u) \/ StartWriter(r, u) \/ NoteFailedStart(r, u)
      PROVE  Advances(r)
  <2>1. pc' = pc /\ u \in todo[r] /\ todo'[r] = todo[r] \ {u}
    BY <1>3 DEF StopWriter, StartWriter, NoteFailedStart, Noted
  <2>2. QED
    BY <2>1 DEF Advances
<1>4. CASE Spawn(r) \/ Spawned(r) \/ WaitFails(r)
  <2>1. pc' = pc /\ todo' = todo
    BY <1>4 DEF Spawn, Spawned, WaitFails, writers
  <2>2. \/ child[r] = "none" /\ child'[r] = "forked"
        \/ child[r] = "forked" /\ child'[r] = "running"
        \/ child[r] = "running" /\ child'[r] = "cleanup"
    BY <1>4 DEF Spawn, Spawned, WaitFails
  <2>3. QED
    BY <2>1, <2>2 DEF Advances, Waits
<1>5. CASE HookDone(r)
  <2>1. pc[r] \in {"export", "backup", "recover", "restore", "check"} /\ pc'[r] = Following(pc[r])
    BY <1>5 DEF HookDone, Goto, BackupHooks, DrillHooks
  <2>2. QED
    BY <2>1 DEF Following, Ahead, Advances
<1>6. CASE CommandFails(r)
  BY <1>6, RaiseAdvances DEF CommandFails, Advances
<1>7. QED
  BY <1>1, <1>2, <1>3, <1>4, <1>5, <1>6 DEF Backup, Command

\* The receipts follow each other; a failure to publish one leads on to the last.
LEMMA FinishAdvances ==
  ASSUME TypeOK, NEW r \in Runs, Begin(r) \/ Finish(r) \/ Kill(r)
  PROVE  Advances(r)
<1> USE DEF TypeOK, Goto, Advances, Ahead
<1>1. CASE Begin(r)
  BY <1>1 DEF Begin
<1>2. CASE RemoveScratch(r) \/ PublishAttempt(r) \/ PublishSuccess(r)
  BY <1>2 DEF RemoveScratch, PublishAttempt, PublishSuccess
<1>3. CASE Leave(r) \/ PublishFailure(r)
  BY <1>3 DEF Leave, PublishFailure, Exit
<1>4. CASE FinishFails(r)
  BY <1>4 DEF FinishFails, RecordFailure, Exit
<1>5. CASE Kill(r)
  <2>1. pc'[r] = "ended"
    BY <1>5 DEF Kill, Exit
  <2>2. pc[r] \in {"query", "scratch", "attempt", "success", "published", "failure", "stop", "start",
                   "export", "backup", "recover", "restore", "check"}
    BY <1>5 DEF Kill, Ended, Commands, BackupHooks, DrillHooks
  <2>3. QED
    BY <2>1, <2>2
<1>6. QED
  BY <1>1, <1>2, <1>3, <1>4, <1>5 DEF Finish

\* A command that is left alone is left for good.
LEMMA LeavingAdvances ==
  ASSUME TypeOK, NEW r \in Runs, Leaves(r) \/ Abandons(r)
  PROVE  Advances(r)
<1> USE DEF TypeOK
<1>1. CASE Abandons(r)
  <2>1. pc' = pc /\ todo' = todo /\ child'[r] = "abandoned" /\ child[r] \in {"forked", "cleanup"}
    BY <1>1 DEF Abandons, Abandon, writers
  <2>2. QED
    BY <2>1 DEF Advances, Waits
<1>2. CASE Leaves(r) /\ pc[r] = "start"
  <2>1. PICK u \in todo[r] : todo' = [todo EXCEPT ![r] = @ \ {u}]
    BY <1>2 DEF Leaves, LeaveBehind, Noted
  <2>2. pc' = pc
    BY <1>2 DEF Leaves, LeaveBehind
  <2>3. QED
    BY <2>1, <2>2 DEF Advances
<1>3. CASE Leaves(r) /\ pc[r] # "start"
  <2>1. Raise(r) /\ pc[r] \in Commands
    BY <1>3 DEF Leaves, LeaveBehind
  <2>2. QED
    BY <1>3, <2>1, RaiseAdvances DEF Advances
<1>4. QED
  BY <1>1, <1>2, <1>3

\* SIGTERM takes a run further, wherever it finds it.
LEMMA InterruptAdvances ==
  ASSUME TypeOK, NEW r \in Runs, Interrupt(r)
  PROVE  Advances(r)
<1> USE DEF TypeOK
<1>1. CASE InterruptBetween(r)
  BY <1>1, RaiseAdvances DEF InterruptBetween, Advances
<1>2. CASE InterruptSpawning(r) \/ InterruptCleaning(r) \/ InterruptAbandoning(r)
  BY <1>2, LeavingAdvances DEF InterruptSpawning, InterruptCleaning, InterruptAbandoning,
                               AbandonedEnds, Leaves, Abandons
<1>3. CASE InterruptWaiting(r)
  BY <1>3, CommandAdvances DEF InterruptWaiting, Command
<1>4. CASE InterruptResuming(r)
  BY <1>4 DEF InterruptResuming, Goto, Advances, Ahead
<1>5. CASE InterruptFinishing(r)
  BY <1>5 DEF InterruptFinishing, RecordFailure, Goto, Advances, Ahead
<1>6. CASE FinishFails(r)
  BY <1>6, FinishAdvances DEF Finish
<1>7. QED
  BY <1>1, <1>2, <1>3, <1>4, <1>5, <1>6 DEF Interrupt

\* A run is left alone by the others, and by what it left behind.
LEMMA OthersRest ==
  ASSUME TypeOK, NEW q \in Runs, RunStep(q), NEW r \in Runs, r # q \/ StrayEnds(q)
  PROVE  Rests(r)
<1>1. /\ pc'[r] = pc[r] \/ \E step : Goto(q, step)
      /\ todo'[r] = todo[r] \/ \E left : todo' = [todo EXCEPT ![q] = left]
      /\ child'[r] = child[r] \/ \E state : child' = [child EXCEPT ![q] = state]
  <2>1. CASE Begin(q) \/ StrayEnds(q) \/ Leaves(q) \/ Abandons(q)
    BY <2>1 DEF Begin, StrayEnds, Leaves, LeaveBehind, Noted, Abandons, Abandon, Raise, writers, hooks
  <2>2. CASE Backup(q)
    BY <2>2 DEF Backup, Query, Raise, AllStopped, AllResumed, StopWriter, StartWriter, NoteFailedStart,
                Noted, writers, hooks
  <2>3. CASE Command(q)
    BY <2>3 DEF Command, Spawn, Spawned, HookDone, WaitFails, CommandFails, Raise, writers, hooks
  <2>4. CASE Finish(q) \/ Kill(q)
    BY <2>4 DEF Finish, RemoveScratch, PublishAttempt, PublishSuccess, Leave, PublishFailure, FinishFails,
                RecordFailure, Kill, Exit, writers, hooks
  <2>5. CASE InterruptBetween(q) \/ InterruptResuming(q) \/ InterruptFinishing(q)
    BY <2>5 DEF InterruptBetween, InterruptResuming, InterruptFinishing, RecordFailure, Raise, writers, hooks
  <2> QED
    BY <2>1, <2>2, <2>3, <2>4, <2>5, StepCases DEF Backup, Command, Finish
<1>2. CASE r # q
  BY <1>1, <1>2 DEF TypeOK, Rests, Goto
<1>3. CASE StrayEnds(q)
  BY <1>3 DEF StrayEnds, Rests
<1>4. QED
  BY <1>2, <1>3

Onward(r) ==
  /\ Begin(r) \/ Step(r) \/ AbandonedEnds(r) \/ Interrupt(r) \/ Kill(r) => Advances(r)
  /\ Advances(r) \/ Rests(r)

\* No run goes in circles: whatever a run does by itself, and whatever SIGTERM or SIGKILL
\* does to it, takes it further, and nobody else moves it.  So every run, for any writers
\* and wherever signals arrive, is over after finitely many steps of its own, which with
\* the timeouts of its commands, and systemd's for one it cannot kill any more, is why it gives the lock up.
THEOREM RunsAdvance == Spec => [][\A r \in Runs : Onward(r)]_vars
<1>1. ASSUME TypeOK, NEW r \in Runs,
             Begin(r) \/ Step(r) \/ AbandonedEnds(r) \/ Interrupt(r) \/ Kill(r)
      PROVE  Advances(r)
  BY <1>1, CommandAdvances, FinishAdvances, InterruptAdvances, LeavingAdvances
     DEF Step, AbandonedEnds, Leaves
<1>2. ASSUME TypeOK, NEW q \in Runs, RunStep(q), NEW r \in Runs
      PROVE  Advances(r) \/ Rests(r)
  BY <1>1, <1>2, OthersRest DEF RunStep
<1>3. TypeOK /\ [Next]_vars => [\A r \in Runs : Onward(r)]_vars
  BY <1>1, <1>2 DEF Next, RunStep, Onward
<1>4. QED
  BY <1>3, TypeCorrect, PTL DEF Spec
=============================================================================

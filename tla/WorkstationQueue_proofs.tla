----------------------- MODULE WorkstationQueue_proofs -----------------------
(***************************************************************************)
(* Proofs about WorkstationQueue, for any number of tasks.  That one       *)
(* workload runs at a time holds wherever signals arrive; that an ended    *)
(* task leaves nothing behind needs SignalsMeetRecords.                    *)
(***************************************************************************)
EXTENDS WorkstationQueue, Naturals, TLAPS

\* One step of one task, as the sum of its actions.
TaskStep(t) ==
  \/ Start(t) \/ Run(t) \/ GiveUp(t) \/ Cleanup(t) \/ Signal(t)
  \/ AcquireLock(t) \/ Workload(t) \/ ReadEvents(t) \/ ObserverFails(t)

QueueInv == \A t \in Tasks : LockInv(t)

ExitInv == \A t \in Tasks : CleanupInv(t)

-----------------------------------------------------------------------------
\* Every variable keeps to its type: pids are those of the three helpers, and
\* observers know only the two steps of their loop.
THEOREM TypeCorrect == Spec => []TypeOK
<1>1. Init => TypeOK
  BY QueueAssumption DEF Init, TypeOK
<1>2. ASSUME TypeOK, NEW t \in Tasks, TaskStep(t)
      PROVE  TypeOK'
  <2> USE <1>2, QueueAssumption
      DEF TypeOK, Interruptible, CleanupSteps, Ended, Helpers
  <2>1. CASE Start(t)
    BY <2>1 DEF Start, Step, Fork
  <2>2. CASE RecordLocker(t)
    BY <2>2 DEF RecordLocker, Step, Record
  <2>3. CASE LockerDone(t)
    BY <2>3 DEF LockerDone, Step, Forget
  <2>4. CASE Launch(t)
    BY <2>4 DEF Launch, Step, Fork
  <2>5. CASE RecordLauncher(t)
    BY <2>5 DEF RecordLauncher, Step, Record
  <2>6. CASE LauncherDone(t)
    BY <2>6 DEF LauncherDone, Step, Forget
  <2>7. CASE Observe(t)
    BY <2>7 DEF Observe, Step, Fork
  <2>8. CASE NothingLeft(t)
    BY <2>8 DEF NothingLeft, Step
  <2>9. CASE RecordWaiter(t)
    BY <2>9 DEF RecordWaiter, Step, Record
  <2>10. CASE WaiterDone(t)
    BY <2>10 DEF WaiterDone, Step, Forget
  <2>11. CASE GiveUp(t)
    BY <2>11 DEF GiveUp, Step
  <2>12. CASE IgnoreSignals(t)
    BY <2>12 DEF IgnoreSignals, Step
  <2>13. CASE KillWaiter(t)
    BY <2>13 DEF KillWaiter, Step
  <2>14. CASE KillLocker(t)
    BY <2>14 DEF KillLocker, Step
  <2>15. CASE KillLauncher(t)
    BY <2>15 DEF KillLauncher, Step, Reaped
  <2>16. CASE StopScope(t)
    BY <2>16 DEF StopScope, Step, Populate
  <2>17. CASE Reap(t)
    BY <2>17 DEF Reap, Step, Populate
  <2>18. CASE Exit(t)
    BY <2>18 DEF Exit, Step, Closed
  <2>19. CASE Interrupt(t)
    BY <2>19 DEF Interrupt, Step, Closed
  <2>20. CASE Kill(t)
    BY <2>20 DEF Kill, Step, Closed
  <2>21. CASE AcquireLock(t)
    BY <2>21 DEF AcquireLock, Reaped
  <2>22. CASE CreateScope(t)
    BY <2>22 DEF CreateScope, Populate
  <2>23. CASE LauncherFails(t)
    BY <2>23 DEF LauncherFails, Reaped
  <2>24. CASE SpawnDescendants(t)
    BY <2>24 DEF SpawnDescendants, Populate
  <2>25. CASE CommandExits(t)
    BY <2>25 DEF CommandExits, Populate, Reaped
  <2>26. CASE DescendantsExit(t)
    BY <2>26 DEF DescendantsExit, Populate
  <2>27. CASE ReadEvents(t)
    BY <2>27 DEF ReadEvents, Reaped
  <2>28. CASE ObserverFails(t)
    BY <2>28 DEF ObserverFails, Reaped
  <2>29. QED
    BY <2>1, <2>2, <2>3, <2>4, <2>5, <2>6, <2>7, <2>8, <2>9, <2>10, <2>11, <2>12, <2>13, <2>14, <2>15, <2>16, <2>17, <2>18, <2>19, <2>20, <2>21, <2>22, <2>23, <2>24, <2>25, <2>26, <2>27, <2>28 DEF TaskStep, Run, Cleanup, Signal, Workload
<1>3. TypeOK /\ UNCHANGED vars => TypeOK'
  BY DEF TypeOK, vars
<1>4. TypeOK /\ [Next]_vars => TypeOK'
  BY <1>2, <1>3 DEF Next, TaskStep
<1>5. QED
  BY <1>1, <1>4, PTL DEF Spec

-----------------------------------------------------------------------------
\* Whatever runs for a task, or is about to, runs under the lock.
LEMMA LockCarried ==
  ASSUME TypeOK, QueueInv, [Next]_vars
  PROVE  QueueInv'
<1>1. ASSUME NEW t \in Tasks, TaskStep(t), NEW u \in Tasks
      PROVE  LockInv(u)'
  <2> USE <1>1, QueueAssumption
      DEF TypeOK, QueueInv, LockInv, Supervised, Interruptible, CleanupSteps, Ended, Helpers
  <2>1. CASE Start(t)
    BY <2>1 DEF Start, Step, Fork
  <2>2. CASE RecordLocker(t)
    BY <2>2 DEF RecordLocker, Step, Record
  <2>3. CASE LockerDone(t)
    BY <2>3 DEF LockerDone, Step, Forget
  <2>4. CASE Launch(t)
    BY <2>4 DEF Launch, Step, Fork
  <2>5. CASE RecordLauncher(t)
    BY <2>5 DEF RecordLauncher, Step, Record
  <2>6. CASE LauncherDone(t)
    BY <2>6 DEF LauncherDone, Step, Forget
  <2>7. CASE Observe(t)
    BY <2>7 DEF Observe, Step, Fork
  <2>8. CASE NothingLeft(t)
    BY <2>8 DEF NothingLeft, Step
  <2>9. CASE RecordWaiter(t)
    BY <2>9 DEF RecordWaiter, Step, Record
  <2>10. CASE WaiterDone(t)
    BY <2>10 DEF WaiterDone, Step, Forget
  <2>11. CASE GiveUp(t)
    BY <2>11 DEF GiveUp, Step
  <2>12. CASE IgnoreSignals(t)
    BY <2>12 DEF IgnoreSignals, Step
  <2>13. CASE KillWaiter(t)
    BY <2>13 DEF KillWaiter, Step
  <2>14. CASE KillLocker(t)
    BY <2>14 DEF KillLocker, Step
  <2>15. CASE KillLauncher(t)
    BY <2>15 DEF KillLauncher, Step, Reaped
  <2>16. CASE StopScope(t)
    BY <2>16 DEF StopScope, Step, Populate
  <2>17. CASE Reap(t)
    BY <2>17 DEF Reap, Step, Populate
  <2>18. CASE Exit(t)
    BY <2>18 DEF Exit, Step, Closed
  <2>19. CASE Interrupt(t)
    BY <2>19 DEF Interrupt, Step, Closed
  <2>20. CASE Kill(t)
    BY <2>20 DEF Kill, Step, Closed
  <2>21. CASE AcquireLock(t)
    BY <2>21 DEF AcquireLock, Reaped
  <2>22. CASE CreateScope(t)
    BY <2>22 DEF CreateScope, Populate
  <2>23. CASE LauncherFails(t)
    BY <2>23 DEF LauncherFails, Reaped
  <2>24. CASE SpawnDescendants(t)
    BY <2>24 DEF SpawnDescendants, Populate
  <2>25. CASE CommandExits(t)
    BY <2>25 DEF CommandExits, Populate, Reaped
  <2>26. CASE DescendantsExit(t)
    BY <2>26 DEF DescendantsExit, Populate
  <2>27. CASE ReadEvents(t)
    BY <2>27 DEF ReadEvents, Reaped
  <2>28. CASE ObserverFails(t)
    BY <2>28 DEF ObserverFails, Reaped
  <2>29. QED
    BY <2>1, <2>2, <2>3, <2>4, <2>5, <2>6, <2>7, <2>8, <2>9, <2>10, <2>11, <2>12, <2>13, <2>14, <2>15, <2>16, <2>17, <2>18, <2>19, <2>20, <2>21, <2>22, <2>23, <2>24, <2>25, <2>26, <2>27, <2>28 DEF TaskStep, Run, Cleanup, Signal, Workload
<1>2. CASE UNCHANGED vars
  BY <1>2 DEF vars, QueueInv, LockInv, Supervised
<1>3. QED
  BY <1>1, <1>2 DEF Next, TaskStep, QueueInv

\* The lock serializes workloads, wherever signals and kills arrive.
THEOREM WorkloadsAreSerialized == Spec => []OneWorkload
<1>1. Init => QueueInv
  BY DEF Init, QueueInv, LockInv, Supervised
<1>2. TypeOK /\ QueueInv /\ [Next]_vars => QueueInv'
  BY LockCarried
<1>3. QueueInv => OneWorkload
  BY QueueAssumption DEF QueueInv, LockInv, OneWorkload
<1>4. QED
  BY <1>1, <1>2, <1>3, TypeCorrect, PTL DEF Spec

-----------------------------------------------------------------------------
\* When signals meet records, cleanup knows every launcher it has to end.
LEMMA CleanupCarried ==
  ASSUME SignalsMeetRecords, TypeOK, QueueInv, ExitInv, [Next]_vars
  PROVE  ExitInv'
<1>1. ASSUME NEW t \in Tasks, TaskStep(t), NEW u \in Tasks
      PROVE  CleanupInv(u)'
  <2> USE <1>1, QueueAssumption, SignalsMeetRecords
      DEF TypeOK, QueueInv, LockInv, ExitInv, CleanupInv, Supervised, SignalsMeetRecords,
          Interruptible, CleanupSteps, Ended, Helpers
  <2>1. CASE Start(t)
    BY <2>1 DEF Start, Step, Fork
  <2>2. CASE RecordLocker(t)
    BY <2>2 DEF RecordLocker, Step, Record
  <2>3. CASE LockerDone(t)
    BY <2>3 DEF LockerDone, Step, Forget
  <2>4. CASE Launch(t)
    BY <2>4 DEF Launch, Step, Fork
  <2>5. CASE RecordLauncher(t)
    BY <2>5 DEF RecordLauncher, Step, Record
  <2>6. CASE LauncherDone(t)
    BY <2>6 DEF LauncherDone, Step, Forget
  <2>7. CASE Observe(t)
    BY <2>7 DEF Observe, Step, Fork
  <2>8. CASE NothingLeft(t)
    BY <2>8 DEF NothingLeft, Step
  <2>9. CASE RecordWaiter(t)
    BY <2>9 DEF RecordWaiter, Step, Record
  <2>10. CASE WaiterDone(t)
    BY <2>10 DEF WaiterDone, Step, Forget
  <2>11. CASE GiveUp(t)
    BY <2>11 DEF GiveUp, Step
  <2>12. CASE IgnoreSignals(t)
    BY <2>12 DEF IgnoreSignals, Step
  <2>13. CASE KillWaiter(t)
    BY <2>13 DEF KillWaiter, Step
  <2>14. CASE KillLocker(t)
    BY <2>14 DEF KillLocker, Step
  <2>15. CASE KillLauncher(t)
    BY <2>15 DEF KillLauncher, Step, Reaped
  <2>16. CASE StopScope(t)
    BY <2>16 DEF StopScope, Step, Populate
  <2>17. CASE Reap(t)
    BY <2>17 DEF Reap, Step, Populate
  <2>18. CASE Exit(t)
    BY <2>18 DEF Exit, Step, Closed
  <2>19. CASE Interrupt(t)
    BY <2>19 DEF Interrupt, Step, Closed
  <2>20. CASE Kill(t)
    BY <2>20 DEF Kill, Step, Closed
  <2>21. CASE AcquireLock(t)
    BY <2>21 DEF AcquireLock, Reaped
  <2>22. CASE CreateScope(t)
    BY <2>22 DEF CreateScope, Populate
  <2>23. CASE LauncherFails(t)
    BY <2>23 DEF LauncherFails, Reaped
  <2>24. CASE SpawnDescendants(t)
    BY <2>24 DEF SpawnDescendants, Populate
  <2>25. CASE CommandExits(t)
    BY <2>25 DEF CommandExits, Populate, Reaped
  <2>26. CASE DescendantsExit(t)
    BY <2>26 DEF DescendantsExit, Populate
  <2>27. CASE ReadEvents(t)
    BY <2>27 DEF ReadEvents, Reaped
  <2>28. CASE ObserverFails(t)
    BY <2>28 DEF ObserverFails, Reaped
  <2>29. QED
    BY <2>1, <2>2, <2>3, <2>4, <2>5, <2>6, <2>7, <2>8, <2>9, <2>10, <2>11, <2>12, <2>13, <2>14, <2>15, <2>16, <2>17, <2>18, <2>19, <2>20, <2>21, <2>22, <2>23, <2>24, <2>25, <2>26, <2>27, <2>28 DEF TaskStep, Run, Cleanup, Signal, Workload
<1>2. CASE UNCHANGED vars
  BY <1>2 DEF vars, ExitInv, CleanupInv
<1>3. QED
  BY <1>1, <1>2 DEF Next, TaskStep, ExitInv

\* "Stop all remaining descendants before releasing the queue lock": cleanup does,
\* for any command, if no signal separates a fork from the record of its pid.
THEOREM ExitStopsEverything ==
  ASSUME SignalsMeetRecords
  PROVE  Spec => []EndedLeavesNothing
<1>1. Init => ExitInv
  BY DEF Init, ExitInv, CleanupInv
<1>2. Init => QueueInv
  BY DEF Init, QueueInv, LockInv, Supervised
<1>3. TypeOK /\ QueueInv /\ [Next]_vars => QueueInv'
  BY LockCarried
<1>4. TypeOK /\ QueueInv /\ ExitInv /\ [Next]_vars => ExitInv'
  BY CleanupCarried
<1>5. ExitInv => EndedLeavesNothing
  BY DEF ExitInv, CleanupInv, EndedLeavesNothing
<1>6. QED
  BY <1>1, <1>2, <1>3, <1>4, <1>5, TypeCorrect, PTL DEF Spec

-----------------------------------------------------------------------------
(* Why a cancellation comes to an end. *)

\* A launcher that cleanup will wait for is its command, which the stop ends, or is gone.
WaitInv ==
  \A t \in Tasks : "launcher" \in known[t] \cap live[t] =>
    /\ pc[t] # "reap"
    /\ pc[t] = "stop" => "main" \in scope[t]

\* From the kill of the launcher on, whatever ends its command ends the launcher.
LEMMA WaitCarried ==
  ASSUME TypeOK, WaitInv, [Next]_vars
  PROVE  WaitInv'
<1>1. ASSUME NEW t \in Tasks, TaskStep(t), NEW u \in Tasks, "launcher" \in known'[u] \cap live'[u]
      PROVE  pc'[u] # "reap" /\ (pc'[u] = "stop" => "main" \in scope'[u])
  <2> USE <1>1 DEF TypeOK, WaitInv, Step
  <2>1. CASE t # u
    <3>1. /\ pc'[u] = pc[u] /\ live'[u] = live[u] /\ known'[u] = known[u]
          /\ scope'[u] = scope[u]
      <4> USE <2>1 DEF Fork, Reaped, Record, Forget, Populate
      <4>1. CASE Start(t) \/ Run(t) \/ GiveUp(t) \/ Signal(t)
        BY <4>1 DEF Start, Run, RecordLocker, LockerDone, Launch, RecordLauncher, LauncherDone, Observe,
           NothingLeft, RecordWaiter, WaiterDone, GiveUp, Signal, Interrupt, Kill
      <4>2. CASE Cleanup(t)
        BY <4>2 DEF Cleanup, IgnoreSignals, KillWaiter, KillLocker, KillLauncher, StopScope, Reap, Exit
      <4>3. CASE AcquireLock(t) \/ Workload(t) \/ ReadEvents(t) \/ ObserverFails(t)
        BY <4>3 DEF AcquireLock, Workload, CreateScope, LauncherFails, SpawnDescendants, CommandExits,
           DescendantsExit, ReadEvents, ObserverFails
      <4>4. QED
        BY <4>1, <4>2, <4>3 DEF TaskStep
    <3>2. QED
      BY <3>1
  <2>2. CASE t = u
    <3> USE <2>2 DEF Fork, Reaped, Record, Forget, Populate
    <3>1. CASE Start(t) \/ Run(t) \/ GiveUp(t) \/ Signal(t)
      <4>1. pc'[t] \notin {"stop", "reap"}
        BY <3>1, QueueAssumption DEF Start, Run, RecordLocker, LockerDone, Launch, RecordLauncher,
           LauncherDone, Observe, NothingLeft, RecordWaiter, WaiterDone, GiveUp, Signal, Interrupt, Kill
      <4>2. QED
        BY <4>1
    <3>2. CASE IgnoreSignals(t) \/ KillWaiter(t) \/ KillLocker(t) \/ Reap(t) \/ Exit(t)
      BY <3>2 DEF IgnoreSignals, KillWaiter, KillLocker, Reap, Exit
    <3>3. CASE KillLauncher(t)
      BY <3>3 DEF KillLauncher
    <3>4. CASE StopScope(t)
      BY <3>4 DEF StopScope
    <3>5. CASE CommandExits(t)
      BY <3>5 DEF CommandExits
    <3>6. CASE CreateScope(t) \/ SpawnDescendants(t) \/ DescendantsExit(t)
      BY <3>6 DEF CreateScope, SpawnDescendants, DescendantsExit
    <3>7. CASE AcquireLock(t) \/ LauncherFails(t) \/ ReadEvents(t) \/ ObserverFails(t)
      BY <3>7 DEF AcquireLock, LauncherFails, ReadEvents, ObserverFails
    <3>8. QED
      BY <3>1, <3>2, <3>3, <3>4, <3>5, <3>6, <3>7 DEF TaskStep, Cleanup, Workload
  <2>3. QED
    BY <2>1, <2>2
<1>2. CASE UNCHANGED vars
  BY <1>2 DEF vars, WaitInv
<1>3. QED
  BY <1>1, <1>2 DEF Next, TaskStep, WaitInv

\* Cleanup's only wait, for the launcher it knows, finds it gone: wherever signals arrive,
\* and also when the command ignores SIGTERM, since its scope is stopped first.
THEOREM CleanupNeverWaits ==
  Spec => [](\A t \in Tasks : pc[t] = "reap" /\ "launcher" \in known[t] => "launcher" \notin live[t])
<1>1. Init => WaitInv
  BY DEF Init, WaitInv
<1>2. TypeOK /\ WaitInv /\ [Next]_vars => WaitInv'
  BY WaitCarried
<1>3. WaitInv => \A t \in Tasks : pc[t] = "reap" /\ "launcher" \in known[t] => "launcher" \notin live[t]
  BY DEF WaitInv
<1>4. QED
  BY <1>1, <1>2, <1>3, TypeCorrect, PTL DEF Spec

\* How far a supervisor that has left its work still has to go.
Ahead ==
  [trapped |-> 7, killwaiter |-> 6, killlocker |-> 5, killlauncher |-> 4, stop |-> 3, reap |-> 2,
   exit |-> 1, done |-> 0, killed |-> 0]

Leaving(t) == pc[t] \in {"trapped"} \cup CleanupSteps


Leaves(t) ==
  /\ pc'[t] = pc[t] \/ Ahead[pc'[t]] < Ahead[pc[t]]
  /\ Cleanup(t) \/ Signal(t) => pc'[t] # pc[t]

\* A supervisor that has left its work never returns to it: each of its steps, and each
\* signal, takes it closer to its end, which with CleanupNeverWaits is why a cancellation
\* ends.
THEOREM CleanupAdvances == Spec => [][\A t \in Tasks : Leaving(t) => Leaves(t)]_vars
<1>1. ASSUME TypeOK, NEW t \in Tasks, Leaving(t), Cleanup(t) \/ Signal(t)
      PROVE  Ahead[pc'[t]] < Ahead[pc[t]]
  <2> USE <1>1 DEF TypeOK, Step, Ahead
  <2>1. CASE IgnoreSignals(t) \/ KillWaiter(t) \/ KillLocker(t) \/ KillLauncher(t)
    BY <2>1 DEF IgnoreSignals, KillWaiter, KillLocker, KillLauncher
  <2>2. CASE StopScope(t) \/ Reap(t) \/ Exit(t)
    BY <2>2 DEF StopScope, Reap, Exit
  <2>3. CASE Interrupt(t)
    BY <2>3, QueueAssumption DEF Interrupt, Interruptible, Leaving, CleanupSteps
  <2>4. CASE Kill(t)
    <3>1. pc'[t] = "killed"
      BY <2>4 DEF Kill
    <3>2. pc[t] \in {"trapped", "killwaiter", "killlocker", "killlauncher", "stop", "reap", "exit"}
      BY DEF Leaving, CleanupSteps
    <3>3. QED
      BY <3>1, <3>2
  <2>5. QED
    BY <2>1, <2>2, <2>3, <2>4 DEF Cleanup, Signal
<1>2. ASSUME TypeOK, NEW t \in Tasks, Leaving(t), NEW u \in Tasks, TaskStep(u),
             pc'[t] # pc[t]
      PROVE  Cleanup(t) \/ Signal(t)
  <2> USE <1>2 DEF TypeOK, Step
  <2>1. CASE t # u
    <3>1. pc' = pc \/ \E to : pc' = [pc EXCEPT ![u] = to]
      BY DEF TaskStep, Start, Run, RecordLocker, LockerDone, Launch, RecordLauncher, LauncherDone, Observe,
         NothingLeft, RecordWaiter, WaiterDone, GiveUp, Signal, Interrupt, Kill, Cleanup, IgnoreSignals,
         KillWaiter, KillLocker, KillLauncher, StopScope, Reap, Exit, AcquireLock, Workload, CreateScope,
         LauncherFails, SpawnDescendants, CommandExits, DescendantsExit, ReadEvents, ObserverFails
    <3>2. QED
      BY <2>1, <3>1
  <2>2. CASE t = u
    <3> USE <2>2
    <3>1. CASE Start(t) \/ Run(t) \/ GiveUp(t)
      BY <3>1 DEF Start, Run, RecordLocker, LockerDone, Launch, RecordLauncher, LauncherDone, Observe,
         NothingLeft, RecordWaiter, WaiterDone, GiveUp, Leaving, CleanupSteps
    <3>2. CASE AcquireLock(t) \/ Workload(t) \/ ReadEvents(t) \/ ObserverFails(t)
      BY <3>2 DEF AcquireLock, Workload, CreateScope, LauncherFails, SpawnDescendants, CommandExits,
         DescendantsExit, ReadEvents, ObserverFails
    <3>3. QED
      BY <3>1, <3>2 DEF TaskStep
  <2>3. QED
    BY <2>1, <2>2
<1>3. ASSUME TypeOK, NEW t \in Tasks, Leaving(t)
      PROVE  Ahead[pc[t]] \in Nat /\ ~ (Ahead[pc[t]] < Ahead[pc[t]])
  BY <1>3 DEF Leaving, CleanupSteps, Ahead
<1>4. TypeOK /\ [Next]_vars => [\A t \in Tasks : Leaving(t) => Leaves(t)]_vars
  BY <1>1, <1>2, <1>3 DEF Next, TaskStep, Leaves
<1>5. QED
  BY <1>4, TypeCorrect, PTL DEF Spec

-----------------------------------------------------------------------------
(* Why an empty scope is noticed. *)

\* An observer that polls has a process to wait for: whatever emptied the scope between
\* its read and its poll, a workload, a cancellation or systemd, has woken it to read
\* again.  It is what EmptyScopeFreesQueue rests on.
THEOREM PollsHaveCause == Spec => [](\A t \in Tasks : watch[t] = "poll" => scope[t] # {})
<1> DEFINE Cause == \A t \in Tasks : watch[t] = "poll" => scope[t] # {}
<1>1. Init => Cause
  BY DEF Init
<1>2. ASSUME TypeOK, Cause, NEW t \in Tasks, TaskStep(t)
      PROVE  Cause'
  <2> USE <1>2 DEF TypeOK
  <2>1. \/ UNCHANGED <<scope, watch>>
        \/ \E procs \in SUBSET {"main", "descendants"} : Populate(t, procs)
        \/ UNCHANGED scope /\ watch' = [watch EXCEPT ![t] = "read"]
        \/ UNCHANGED scope /\ scope[t] # {} /\ watch' = [watch EXCEPT ![t] = "poll"]
    <3>1. CASE Start(t) \/ Run(t) \/ GiveUp(t) \/ Signal(t)
      BY <3>1 DEF Start, Run, RecordLocker, LockerDone, Launch, RecordLauncher, LauncherDone, Observe,
         NothingLeft, RecordWaiter, WaiterDone, GiveUp, Signal, Interrupt, Kill
    <3>2. CASE Cleanup(t)
      BY <3>2 DEF Cleanup, IgnoreSignals, KillWaiter, KillLocker, KillLauncher, StopScope, Reap, Exit
    <3>3. CASE Workload(t)
      <4>1. ASSUME NEW procs, procs \subseteq scope[t] \cup {"main", "descendants"}, Populate(t, procs)
            PROVE  \E some \in SUBSET {"main", "descendants"} : Populate(t, some)
        BY <4>1
      <4>2. \/ UNCHANGED <<scope, watch>>
            \/ \E procs : procs \subseteq scope[t] \cup {"main", "descendants"} /\ Populate(t, procs)
        BY <3>3, Zenon DEF Workload, CreateScope, LauncherFails, SpawnDescendants, CommandExits, DescendantsExit
      <4>3. QED
        BY <4>1, <4>2
    <3>4. CASE AcquireLock(t) \/ ReadEvents(t) \/ ObserverFails(t)
      BY <3>4 DEF AcquireLock, ReadEvents, ObserverFails
    <3>5. QED
      BY <3>1, <3>2, <3>3, <3>4 DEF TaskStep
  <2>2. QED
    BY <2>1 DEF Populate
<1>3. TypeOK /\ Cause /\ [Next]_vars => Cause'
  BY <1>2 DEF Next, TaskStep, vars
<1>4. QED
  BY <1>1, <1>3, TypeCorrect, PTL DEF Spec
=============================================================================

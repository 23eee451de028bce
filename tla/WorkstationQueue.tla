-------------------------- MODULE WorkstationQueue --------------------------
(***************************************************************************)
(* workstation-task: the supervisor that queues a development command on   *)
(* a per-user lock and runs it in a background systemd scope, and the      *)
(* cgroup observer that keeps the queue held until the scope is empty      *)
(* (wait-workstation-cgroup.py).                                           *)
(*                                                                         *)
(* The supervisor's steps interleave with its helper processes, with the   *)
(* workload, with the other supervisors and with the signals that reach    *)
(* it.  A nested call execs its command inside the scope it runs in: it is *)
(* part of the workload.                                                   *)
(***************************************************************************)
CONSTANTS
  Tasks,       \* invocations of workstation-task outside the background slice
  Interrupted, \* steps of the supervisor at which a trapped signal may arrive
  NoTask       \* holder of a free lock

\* The steps of a supervisor whose traps are set (line 79) and not yet ignored
\* (line 53).  "spawnlauncher" lies between the fork of the launcher and the
\* assignment of its pid, "trapped" between the EXIT trap and its "trap ''".
Interruptible ==
  {"spawnlocker", "waitlocker", "holding", "spawnlauncher", "waitlauncher",
   "inspect", "spawnwaiter", "waitwaiter", "trapped"}

CleanupSteps == {"killwaiter", "killlocker", "killlauncher", "stop", "reap", "exit"}

Ended == {"done", "killed"}

Helpers == {"locker", "launcher", "waiter"}

ASSUME QueueAssumption == NoTask \notin Tasks /\ Interrupted \subseteq Interruptible

VARIABLES
  lock,   \* the task whose descriptor 9 holds workstation-background.lock
  pc,     \* next step of each supervisor
  live,   \* the helpers each supervisor has forked and that still run
  known,  \* the helpers whose pid its variables hold
  scope,  \* the processes in each task's scope; an empty one is collected
  watch   \* next step of each cgroup observer

vars == <<lock, pc, live, known, scope, watch>>

TypeOK ==
  /\ lock \in Tasks \cup {NoTask}
  /\ pc \in [Tasks -> {"idle"} \cup Interruptible \cup CleanupSteps \cup Ended]
  /\ live \in [Tasks -> SUBSET Helpers]
  /\ known \in [Tasks -> SUBSET Helpers]
  /\ scope \in [Tasks -> SUBSET {"main", "descendants"}]
  /\ watch \in [Tasks -> {"read", "poll"}]

Init ==
  /\ lock = NoTask
  /\ pc = [t \in Tasks |-> "idle"]
  /\ live = [t \in Tasks |-> {}]
  /\ known = [t \in Tasks |-> {}]
  /\ scope = [t \in Tasks |-> {}]
  /\ watch = [t \in Tasks |-> "read"]

Step(t, from, to) == pc[t] = from /\ pc' = [pc EXCEPT ![t] = to]

Supervised(t) == pc[t] \notin {"idle"} \cup Ended

Fork(t, helper) == live' = [live EXCEPT ![t] = @ \cup {helper}]
Reaped(t, helper) == live' = [live EXCEPT ![t] = @ \ {helper}]
Record(t, helper) == known' = [known EXCEPT ![t] = @ \cup {helper}]
Forget(t, helper) == known' = [known EXCEPT ![t] = @ \ {helper}]

\* The last holder of descriptor 9 closes it.
Closed(t) == IF lock = t THEN NoTask ELSE lock

\* The scope's population changes; a scope that became empty notifies its observer.
Populate(t, procs) ==
  /\ scope' = [scope EXCEPT ![t] = procs]
  /\ watch' = IF procs = {} THEN [watch EXCEPT ![t] = "read"] ELSE watch

-----------------------------------------------------------------------------
(* The supervisor, until its EXIT trap. *)

\* Queue on the lock: flock runs in the background on the supervisor's descriptor.
Start(t) ==
  /\ Step(t, "idle", "spawnlocker")
  /\ Fork(t, "locker")
  /\ UNCHANGED <<lock, known, scope, watch>>

RecordLocker(t) ==
  /\ Step(t, "spawnlocker", "waitlocker")
  /\ Record(t, "locker")
  /\ UNCHANGED <<lock, live, scope, watch>>

\* Variant: the supervisor does not wait for its flock.
SkipLockerWait(t) ==
  /\ Step(t, "waitlocker", "holding")
  /\ Forget(t, "locker")
  /\ UNCHANGED <<lock, live, scope, watch>>

LockerDone(t) ==
  /\ "locker" \notin live[t]
  /\ Step(t, "waitlocker", "holding")
  /\ Forget(t, "locker")
  /\ UNCHANGED <<lock, live, scope, watch>>

Launch(t) ==
  /\ Step(t, "holding", "spawnlauncher")
  /\ Fork(t, "launcher")
  /\ UNCHANGED <<lock, known, scope, watch>>

RecordLauncher(t) ==
  /\ Step(t, "spawnlauncher", "waitlauncher")
  /\ Record(t, "launcher")
  /\ UNCHANGED <<lock, live, scope, watch>>

LauncherDone(t) ==
  /\ "launcher" \notin live[t]
  /\ Step(t, "waitlauncher", "inspect")
  /\ Forget(t, "launcher")
  /\ UNCHANGED <<lock, live, scope, watch>>

\* systemd reports the control group of a scope that still has processes.
Observe(t) ==
  /\ scope[t] # {}
  /\ Step(t, "inspect", "spawnwaiter")
  /\ Fork(t, "waiter")
  /\ watch' = [watch EXCEPT ![t] = "read"]
  /\ UNCHANGED <<lock, known, scope>>

NothingLeft(t) ==
  /\ scope[t] = {}
  /\ Step(t, "inspect", "trapped")
  /\ UNCHANGED <<lock, live, known, scope, watch>>

RecordWaiter(t) ==
  /\ Step(t, "spawnwaiter", "waitwaiter")
  /\ Record(t, "waiter")
  /\ UNCHANGED <<lock, live, scope, watch>>

WaiterDone(t) ==
  /\ "waiter" \notin live[t]
  /\ Step(t, "waitwaiter", "trapped")
  /\ Forget(t, "waiter")
  /\ UNCHANGED <<lock, live, scope, watch>>

\* A second policy validation or the systemctl query failed (set -e).
GiveUp(t) ==
  /\ Step(t, "holding", "trapped") \/ Step(t, "inspect", "trapped")
  /\ UNCHANGED <<lock, live, known, scope, watch>>

-----------------------------------------------------------------------------
(* cleanup, the EXIT trap of every exit. *)

IgnoreSignals(t) ==
  /\ Step(t, "trapped", "killwaiter")
  /\ UNCHANGED <<lock, live, known, scope, watch>>

KillWaiter(t) ==
  /\ Step(t, "killwaiter", "killlocker")
  /\ live' = [live EXCEPT ![t] = @ \ (known[t] \cap {"waiter"})]
  /\ UNCHANGED <<lock, known, scope, watch>>

KillLocker(t) ==
  /\ Step(t, "killlocker", "killlauncher")
  /\ live' = [live EXCEPT ![t] = @ \ (known[t] \cap {"locker"})]
  /\ UNCHANGED <<lock, known, scope, watch>>

\* Variant: the launcher is waited for before its scope is stopped.
KillLauncherAndWait(t) ==
  /\ Step(t, "killlauncher", "stop")
  /\ "launcher" \in known[t] => "main" \notin scope[t]
  /\ live' = [live EXCEPT ![t] = @ \ (known[t] \cap {"launcher"})]
  /\ UNCHANGED <<lock, known, scope, watch>>

\* SIGTERM ends a launcher that is still systemd-run; a command may ignore it.
KillLauncher(t) ==
  /\ Step(t, "killlauncher", "stop")
  /\ IF "launcher" \in known[t] /\ "main" \notin scope[t]
     THEN Reaped(t, "launcher")
     ELSE UNCHANGED live
  /\ UNCHANGED <<lock, known, scope, watch>>

\* Variant: the scope is asked to stop, but not waited for.
StopNoBlock(t) ==
  /\ Step(t, "stop", "reap")
  /\ UNCHANGED <<lock, live, known, scope, watch>>

\* systemctl stop returns once every process of the scope is gone; it fails, and
\* the failure is ignored, when there is no such scope.
StopScope(t) ==
  /\ Step(t, "stop", "reap")
  /\ live' = [live EXCEPT ![t] = IF "main" \in scope[t] THEN @ \ {"launcher"} ELSE @]
  /\ Populate(t, {})
  /\ UNCHANGED <<lock, known>>

Reap(t) ==
  /\ Step(t, "reap", "exit")
  /\ \/ /\ "launcher" \in known[t] /\ "launcher" \notin live[t]
        /\ Populate(t, {})
     \/ /\ "launcher" \notin known[t]
        /\ UNCHANGED <<scope, watch>>
  /\ UNCHANGED <<lock, live, known>>

Exit(t) ==
  /\ Step(t, "exit", "done")
  /\ lock' = Closed(t)
  /\ UNCHANGED <<live, known, scope, watch>>

-----------------------------------------------------------------------------
(* Signals. *)

\* INT, TERM or HUP: the trap exits, which runs cleanup; inside cleanup the EXIT
\* trap is already gone, and the supervisor exits as it stands.
Interrupt(t) ==
  /\ pc[t] \in Interrupted
  /\ IF pc[t] = "trapped"
     THEN Step(t, "trapped", "done") /\ lock' = Closed(t)
     ELSE Step(t, pc[t], "trapped") /\ UNCHANGED lock
  /\ UNCHANGED <<live, known, scope, watch>>

\* SIGKILL, from the out-of-memory killer for one.
Kill(t) ==
  /\ Supervised(t)
  /\ Step(t, pc[t], "killed")
  /\ lock' = Closed(t)
  /\ UNCHANGED <<live, known, scope, watch>>

-----------------------------------------------------------------------------
(* The helpers and the workload. *)

\* flock locks the description of descriptor 9, which it shares with its
\* supervisor; one that has lost its supervisor gives the lock up as it exits.
AcquireLock(t) ==
  /\ "locker" \in live[t] /\ lock = NoTask
  /\ lock' = IF Supervised(t) THEN t ELSE NoTask
  /\ Reaped(t, "locker")
  /\ UNCHANGED <<pc, known, scope, watch>>

\* systemd-run becomes the command, in its scope.
CreateScope(t) ==
  /\ "launcher" \in live[t] /\ "main" \notin scope[t]
  /\ Populate(t, scope[t] \cup {"main"})
  /\ UNCHANGED <<lock, pc, live, known>>

LauncherFails(t) ==
  /\ "launcher" \in live[t] /\ "main" \notin scope[t]
  /\ Reaped(t, "launcher")
  /\ UNCHANGED <<lock, pc, known, scope, watch>>

SpawnDescendants(t) ==
  /\ "main" \in scope[t] /\ "descendants" \notin scope[t]
  /\ Populate(t, scope[t] \cup {"descendants"})
  /\ UNCHANGED <<lock, pc, live, known>>

CommandExits(t) ==
  /\ "main" \in scope[t]
  /\ Populate(t, scope[t] \ {"main"})
  /\ Reaped(t, "launcher")
  /\ UNCHANGED <<lock, pc, known>>

DescendantsExit(t) ==
  /\ "descendants" \in scope[t]
  /\ Populate(t, scope[t] \ {"descendants"})
  /\ UNCHANGED <<lock, pc, live, known>>

\* Variant: every read is followed by a poll, also of an empty group.
PollEmptyGroup(t) ==
  /\ "waiter" \in live[t] /\ watch[t] = "read"
  /\ watch' = [watch EXCEPT ![t] = "poll"]
  /\ UNCHANGED <<lock, pc, live, known, scope>>

\* Variant: an error reading the removed group is kept as a third state.
ReadRemovedGroup(t) ==
  /\ "waiter" \in live[t] /\ watch[t] = "read"
  /\ watch' = [watch EXCEPT ![t] = IF scope[t] = {} THEN "removed" ELSE "poll"]
  /\ UNCHANGED <<lock, pc, live, known, scope>>

\* The observer ends on an empty or removed group, else it polls: a change since
\* the read wakes it.
ReadEvents(t) ==
  /\ "waiter" \in live[t] /\ watch[t] = "read"
  /\ \/ /\ scope[t] = {}
        /\ Reaped(t, "waiter")
        /\ UNCHANGED watch
     \/ /\ scope[t] # {}
        /\ watch' = [watch EXCEPT ![t] = "poll"]
        /\ UNCHANGED live
  /\ UNCHANGED <<lock, pc, known, scope>>

ObserverFails(t) ==
  /\ "waiter" \in live[t]
  /\ Reaped(t, "waiter")
  /\ UNCHANGED <<lock, pc, known, scope, watch>>

-----------------------------------------------------------------------------
Run(t) ==
  \/ RecordLocker(t) \/ LockerDone(t) \/ Launch(t) \/ RecordLauncher(t) \/ LauncherDone(t)
  \/ Observe(t) \/ NothingLeft(t) \/ RecordWaiter(t) \/ WaiterDone(t)

Cleanup(t) ==
  \/ IgnoreSignals(t) \/ KillWaiter(t) \/ KillLocker(t) \/ KillLauncher(t)
  \/ StopScope(t) \/ Reap(t) \/ Exit(t)

Signal(t) == Interrupt(t) \/ Kill(t)

Workload(t) ==
  \/ CreateScope(t) \/ LauncherFails(t) \/ SpawnDescendants(t) \/ CommandExits(t)
  \/ DescendantsExit(t)

Next ==
  \E t \in Tasks :
    \/ Start(t) \/ Run(t) \/ GiveUp(t) \/ Cleanup(t) \/ Signal(t)
    \/ AcquireLock(t) \/ Workload(t) \/ ReadEvents(t) \/ ObserverFails(t)

\* A supervisor that is not waiting runs on, and so do its flock and its observer.
\* Nothing obliges a workload to end.
Fairness ==
  \A t \in Tasks :
    /\ WF_vars(Run(t)) /\ WF_vars(Cleanup(t))
    /\ WF_vars(ReadEvents(t)) /\ WF_vars(AcquireLock(t))

Spec == Init /\ [][Next]_vars /\ Fairness

-----------------------------------------------------------------------------
(* Properties. *)

\* The signals that reach a supervisor find its pid variables in step with its
\* processes: none arrives between a fork and its record, or while the EXIT trap
\* has not yet ignored them.
SignalsMeetRecords == Interrupted \cap {"spawnlauncher", "trapped"} = {}

\* One workload at a time: of the scopes whose supervisors are alive only one has
\* processes, and none starts beside it, through cancellations, failed observers
\* and kills of other supervisors.
OneWorkload ==
  \A t, u \in Tasks :
    /\ Supervised(t) /\ Supervised(u)
    /\ scope[t] # {} /\ (scope[u] # {} \/ "launcher" \in live[u])
    => t = u

\* "Stop all remaining descendants before releasing the queue lock": a supervisor
\* that ran its exit leaves no process in its scope and no launcher that could
\* still create one.
EndedLeavesNothing ==
  \A t \in Tasks : pc[t] = "done" => scope[t] = {} /\ "launcher" \notin live[t]

\* A task that is cancelled, or whose workload is over, ends, even when its command
\* ignores SIGTERM and wherever in its life the cancellation reached it.
CancellationEnds == \A t \in Tasks : pc[t] = "trapped" ~> pc[t] \in Ended

\* The observer misses no wakeup: a task whose scope has emptied gives up the lock.
EmptyScopeFreesQueue ==
  \A t \in Tasks : (pc[t] = "waitwaiter" /\ scope[t] = {}) ~> lock # t

-----------------------------------------------------------------------------
(* The invariant that carries the proofs. *)

\* What holds the lock: whoever is about to launch, or has anything running.
LockInv(t) ==
  /\ pc[t] \in {"idle", "spawnlocker", "waitlocker", "holding"}
       => scope[t] = {} /\ "launcher" \notin live[t]
  /\ pc[t] \in {"spawnlocker", "waitlocker"} /\ "locker" \notin live[t] => lock = t
  /\ pc[t] = "holding" => lock = t
  /\ pc[t] = "idle" => live[t] = {}
  /\ Supervised(t) /\ (scope[t] # {} \/ "launcher" \in live[t]) => lock = t

\* What cleanup knows: a live launcher has its pid recorded, its command is the
\* launcher's process, and from the stop on nothing of either is left.
CleanupInv(t) ==
  /\ "main" \in scope[t] => "launcher" \in live[t]
  /\ "launcher" \in live[t] => "launcher" \in known[t] \/ pc[t] \in {"spawnlauncher", "killed"}
  /\ pc[t] = "stop" /\ "launcher" \in live[t] => "main" \in scope[t]
  /\ pc[t] \in {"reap", "exit", "done"} => scope[t] = {} /\ "launcher" \notin live[t]
=============================================================================

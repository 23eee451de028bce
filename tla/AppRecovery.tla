----------------------------- MODULE AppRecovery -----------------------------
(***************************************************************************)
(* The application recovery runner (application-recovery/runner.py): a     *)
(* backup stops an application's writers, exports and archives its data    *)
(* and starts the writers again; a drill restores an archive into scratch. *)
(* The services of one application share a lock and a directory of         *)
(* receipts.  A step is one command, one file or one system call; hooks    *)
(* fail, time out or leave children, systemd cascades a stop to dependent  *)
(* units, and SIGTERM raises an exception wherever it finds the runner.    *)
(*                                                                         *)
(* The order of the unit list is abstracted: units are stopped and started *)
(* in any order.  Nobody else stops or starts the writers.                 *)
(***************************************************************************)
CONSTANTS
  Backups,     \* activations of the backup service
  Drills,      \* activations of the drill service
  Units,       \* the declared writer units
  Interrupted, \* windows in which SIGTERM may arrive
  NoRun        \* nobody

Runs == Backups \cup Drills

\* Where a signal can find the runner: between commands, in Popen (the child exists,
\* its group is not yet guarded), waiting for a command, in its cleanup (48-53), in
\* the wait of Popen.__exit__ that follows a cleanup cut short, between two restarts
\* (118), after the hooks (144-159) and in the handler (160).
Windows == {"between", "spawning", "waiting", "cleaning", "abandoning", "resuming", "finishing",
            "reporting"}

ASSUME RecoveryAssumption ==
  /\ NoRun \notin Runs
  /\ Backups \cap Drills = {}
  /\ Interrupted \subseteq Windows

BackupHooks == {"export", "backup"}
DrillHooks  == {"recover", "restore", "check"}
Commands    == {"stop", "start"} \cup BackupHooks \cup DrillHooks
Ended       == {"ended"}   \* returned, refused or killed

VARIABLES
  writer,    \* the state systemd shows for each unit
  lock,      \* the run that holds operation.lock
  pc,        \* the command, or other step, each run is at
  snapshot,  \* the units a run found active ("active", later "restart")
  todo,      \* the units its current loop has not reached
  failed,    \* the units it could not start again
  child,     \* its current command: none, forked (in Popen), running (waited for), cleanup
             \* (the wait is over, its group not yet killed), abandoned (it never will be)
  stray,     \* hooks it forked but never guarded, still running
  raised,    \* an exception is on its way out
  unguarded, \* a signal found the run in Popen, in a cleanup or between two restarts (a history)
  completed, \* the hooks that returned 0 (a history of the run)
  attempt,   \* the latest attempt receipt of each action
  success    \* the run whose success receipt each action shows

writers  == <<writer, snapshot, todo, failed>>
hooks    == <<child, stray, completed>>
receipts == <<attempt, success>>
vars     == <<writers, hooks, receipts, lock, pc, raised, unguarded>>

Actions == {"backup", "drill"}
ActionOf(r) == IF r \in Backups THEN "backup" ELSE "drill"
NoReceipt == [run |-> NoRun, result |-> "none"]

TypeOK ==
  /\ writer \in [Units -> {"active", "inactive", "failed"}]
  /\ lock \in Runs \cup {NoRun}
  /\ pc \in [Runs -> {"idle", "query", "scratch", "attempt", "success", "published", "failure"}
                     \cup Commands \cup Ended]
  /\ snapshot \in [Runs -> SUBSET Units]
  /\ todo \in [Runs -> SUBSET Units]
  /\ failed \in [Runs -> SUBSET Units]
  /\ child \in [Runs -> {"none", "forked", "running", "cleanup", "abandoned"}]
  /\ stray \in [Runs -> SUBSET Commands]
  /\ raised \in [Runs -> BOOLEAN]
  /\ unguarded \in [Runs -> BOOLEAN]
  /\ completed \in [Runs -> SUBSET (BackupHooks \cup DrillHooks)]
  /\ attempt \in [Actions -> [run : Runs \cup {NoRun}, result : {"none", "success", "failure"}]]
  /\ success \in [Actions -> Runs \cup {NoRun}]

Init ==
  /\ writer \in [Units -> {"active", "inactive", "failed"}]
  /\ lock = NoRun
  /\ pc = [r \in Runs |-> "idle"]
  /\ snapshot = [r \in Runs |-> {}]
  /\ todo = [r \in Runs |-> {}]
  /\ failed = [r \in Runs |-> {}]
  /\ child = [r \in Runs |-> "none"]
  /\ stray = [r \in Runs |-> {}]
  /\ raised = [r \in Runs |-> FALSE]
  /\ unguarded = [r \in Runs |-> FALSE]
  /\ completed = [r \in Runs |-> {}]
  /\ attempt = [a \in Actions |-> NoReceipt]
  /\ success = [a \in Actions |-> NoRun]

Goto(r, step) == pc' = [pc EXCEPT ![r] = step]

\* The units the finally block starts.
\* Variant: only those whose own stop returned.
RestartStopped(r) == snapshot[r] \ todo[r]

Restart(r) == snapshot[r]

\* An exception leaves the hooks: a backup resumes its writers first, if it had
\* come to stop them; a failed query has none to resume.
Raise(r) ==
  /\ raised' = [raised EXCEPT ![r] = TRUE]
  /\ IF pc[r] \in {"stop"} \cup BackupHooks
     THEN Goto(r, "start") /\ todo' = [todo EXCEPT ![r] = Restart(r)]
     ELSE Goto(r, "scratch") /\ UNCHANGED todo

\* The command that follows a hook that returned 0; what leaves the hooks without
\* an exception resumes the writers, or has none to resume.
Following(hook) ==
  CASE hook = "export"  -> "backup"
    [] hook = "backup"  -> "start"
    [] hook = "recover" -> "restore"
    [] hook = "restore" -> "check"
    [] hook = "check"   -> "scratch"

-----------------------------------------------------------------------------
(* execute: the lock, then the scratch directory. *)

\* Variant: the lock is opened but a conflict goes unnoticed.
BeginRegardless(r) ==
  /\ pc[r] = "idle"
  /\ lock' = r
  /\ Goto(r, IF r \in Backups THEN "query" ELSE "recover")
  /\ UNCHANGED <<writers, hooks, receipts, raised, unguarded>>

\* A conflict raises before anything is recorded.
Begin(r) ==
  /\ pc[r] = "idle"
  /\ \/ /\ lock = NoRun
        /\ lock' = r
        /\ Goto(r, IF r \in Backups THEN "query" ELSE "recover")
     \/ /\ lock # NoRun
        /\ Goto(r, "ended")
        /\ UNCHANGED lock
  /\ UNCHANGED <<writers, hooks, receipts, raised, unguarded>>

-----------------------------------------------------------------------------
(* backup: snapshot, stop, hooks, resume. *)

\* Every unit is loaded and active or inactive, or the backup is refused.
Query(r) ==
  /\ pc[r] = "query"
  /\ \/ /\ \A u \in Units : writer[u] # "failed"
        /\ snapshot' = [snapshot EXCEPT ![r] = {u \in Units : writer[u] = "active"}]
        /\ todo' = [todo EXCEPT ![r] = snapshot'[r]]
        /\ Goto(r, "stop")
        /\ UNCHANGED raised
     \/ /\ Raise(r)
        /\ UNCHANGED snapshot
  /\ UNCHANGED <<writer, failed, hooks, receipts, lock, unguarded>>

TakeDown(down) == writer' = [u \in Units |-> IF u \in down THEN "inactive" ELSE writer[u]]

\* systemctl stop returns 0 once the unit is inactive; PartOf and BindsTo may
\* take other declared writers down with it.
StopWriter(r, u) ==
  /\ pc[r] = "stop" /\ child[r] = "running" /\ u \in todo[r]
  /\ \E also \in SUBSET Units : TakeDown(also \cup {u})
  /\ todo' = [todo EXCEPT ![r] = @ \ {u}]
  /\ child' = [child EXCEPT ![r] = "none"]
  /\ UNCHANGED <<snapshot, failed, stray, completed, receipts, lock, pc, raised, unguarded>>

AllStopped(r) ==
  /\ pc[r] = "stop" /\ child[r] = "none" /\ todo[r] = {}
  /\ Goto(r, "export")
  /\ UNCHANGED <<writers, hooks, receipts, lock, raised, unguarded>>

\* systemctl start returned 0.
StartWriter(r, u) ==
  /\ pc[r] = "start" /\ child[r] = "running" /\ u \in todo[r]
  /\ writer' = [writer EXCEPT ![u] = "active"]
  /\ todo' = [todo EXCEPT ![r] = @ \ {u}]
  /\ child' = [child EXCEPT ![r] = "none"]
  /\ UNCHANGED <<snapshot, failed, stray, completed, receipts, lock, pc, raised, unguarded>>

\* The run has no process of its command to wait for or to kill, or kills the group now.
Over(r) == child[r] \in {"none", "cleanup"}

\* Variant: a unit that did not start is tried again.
RetryStart(r, u) ==
  /\ pc[r] = "start" /\ Over(r) /\ u \in todo[r]
  /\ child' = [child EXCEPT ![r] = "none"]
  /\ UNCHANGED <<writers, stray, completed, receipts, lock, pc, raised, unguarded>>

\* A start that could not be executed, failed, timed out, left children or was
\* interrupted is noted, and the loop goes on; the unit may have started all the same.
Noted(r, u) ==
  /\ \E state \in {writer[u], "active", "failed"} : writer' = [writer EXCEPT ![u] = state]
  /\ failed' = [failed EXCEPT ![r] = @ \cup {u}]
  /\ todo' = [todo EXCEPT ![r] = @ \ {u}]

NoteFailedStart(r, u) ==
  /\ pc[r] = "start" /\ Over(r) /\ u \in todo[r]
  /\ Noted(r, u)
  /\ child' = [child EXCEPT ![r] = "none"]
  /\ UNCHANGED <<snapshot, stray, completed, receipts, lock, pc, raised, unguarded>>

\* Variant: units that did not start are not reported.
AllResumedQuietly(r) ==
  /\ pc[r] = "start" /\ child[r] = "none" /\ todo[r] = {}
  /\ Goto(r, "scratch")
  /\ UNCHANGED <<writers, hooks, receipts, lock, raised, unguarded>>

AllResumed(r) ==
  /\ pc[r] = "start" /\ child[r] = "none" /\ todo[r] = {}
  /\ raised' = IF failed[r] = {} THEN raised ELSE [raised EXCEPT ![r] = TRUE]
  /\ Goto(r, "scratch")
  /\ UNCHANGED <<writers, hooks, receipts, lock, unguarded>>

-----------------------------------------------------------------------------
(* command: one child in its own process group. *)

Spawn(r) ==
  /\ pc[r] \in Commands /\ child[r] = "none"
  /\ pc[r] \in {"stop", "start"} => todo[r] # {}
  /\ child' = [child EXCEPT ![r] = "forked"]
  /\ UNCHANGED <<writers, stray, completed, receipts, lock, pc, raised, unguarded>>

Spawned(r) ==
  /\ child[r] = "forked"
  /\ child' = [child EXCEPT ![r] = "running"]
  /\ UNCHANGED <<writers, stray, completed, receipts, lock, pc, raised, unguarded>>

\* The hook returned 0 and its process group is gone.
HookDone(r) ==
  /\ pc[r] \in BackupHooks \cup DrillHooks /\ child[r] = "running"
  /\ child' = [child EXCEPT ![r] = "none"]
  /\ completed' = [completed EXCEPT ![r] = @ \cup {pc[r]}]
  /\ todo' = IF pc[r] = "backup" THEN [todo EXCEPT ![r] = Restart(r)] ELSE todo
  /\ Goto(r, Following(pc[r]))
  /\ UNCHANGED <<writer, snapshot, failed, stray, receipts, lock, raised, unguarded>>

\* The wait ends with an exception: the command returned non-zero, timed out, left
\* children or was interrupted.  A stop may have taken effect.
WaitFails(r) ==
  /\ child[r] = "running"
  /\ child' = [child EXCEPT ![r] = "cleanup"]
  /\ \/ UNCHANGED writer
     \/ pc[r] = "stop" /\ \E down \in SUBSET Units : TakeDown(down)
  /\ UNCHANGED <<snapshot, todo, failed, stray, completed, receipts, lock, pc, raised, unguarded>>

\* Variant: a failing hook's process group is not killed.
LeaveGroup(r) ==
  /\ pc[r] \in Commands \ {"start"} /\ Over(r)
  /\ child' = [child EXCEPT ![r] = "none"]
  /\ stray' = [stray EXCEPT ![r] = @ \cup {pc[r]}]
  /\ Raise(r)
  /\ UNCHANGED <<writer, snapshot, failed, completed, receipts, lock, unguarded>>

\* The command could not be executed, or its process group is killed in the finally
\* block; then the exception goes on.
CommandFails(r) ==
  /\ pc[r] \in Commands \ {"start"} /\ Over(r)
  /\ pc[r] = "stop" => todo[r] # {}
  /\ child' = [child EXCEPT ![r] = "none"]
  /\ Raise(r)
  /\ UNCHANGED <<writer, snapshot, failed, stray, completed, receipts, lock, unguarded>>

\* An exception goes on that nobody has killed a group for: whatever lives of the
\* command runs on beside what follows.
LeaveBehind(r) ==
  /\ pc[r] \in Commands
  /\ child' = [child EXCEPT ![r] = "none"]
  /\ \/ UNCHANGED stray
     \/ stray' = [stray EXCEPT ![r] = @ \cup {pc[r]}]
  /\ \/ /\ pc[r] = "start"
        /\ \E u \in todo[r] : Noted(r, u)
        /\ UNCHANGED <<pc, raised>>
     \/ /\ pc[r] # "start"
        /\ \/ UNCHANGED writer
           \/ pc[r] = "stop" /\ \E down \in SUBSET Units : TakeDown(down)
        /\ Raise(r)
        /\ UNCHANGED failed
  /\ UNCHANGED <<snapshot, completed, receipts, lock>>

\* Popen.__exit__ waits for the command's own process, without a timeout, and for
\* none of its children.
AbandonedEnds(r) ==
  /\ child[r] = "abandoned"
  /\ LeaveBehind(r)
  /\ UNCHANGED unguarded

\* A command nobody waits for runs on until it ends: a stray systemctl takes its
\* effect after the runner has gone on.
StrayEnds(r) ==
  /\ \E command \in stray[r] :
       /\ stray' = [stray EXCEPT ![r] = @ \ {command}]
       /\ \/ UNCHANGED writer
          \/ command = "stop" /\ \E down \in SUBSET Units : TakeDown(down)
          \/ /\ command = "start"
             /\ \E u \in failed[r], state \in {"active", "failed"} :
                  writer' = [writer EXCEPT ![u] = state]
  /\ UNCHANGED <<snapshot, todo, failed, child, completed, receipts, lock, pc, raised, unguarded>>

-----------------------------------------------------------------------------
(* execute: the scratch directory goes, the receipts follow. *)

RemoveScratch(r) ==
  /\ pc[r] = "scratch"
  /\ Goto(r, IF raised[r] THEN "failure" ELSE "attempt")
  /\ UNCHANGED <<writers, hooks, receipts, lock, raised, unguarded>>

Publish(r, result) ==
  attempt' = [attempt EXCEPT ![ActionOf(r)] = [run |-> r, result |-> result]]

\* Every run ends here: the lock and the variables go with the process, and so,
\* under KillMode=mixed, does whatever is left of its control group.
Exit(r) ==
  /\ Goto(r, "ended")
  /\ lock' = NoRun
  /\ stray' = [stray EXCEPT ![r] = {}]
  /\ child' = [child EXCEPT ![r] = "none"]
  /\ snapshot' = [snapshot EXCEPT ![r] = {}]
  /\ todo' = [todo EXCEPT ![r] = {}]
  /\ failed' = [failed EXCEPT ![r] = {}]
  /\ completed' = [completed EXCEPT ![r] = {}]
  /\ raised' = [raised EXCEPT ![r] = FALSE]
  /\ unguarded' = [unguarded EXCEPT ![r] = FALSE]
  /\ UNCHANGED writer

\* Variant: the receipt is written in place and the write is cut short.
PublishTorn(r) ==
  /\ pc[r] = "attempt"
  /\ Publish(r, "torn")
  /\ Goto(r, "success")
  /\ UNCHANGED <<writers, hooks, success, lock, raised, unguarded>>

PublishAttempt(r) ==
  /\ pc[r] = "attempt"
  /\ Publish(r, "success")
  /\ Goto(r, "success")
  /\ UNCHANGED <<writers, hooks, success, lock, raised, unguarded>>

PublishSuccess(r) ==
  /\ pc[r] = "success"
  /\ success' = [success EXCEPT ![ActionOf(r)] = r]
  /\ Goto(r, "published")
  /\ UNCHANGED <<writers, hooks, attempt, lock, raised, unguarded>>

Leave(r) ==
  /\ pc[r] = "published"
  /\ Exit(r)
  /\ UNCHANGED receipts

PublishFailure(r) ==
  /\ pc[r] = "failure"
  /\ Publish(r, "failure")
  /\ Exit(r)
  /\ UNCHANGED success

\* An exception inside execute's try records a failure, also over the attempt of
\* a run whose success has just been published; one in the handler records nothing.
RecordFailure(r) ==
  /\ raised' = [raised EXCEPT ![r] = TRUE]
  /\ Goto(r, "failure")
  /\ UNCHANGED <<writers, hooks, receipts, lock, unguarded>>

\* The directory cannot be removed, or a receipt cannot be written.
FinishFails(r) ==
  \/ pc[r] \in {"scratch", "attempt", "success"} /\ RecordFailure(r)
  \/ pc[r] = "failure" /\ Exit(r) /\ UNCHANGED receipts

-----------------------------------------------------------------------------
(* SIGTERM and SIGKILL. *)

\* Between two commands the exception leaves the block it finds.
InterruptBetween(r) ==
  /\ pc[r] \in ({"query"} \cup Commands) \ {"start"} /\ child[r] = "none"
  /\ Raise(r)
  /\ UNCHANGED <<writer, snapshot, failed, hooks, receipts, lock, unguarded>>

Unguarded(r) == unguarded' = [unguarded EXCEPT ![r] = TRUE]

\* The signal leaves a command whose group is not, or no longer, guarded: behind the
\* constructor or in the finally block, before the kill.
Abandon(r) ==
  /\ child' = [child EXCEPT ![r] = "abandoned"]
  /\ Unguarded(r)
  /\ UNCHANGED <<writers, stray, completed, receipts, lock, pc, raised>>

\* The child has been forked.  Inside the constructor there is no __exit__ to wait.
InterruptSpawning(r) ==
  /\ child[r] = "forked"
  /\ Abandon(r) \/ (LeaveBehind(r) /\ Unguarded(r))

InterruptWaiting(r) == WaitFails(r)

\* Behind the kill the signal changes nothing: the exception was on its way.
InterruptCleaning(r) ==
  /\ child[r] = "cleanup"
  /\ Abandon(r)

InterruptAbandoning(r) == AbandonedEnds(r)

\* The exception leaves the finally block with the writers it has not reached.
InterruptResuming(r) ==
  /\ pc[r] = "start" /\ child[r] = "none"
  /\ raised' = [raised EXCEPT ![r] = TRUE]
  /\ Goto(r, "scratch")
  /\ Unguarded(r)
  /\ UNCHANGED <<writers, hooks, receipts, lock>>

InterruptFinishing(r) ==
  /\ pc[r] \in {"scratch", "attempt", "success", "published"}
  /\ RecordFailure(r)

Interrupt(r) ==
  \/ "between" \in Interrupted /\ InterruptBetween(r)
  \/ "spawning" \in Interrupted /\ InterruptSpawning(r)
  \/ "waiting" \in Interrupted /\ InterruptWaiting(r)
  \/ "cleaning" \in Interrupted /\ InterruptCleaning(r)
  \/ "abandoning" \in Interrupted /\ InterruptAbandoning(r)
  \/ "resuming" \in Interrupted /\ InterruptResuming(r)
  \/ "finishing" \in Interrupted /\ InterruptFinishing(r)
  \/ "reporting" \in Interrupted /\ pc[r] = "failure" /\ FinishFails(r)

\* systemd gave up waiting: the whole control group is killed.
Kill(r) ==
  /\ pc[r] \notin Ended \cup {"idle"}
  /\ Exit(r)
  /\ UNCHANGED receipts

-----------------------------------------------------------------------------
Backup(r) ==
  \/ Query(r) \/ AllStopped(r) \/ AllResumed(r)
  \/ \E u \in Units : StopWriter(r, u) \/ StartWriter(r, u) \/ NoteFailedStart(r, u)

Command(r) == Spawn(r) \/ Spawned(r) \/ HookDone(r) \/ WaitFails(r) \/ CommandFails(r)

Finish(r) ==
  \/ RemoveScratch(r) \/ PublishAttempt(r) \/ PublishSuccess(r) \/ Leave(r)
  \/ PublishFailure(r) \/ FinishFails(r)

Step(r) == Backup(r) \/ Command(r) \/ Finish(r)

Next ==
  \E r \in Runs :
    Begin(r) \/ Step(r) \/ StrayEnds(r) \/ AbandonedEnds(r) \/ Interrupt(r) \/ Kill(r)

\* Every command that is waited for is bounded by the policy's timeout, so a run goes
\* on by itself.  One that waits in __exit__ may wait for ever: systemd ends it
\* (TimeoutStartSec, TimeoutStopSec).
Fairness ==
  \A r \in Runs : WF_vars(Step(r)) /\ WF_vars(child[r] = "abandoned" /\ Kill(r))

Spec == Init /\ [][Next]_vars /\ Fairness

-----------------------------------------------------------------------------
(* Properties. *)

Live(r) == IF child[r] = "none" THEN stray[r] ELSE stray[r] \cup {pc[r]}

\* A run past its restarts has started every unit it had found active, or counts it
\* among the failures.
Resumed(r) ==
  pc[r] \in {"scratch", "attempt", "success", "published", "failure"} =>
    \A u \in snapshot[r] : writer[u] = "active" \/ u \in failed[r]

\* "Stop only running declared writers and resume all of them after any failure"
\* (runner.py:80), as it is written: whatever failed, timed out, cascaded or was
\* interrupted, and wherever SIGTERM arrived.
WritersAlwaysResumed == \A r \in Runs : Resumed(r)

\* The same of every run whose signals arrived where its code guards against them:
\* not in Popen, not in a cleanup and not between two restarts.
WritersResumed == \A r \in Runs : ~unguarded[r] => Resumed(r)

\* "Cleanup must finish before writers restart": data is exported and archived only
\* while every writer found active is stopped; a hook that failed or was interrupted
\* never overlaps the restarts that follow it, unless a signal arrived in Popen, before
\* the hook was guarded, or in the finally block, before its group was killed.
HooksSeeStoppedWriters ==
  \A r \in Runs : ~unguarded[r] /\ Live(r) \cap BackupHooks # {} => \A u \in snapshot[r] : writer[u] # "active"

\* The lock serializes an application's operations: no hook of one runs beside a
\* hook or a writer command of another.
OneOperation ==
  \A r, q \in Runs : Live(r) # {} /\ Live(q) # {} => r = q

\* A success receipt is earned: when it is published, every hook of its run has
\* returned 0 and every writer the run found active has been started again.
SuccessEarned ==
  [][\A r \in Runs : success'[ActionOf(r)] = r /\ success[ActionOf(r)] # r =>
       /\ (IF r \in Backups THEN BackupHooks ELSE DrillHooks) \subseteq completed[r]
       /\ failed[r] = {} /\ \A u \in snapshot[r] : writer[u] = "active"]_vars

\* Every run gives the lock up, whatever its hooks do and however often it is
\* interrupted.
RunEnds == \A r \in Runs : lock = r ~> lock # r

-----------------------------------------------------------------------------
(* The invariant that carries the proofs. *)

Past == {"scratch", "attempt", "success", "published", "failure"}

\* A run is at work under the lock; before and after it leaves nothing running.
LockInv(r) ==
  /\ pc[r] \notin Ended \cup {"idle"} => lock = r
  /\ pc[r] \in Ended \cup Past \cup {"idle", "query"} => child[r] = "none"
  /\ pc[r] \in Ended \cup {"idle"} => stray[r] = {}

\* What a run knows of its writers: those its stop loop is done with are down, those
\* its start loop is done with are up or noted.  An exception may cut the loops
\* short, or leave a systemctl behind.
WriterInv(r) ==
  /\ pc[r] \in {"idle", "query"} \cup DrillHooks => snapshot[r] = {} /\ failed[r] = {}
  /\ pc[r] \in {"idle", "query", "stop"} \cup BackupHooks \cup DrillHooks => stray[r] = {}
  /\ "stop" \in stray[r] => raised[r]
  /\ pc[r] \in {"stop"} \cup BackupHooks
       => \A u \in snapshot[r] \ todo[r] : writer[u] # "active"
  /\ pc[r] \in BackupHooks => todo[r] = {}
  /\ pc[r] = "start" /\ ~raised[r]
       => \A u \in snapshot[r] : u \in todo[r] \/ writer[u] = "active" \/ u \in failed[r]
  /\ pc[r] \in Past /\ ~raised[r] => \A u \in snapshot[r] : writer[u] = "active" \/ u \in failed[r]

\* What it knows besides while its signals meet guards, with or without an exception.
GuardInv(r) == ~unguarded[r] =>
  /\ stray[r] = {} /\ child[r] # "abandoned"
  /\ pc[r] = "start"
       => \A u \in snapshot[r] : u \in todo[r] \/ writer[u] = "active" \/ u \in failed[r]
  /\ pc[r] \in Past => \A u \in snapshot[r] : writer[u] = "active" \/ u \in failed[r]

\* What a run without an exception has behind it.
ProgressInv(r) ==
  /\ pc[r] \in {"query", "stop", "start"} \cup BackupHooks => r \in Backups
  /\ pc[r] \in DrillHooks => r \in Drills
  /\ pc[r] \in {"attempt", "success"} => ~raised[r]
  /\ ~raised[r] =>
       /\ pc[r] = "backup" => "export" \in completed[r]
       /\ pc[r] = "start" => BackupHooks \subseteq completed[r]
       /\ pc[r] \in {"restore", "check"} => "recover" \in completed[r]
       /\ pc[r] = "check" => "restore" \in completed[r]
       /\ pc[r] \in {"scratch", "attempt", "success"} =>
            /\ failed[r] = {}
            /\ (IF r \in Backups THEN BackupHooks ELSE DrillHooks) \subseteq completed[r]
=============================================================================

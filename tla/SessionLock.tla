---------------------------- MODULE SessionLock ----------------------------
(***************************************************************************)
(* desktop-session-lock (session-lock.sh): lock launches hyprlock under a  *)
(* flock on a runtime file of this user and compositor, running tests that *)
(* flock to learn whether a launch is alive.  Requests come from Hypridle  *)
(* (idle timer, "loginctl lock-session" before sleep) and from key         *)
(* bindings, and interleave with each other, with Hypridle's running       *)
(* checks and with the life of the locker.                                 *)
(***************************************************************************)
CONSTANTS
  Requests,  \* concurrent invocations of "lock"
  Checks,    \* concurrent invocations of "running"
  NoOne      \* holder of a free lock file

ASSUME SessionLockAssumption ==
  /\ NoOne \notin Requests \cup Checks
  /\ Requests \cap Checks = {}

VARIABLES
  holder,   \* the invocation whose flock process holds the lock file, or NoOne
  request,  \* progress of each lock invocation
  locker,   \* the hyprlock child of each lock invocation
  screen,   \* the session as the compositor sees it
  check     \* progress of each running invocation and its last answer

vars == <<holder, request, locker, screen, check>>

TypeOK ==
  /\ holder \in Requests \cup Checks \cup {NoOne}
  /\ request \in [Requests -> {"idle", "asked", "launched", "dismissed"}]
  /\ locker \in [Requests -> {"none", "starting", "engaged"}]
  /\ screen \in {"open", "locked"}
  /\ check \in [Checks -> {"idle", "asked", "testing", "yes", "no"}]

Init ==
  /\ holder = NoOne
  /\ request = [r \in Requests |-> "idle"]
  /\ locker = [r \in Requests |-> "none"]
  /\ screen = "open"
  /\ check = [c \in Checks |-> "idle"]

-----------------------------------------------------------------------------
(* lock: flock --nonblock --conflict-exit-code 0 --close FILE hyprlock *)

Ask(r) ==
  /\ request[r] \in {"idle", "dismissed"}
  /\ request' = [request EXCEPT ![r] = "asked"]
  /\ UNCHANGED <<holder, locker, screen, check>>

\* Variant: the locker is launched whether or not the lock was obtained.
LaunchRegardless(r) ==
  /\ request[r] = "asked"
  /\ holder' = r
  /\ request' = [request EXCEPT ![r] = "launched"]
  /\ locker' = [locker EXCEPT ![r] = "starting"]
  /\ UNCHANGED <<screen, check>>

Launch(r) ==
  /\ request[r] = "asked" /\ holder = NoOne
  /\ holder' = r
  /\ request' = [request EXCEPT ![r] = "launched"]
  /\ locker' = [locker EXCEPT ![r] = "starting"]
  /\ UNCHANGED <<screen, check>>

\* Variant: a conflict is reported as a failure.
DismissAsFailure(r) ==
  /\ request[r] = "asked" /\ holder # NoOne
  /\ request' = [request EXCEPT ![r] = "failed"]
  /\ UNCHANGED <<holder, locker, screen, check>>

\* A conflict is a success: nothing is launched.
Dismiss(r) ==
  /\ request[r] = "asked" /\ holder # NoOne
  /\ request' = [request EXCEPT ![r] = "dismissed"]
  /\ UNCHANGED <<holder, locker, screen, check>>

\* Variant: flock leaves its file locked when the command it ran is gone.
KeepLock(r) ==
  /\ request[r] = "launched" /\ locker[r] = "none"
  /\ request' = [request EXCEPT ![r] = "idle"]
  /\ UNCHANGED <<holder, locker, screen, check>>

\* flock has waited for the locker and exits: the kernel drops its lock.
Release(r) ==
  /\ request[r] = "launched" /\ locker[r] = "none"
  /\ holder' = NoOne
  /\ request' = [request EXCEPT ![r] = "idle"]
  /\ UNCHANGED <<locker, screen, check>>

-----------------------------------------------------------------------------
(* hyprlock and the compositor (ext-session-lock-v1). *)

Engage(r) ==
  /\ locker[r] = "starting"
  /\ locker' = [locker EXCEPT ![r] = "engaged"]
  /\ screen' = "locked"
  /\ UNCHANGED <<holder, request, check>>

Unlock(r) ==
  /\ locker[r] = "engaged"
  /\ locker' = [locker EXCEPT ![r] = "none"]
  /\ screen' = "open"
  /\ UNCHANGED <<holder, request, check>>

\* A locker that dies leaves the session as locked as it was.
LockerDies(r) ==
  /\ locker[r] # "none"
  /\ locker' = [locker EXCEPT ![r] = "none"]
  /\ UNCHANGED <<holder, request, screen, check>>

-----------------------------------------------------------------------------
(* running: flock --nonblock --conflict-exit-code 75 FILE true.  The test    *)
(* itself holds the lock for as long as "true" runs.                         *)

AskRunning(c) ==
  /\ check[c] \in {"idle", "yes", "no"}
  /\ check' = [check EXCEPT ![c] = "asked"]
  /\ UNCHANGED <<holder, request, locker, screen>>

\* Variant: the exit codes are swapped.
TestInverted(c) ==
  /\ check[c] = "asked"
  /\ \/ holder # NoOne /\ check' = [check EXCEPT ![c] = "no"]
     \/ holder = NoOne /\ check' = [check EXCEPT ![c] = "yes"]
  /\ UNCHANGED <<holder, request, locker, screen>>

Test(c) ==
  /\ check[c] = "asked"
  /\ \/ /\ holder = NoOne
        /\ holder' = c
        /\ check' = [check EXCEPT ![c] = "testing"]
     \/ /\ holder # NoOne
        /\ check' = [check EXCEPT ![c] = "yes"]
        /\ UNCHANGED holder
  /\ UNCHANGED <<request, locker, screen>>

TestEnds(c) ==
  /\ check[c] = "testing"
  /\ holder' = NoOne
  /\ check' = [check EXCEPT ![c] = "no"]
  /\ UNCHANGED <<request, locker, screen>>

-----------------------------------------------------------------------------
Lock(r) == Ask(r) \/ Launch(r) \/ Dismiss(r) \/ Release(r)

Locker(r) == Engage(r) \/ Unlock(r) \/ LockerDies(r)

Running(c) == AskRunning(c) \/ Test(c) \/ TestEnds(c)

Next ==
  \/ \E r \in Requests : Lock(r) \/ Locker(r)
  \/ \E c \in Checks : Running(c)

\* A process that is not blocked gets to run: flock acts on a request, notices
\* its child's end, and "true" returns.  Nobody is obliged to ask or to unlock.
Fairness ==
  /\ \A r \in Requests :
       WF_vars(Launch(r) \/ Dismiss(r)) /\ WF_vars(Release(r)) /\ WF_vars(Engage(r))
  /\ \A c \in Checks : WF_vars(Test(c)) /\ WF_vars(TestEnds(c))

Spec == Init /\ [][Next]_vars /\ Fairness

-----------------------------------------------------------------------------
(* Properties. *)

\* The flock admits one launch at a time: two lockers never run together.
OneLocker ==
  \A r, q \in Requests : locker[r] # "none" /\ locker[q] # "none" => r = q

\* "running" answers yes only while a lock invocation holds the file, whatever
\* happens between Hypridle's question and the answer: the check never takes
\* itself, or a free file, for a launched locker.
RunningMeansLaunched ==
  [][\A c \in Checks : check[c] # "yes" /\ check'[c] = "yes" => holder \in Requests]_vars

\* "No process name, PID file, or stale file can suppress another session's lock
\* request": once its locker is gone, whatever ended it, a launch gives the file up.
StaleLaunchEnds ==
  \A r \in Requests : (holder = r /\ locker[r] = "none") ~> (holder # r)

\* "A concurrent request is already being handled": a lock request is dismissed
\* only while a locker is on its way or on the screen.
DismissedMeansHandled ==
  [][\A r \in Requests :
       request[r] = "asked" /\ request'[r] = "dismissed"
         => \E q \in Requests : locker[q] # "none"]_vars

-----------------------------------------------------------------------------
(* The invariant that carries the proofs: the file is held by the invocation  *)
(* whose flock says so, and a locker lives only inside a launched invocation. *)

HolderInv ==
  /\ \A r \in Requests : request[r] = "launched" <=> holder = r
  /\ \A r \in Requests : locker[r] # "none" => request[r] = "launched"
  /\ \A c \in Checks : check[c] = "testing" <=> holder = c
=============================================================================

# A verification project for nix-conf

nix-conf declares the NixOS workstation, the macOS laptop and the home
environments of one operator. Most of the repository is declarative and has no
behaviour of its own. What behaves are the programs it installs: shell and
Python programs that supervise virtual machines, backups, queues, locks and
keys, and that must be right when a step fails, a signal arrives or the power
goes. This project models those programs in TLA+, checks the models with TLC and
proves their main properties with TLAPS.

Paths below are relative to the repository; `V/` stands for
`src/modules/nixos/virtualisation/`.

## 1. Inventory

| Component | State it keeps | Operations | Met by | Hard behaviour |
|---|---|---|---|---|
| Managed Windows guest (`V/scripts/libvirt-windows-vm-control.sh.in`, `-reconcile`, `libvirt-workstation-setup`, `V/windows/Bootstrap.ps1.in`) | disk, its candidate, install marker, credential, seed media, libvirt definition and autostart bit; in the guest: status, provisioning copy, Run value | credential, authorize, install, resume, finalize, discard; boot-time setup and reconcile; Bootstrap | libvirt, systemd at boot and rebuild, the guest agent | no lock between commands; death between any two steps; rebuild with another recipe; reboots of host and guest |
| VM start, exclusive groups, sleep inhibition (`libvirt-workstation-control.sh.in`, `-profile-guard`, `-sleep-inhibitor-hook`) | running domains, inhibitor units | start, stop, hooks prepare/release/reconnect | libvirt calls the hooks | check of the group before the start; reconnects |
| Session lock (`src/modules/home/desktop/scripts/session-lock.sh`, `idle.nix`) | one flock | lock, running | Hypridle, key bindings, hyprlock, compositor | concurrent requests; the check takes the lock it tests |
| Workstation queue (`src/homes/desktop/local/workstation-task.sh`, `wait-workstation-cgroup.py`) | flock on descriptor 9, three pid variables, a systemd scope | queue, run, wait for descendants, clean up | systemd, the cgroup, signals | signals at any step; commands that ignore SIGTERM; lost wakeups |
| Application recovery (`src/modules/nixos/services/application-recovery/runner.py`, `default.nix`) | operation.lock, writer units, scratch, two receipts per action | backup, drill | systemd units and timers | failures between stops and starts; timeouts; stray children; SIGTERM anywhere |
| Storage health report and delivery (`src/hosts/nixos/desktop/local/storage/health.py`, `health.nix`) | `health.tmp`, `health.json`; delivery lock, `delivered.json`, `pending.json` | refresh, status, deliver, test-delivery, notify | timers, operator, notification command | two refreshes on one temporary file; events that go out unacknowledged; reports read before the lock |
| Desktop backup receipts, enrolment (`storage/backup-helper.py`, `backups.nix`, `enroll.sh`) | receipts per phase and operation, restore canary | guard, stamp, finish, canary, restore, cold-backup, status, record-recovery-drill | Restic, systemd, the health report | steps that fail between two stamps; clocks set back; workloads during a cold backup; power loss |
| Mac local control: PKI and gates, proxy supervisor, database scripts (`src/homes/macbook-pro-m4/local/local-control/`) | key material, generation pointer, environment file; retry delay, Caddy's pid | initialize, prepare, verify, restart; supervise | launchd, OpenSSL, Caddy | crash between two files; TERM between fork and record |
| Mac development VM host (`dev_vm_host.py`) | none | choose a DHCP lease | VMware's lease file | ambiguous leases |
| Hyprshell Alt-Tab patch (`hyprshell-modifier-state.patch`) | open flag, request id, pending release, cancellation time | open, navigate, close, cancel, query | Hyprland IPC | stale answers; 32-bit time wrap |
| Bluetooth pairing guard (`modules/nixos/hardware/scripts/disable-bluetooth-pairing.py`) | ready events, pending property writes | subscribe, snapshot, set, give up | BlueZ on D-Bus, systemd, users | adapters that appear between subscription and snapshot; BlueZ back under another name |
| Wallpaper policy (`modules/home/desktop/scripts/wallpaper-policy.py`, `wallpaper-next.sh.in`) | preferences and their lock, the image on the outputs | set a switch, filter, rotate, clear | operators, timer, library | concurrent commands; a rotation that read the file before a command completed |
| Wallpaper collection (`wallpaper-fetch-d2d.py`, Commons fetcher, `wallpaper-seed`, `wallpaper-add`) | images, sidecars, cursor and identifiers seen, fetch lock, `current` | acquire, publish, undo, evict; seed, add | provider, timers, the rotation | death between sidecar, image and state; eviction of what is shown |
| Git privacy hook (`modules/home/dev/scripts/git-privacy-hook.py`) | the objects to inspect, the tail of the last chunk | commit-msg, pre-push | Git, GitHub, others who push | addresses that straddle chunks; a destination that moves |
| Evidence collector (`scripts/workstation_evidence.py`) | receipts; a process session and its timer | capture, skip, status, compare | Nix, the active system, the measured command | edits and switches during a capture; overlapping captures; surviving children |
| Update script, swap guard, idle-inhibitor check, activation-time rewriters, generators | none, or one file | one pass over their input | timers, activation, CI | none that outlives a call |

`PROJECT.json` lists the same components with their status and the lines where
each hazard bites.

What makes each modelled component correct:

* **Windows guest.** No half-installed guest is ever taken for a runtime; one
  installation uses one recipe; a finalized guest never starts the installer
  again; a finalized machine is left alone.
* **Session lock.** One locker at a time; `running` is truthful; a launch whose
  locker is gone gives the lock up.
* **Workstation queue.** Workloads are serialized; cancellation leaves nothing
  running and always ends; an emptied scope frees the queue.
* **Application recovery.** Every writer found active is started again or
  reported; data is exported only beside stopped writers; operations of one
  application exclude each other; success receipts are earned.
* **Storage health.** Readers get a whole report or a warning, and a lasting
  failure stays in it; nothing is acknowledged that was not accepted, nothing
  acknowledged is sent again, and a lasting warning is acknowledged.
* **Backup receipts.** The latest failure of a unit stays visible; a status that
  calls every check current rests on backups, reads and restores that happened.
* **Pairing guard.** No adapter registers unnoticed; success means that pairing
  was off everywhere.
* **Wallpapers.** No command's choice is lost; nothing disabled stays visible
  once a rotation that knows has chosen; the library is sound at every instant;
  eviction spares what is shown.
* **Privacy hook.** Nothing with a private address passes, wherever chunks end
  and whatever the destination does meanwhile.
* **Evidence.** A passed receipt speaks of the output of the tree it names; the
  latest verdict counts; no trial runs beside what an earlier one left, and a
  capture beside such survivors does not pass.

## 2. Modules

| Module | Contents |
|---|---|
| `InstallLifecycle` | abstract specification: what an installation promises its operator |
| `WindowsInstall` | the Windows guest, from the control program to the guest's own scripts; implements `InstallLifecycle` |
| `WindowsInstall_proofs` | theorems about it |
| `SessionLock`, `SessionLock_proofs` | the lock launcher |
| `WorkstationQueue`, `WorkstationQueue_proofs` | the task supervisor, its scope and the cgroup observer |
| `AppRecovery`, `AppRecovery_proofs` | the recovery runner |
| `HealthReport`, `HealthReport_proofs` | the storage report and its temporary file |
| `HealthDelivery`, `HealthDelivery_proofs` | delivery of what the report says |
| `BackupReceipts` | the backup units, their receipts and their status |
| `BluetoothPairing` | the pairing guard against BlueZ |
| `Evidence` | captures, trials, receipts and coverage |
| `WallpaperPolicy` | preference commands and the rotation |
| `WallpaperCollection` | the astronomy fetcher, its publication and eviction |
| `PrivacyHook` | the Git hook and its chunked reading |
| `SessionPrograms_proofs` | theorems about `BluetoothPairing`, `PrivacyHook`, `WallpaperPolicy` and `WallpaperCollection` |
| `DesktopPrograms_proofs` | theorems about `Evidence` and `BackupReceipts`, and type correctness of all six programs of `MCPrograms` |
| `MC*` | the instance TLC checks, with the reason for its bounds |

Definitions under a comment that begins with "Variant:" are not part of any
specification. Each is the neighbouring definition with a plausible mistake in
it, and `PROJECT.json` pairs it with the property that catches it.

### 2.1 WindowsInstall

A step is one change of a file or of a libvirt object; `pc[p]` is the next step
of the command that shell `p` runs. `install` is `InstallCheck`,
`CreateCandidate`, `PublishDisk` (`mv --no-clobber`), `WriteInstallMarker`, then
the steps it shares with `resume`: `CreateSeed`, `DefineInstaller`,
`DisableAutostart`, `StartInstaller`. `finalize` and `discard` are laid out the
same way; the single `rm` of `discard` unlinks its arguments in their order.
`Die` is a failing command, whose EXIT trap removes the candidate; `Kill` has no
trap; `PowerLoss` also empties `/run` and stops the guest. `Rebuild` activates
another recipe and restarts both boot services, whose steps interleave with the
commands. Paths, XML, checksums and waiting are left out; a wait that can time
out is a step that may not happen, with `Die` as its alternative. Recipes are
opaque fingerprints. The inspection of untrusted media is one precondition of
`CreateSeed` and keeps no state.

The abstraction map sends the marker and the disk to a phase
(`LifecyclePhase`) and the marker to the recipe. Under it every step is a step
of `InstallLifecycle` or a stutter.

### 2.2 SessionLock

The lock file is its holder. `Launch`/`Dismiss` are the two outcomes of
`flock --nonblock`; `Release` is flock's exit after it has reaped its child.
Screen and locker follow ext-session-lock-v1: a locker that dies leaves the
session locked. The flock parents are not killed in the model: `--close` keeps
the descriptor from the locker, so killing a flock would free the file with its
locker alive.

### 2.3 WorkstationQueue

A supervisor's `pc` walks the script; `live` holds the helpers it has forked and
`known` those whose pid is in its variables. The gap between the two is the
point of the model: a signal may arrive in it. Traps run `cleanup` as one step
per command (`KillWaiter` ... `Reap`, `Exit`). The scope is a set of at most a
main process and descendants; it may ignore SIGTERM (the launcher is only killed
while it is still `systemd-run`) but `systemctl stop` ends it. The observer
reads, then polls; a scope that becomes empty notifies it. Nested calls run
inside the scope of their parent and are part of its workload.

### 2.4 AppRecovery

`pc[r]` is the command a run is at; `child[r]` walks the command: forked (inside
`Popen`, before the `try` guards it), running (waited for), in its cleanup (the
wait is over, the group not yet killed), or abandoned (it never will be killed:
the exception is in `Popen.__exit__`, which waits for the command's own process
and for none of its children). What an abandoned command leaves is `stray`, and
may still take its effect later. Hooks return 0, fail, time out, leave children
or are interrupted; the last four are one action (`WaitFails`), because each
ends in the same `finally` block, whose kill is a second one (`CommandFails`,
`NoteFailedStart`). Stopping a unit may take other declared units down
(`PartOf`, `BindsTo`). SIGTERM raises an exception in the window it finds:
between commands, inside `Popen`, while waiting, in the cleanup before its kill,
in the wait of `Popen.__exit__`, between two restarts, after the hooks, or inside
the handler. `unguarded` marks the runs it found inside `Popen`, in a cleanup
before its kill or between two restarts. `Kill` is systemd's SIGKILL of the
control group; `Exit` merges it with the release of the lock, as nothing of the
unit outlives its main process. The unit order of the declaration is abstracted:
units stop and start in any order. Nobody else stops or starts the writers during
a run: the properties are about what the runner does to them. A signal in the
exit of the two outer `with` statements (the lock, the scratch directory) is not
modelled apart from the step it interrupts.

### 2.5 HealthReport and HealthDelivery

`HealthReport` follows `refresh` to the system call, because every refresh uses
the same `health.tmp`: `Open` truncates the file that is there, `Write` goes to
the file its descriptor is on, which `Replace` of another refresh may have made
`health.json` or unlinked, and `Chmod` and `Replace` fail when the name is gone
(`SaveFails`). A shorter report written over a longer one leaves a tail, which no
reader parses (`torn`); whether it is shorter depends on the printed time, so the
outcome is open unless the messages decide it. `Reported` is `read`. Age is one
bit: a report too old and one dated in the future by a clock set back read the
same.

`HealthDelivery` takes what `read` returns as `reported`, which changes
arbitrarily (`Publish`; `HealthReport` says how). A delivery reads the report and
the policy, takes the lock, compares, writes `pending.json`, runs the command and
replaces `delivered.json`. `told` is what a command's recipient knows; the code
cannot see it. A command may refuse, accept, or accept and then fail
(`AcceptAndFail`), because it may outlive its 30 seconds. `test-pending.json` is
left out: it is written and never read. A killed unit takes its command with it;
an operator who kills only the Python process of a foreground `deliver`, and
leaves its command running, is not modelled.

The two meet in `Reported` and `reported`: `FailureStaysReported` of the first
gives the premise of `WarningIsAcknowledged` of the second.

### 2.6 BackupReceipts

A unit is a destination and one of `backup`, `verification` and `cold`. Its
`Script` is the sequence of helper commands `backups.nix` and `cold_backup` give
it, and `at` the step it is at; every step may fail (`Fail`), the machine may
lose power (`Lose`), and `ExecStopPost` stamps the outcome (`Finish`). The canary
is created and written in two steps. `Missing`, `LatestFailed` and `PolicyGaps`
are what `status` prints. The wall clock ticks and is set back. `evidence`,
`proof`, `latest` and `steady` are history: they record what was really done and
whether the clock was steady, and no action reads them. `coldRequired` is its
default, true. A repository that cannot be reached or is not initialized is a
failing step. The helper looks for running guests, containers and user sessions
before and after a cold backup: whoever starts something in between is seen if it
still runs at the second look (`Disturb`) and goes unnoticed if it does not
(`Rescue`). The code then stamps a copy that was not quiescent, and the
documentation leaves it to the operator to keep rescue mode quiescent;
`CurrentMeansProven` counts no such disturbance against a proof.

### 2.7 BluetoothPairing

`phase` is the `await` the guard is in. A generation of BlueZ is its unique bus
name: signals and answers come from the generation the guard asked
(`GetNameOwner`), and a write to one that is gone is rejected. The handler may
run at any `await`. `RestartService` restarts both (`PartOf`); `Crash` restarts
BlueZ alone, which the guard is not told.

### 2.8 Evidence

A tree, a configuration and a store path are the values their digests identify;
`Output` says what a tree evaluates to. `job[c]` walks `execute_capture`, which
looks at the generation, the settings and the tree at both ends. A trial's
session is its leader and at most a child and a process of another user (sudo),
which may be the leader itself: `killpg` spares it, and when it may signal nobody
the error passes for "Could not start command". `Abort` is the interrupt the
collector answers by killing the session, `Unwind` the wait that follows;
`Vanish` is a collector that is killed, or interrupted where nothing is guarded:
it stores nothing and leaves its command running, which is followed no further.
What is killed is gone at once. The store loses no path: garbage collection is
left out. `Valid` is `validate_receipt` for
what a capture can get wrong: the order of the dates and the support of a
success. Git is assumed to answer. A tree is never edited back to an earlier
one: the program says itself that it sees endpoints, not transient changes.

### 2.9 WallpaperPolicy and WallpaperCollection

The nested preferences are functions from switches to `on`, `off`, `inherit` or
`absent`, because `_merge` overlays them switch by switch. A command takes the
lock, reads, and replaces the file; `wanted` is what the completed commands chose.
A rotation reads the file once (`BeginRotation`), filters the library and shows
an image or clears the outputs; `fresh` and `settled` record whether a command
completed since. An image is its name's prefix, its sidecar's connection and its
categories: `Eligible` is `_eligible` and `Allowed` is `_allowed`.

`WallpaperCollection` follows the fetcher to the file operation: `Describe`
(sidecar), `Place` (image), `SaveState`, their undoing in reverse, and
`ListImages`, `Evict`, `EvictSidecar`. `FetchEnds` ends a run at any of them. The
rotation is three steps: the renderer is told, the record `current` is truncated,
then written. The feed answers anything it may; `Admissible` and `Geometry` are
the gates of `_resource` and `_geometry`.

### 2.10 PrivacyHook

An object is a sequence of symbols, a pattern a spelling of an address. The
object graph belongs to Git (`Reach`). A push lists what the destination
advertises, lists what its tips reach and that does not, asks for the
destination's visibility, and reads one object after the other in chunks, of
which the tail is kept. Others push and delete branches meanwhile; `given` is
what the destination ever reached. It is read again by no action.

## 3. Runs

| Run | Instance | What it shows |
|---|---|---|
| `windows_install` | 1 operator, 2 recipes, autostart on | `UnmarkedDiskSettled`, `MarkerNamesRecipe`, `FinalizedLeavesNoInstaller` and the refinement `ImplementsLifecycle` hold through deaths, kills, rebuilds and power losses |
| `windows_phase` | the same | fails: `windows-vm phase` calls a blank, abandoned disk a finalized runtime (finding 1) |
| `session_lock` | 3 requests, 1 check | `OneLocker`, `RunningMeansLaunched`, `StaleLaunchEnds` |
| `session_dismissed` | the same | fails: a request is dismissed as handled though no locker exists or will (finding 2) |
| `workstation_queue` | 2 tasks, signals outside two windows | `OneWorkload`, `EndedLeavesNothing`, `CancellationEnds`, `EmptyScopeFreesQueue` |
| `queue_cancel` | 2 tasks, signals everywhere | fails: a task ends with its launcher still running (finding 3) |
| `app_recovery` | 2 backups, 1 drill, 2 units, signals and kills at every step | `WritersResumed`, `HooksSeeStoppedWriters` for runs no signal found unguarded; `OneOperation`, `SuccessEarned`, `RunEnds` for all |
| `recovery_resume` | the same | fails: writers stay stopped and unreported (finding 4) |
| `health_report` | the timer's refresh, one by hand twice, 1 check, 1 kill, 1 stale report | `ReportIsWhole`, `FailureStaysReported` |
| `health_delivery` | the timer's delivery and an operator's, 1 warning, 2 commands, 1 kill | `Deduplicated`, `ReceiptIsAccepted`, `WarningIsAcknowledged` |
| `health_pending` | the timer's delivery, 1 warning, 1 command | fails: an unacknowledged recovery hides the warning that follows it (finding 5) |
| `desktop_programs` | one instance of each of six programs, below | `FailureVisible`, `CurrentMeansProven`; `NoneMissed`, `SuccessMeansOff`; `PassedIsBound`, `LatestVerdict`, `TrialsAlone`; `ChoicesKept`, `DisabledLeaves`; `LibrarySound`, `ShownKept`; `NothingLeaks` |

**Bounds.** Two recipes are enough for a marker and a configuration to disagree,
which is the only thing recipes are compared for. One operator is a real
restriction: the control program takes no lock, two concurrent operators do
break the safety properties, and the documentation assumes one. Three requests
are one holder, one that meets the holder and one that arrives when the holder
leaves; requests repeat for ever. Two tasks are a holder and a waiter. Two
backups and a drill are a conflict within an action and one across actions; two
units are one already handled and one not yet reached by a loop. One check or
warning distinguishes healthy from failing, a report from its successor; two
commands make the channel part of the digest matter. `MaxManual` (refreshes by
hand), `MaxDeaths` and `MaxOutages` bound the mishaps that would otherwise repeat
for ever and defeat every promise: two refreshes by hand and a kill are enough to
tear a report, orphan a temporary file and repair both.

`desktop_programs` checks six programs that share no state: `program` is chosen
in the initial state, and a behaviour runs one of them while the others stay
where they started. That is the union of six state spaces, not their product, and
shows what six runs would. Their instances: one backup destination, two attempts
and two ticks, of which the clock may be set back, so an attempt can end before,
with or after the one it is compared with, and a phase with maximum age 0 and
others with 1 are current, on the edge and overdue; two adapters and three
generations of BlueZ, so that one is missed while another is seen and BlueZ comes
back twice; one capture of two trials, of a build, a runtime or a dry activation,
whose command forks, also for another user, beside a build of one trial and one
process, on two trees, of which the second is built and the first perhaps, and with
one move of the world (an edit, a reconfiguration, a build, a switch or a tick; a
command that is itself another user's, and a clock set back, which takes two moves,
are left to the proofs); two commands, one rotation, two connections,
one category with one subcategory and one image each that is personal, of one
connection and of the other; two fetchers, three items of which one is not
admissible and one renders to two files, two pages, and one image kept, which is
the least that makes every publication evict; three objects, of which one is a
blob, with every content of three symbols, two spellings of different length and
chunks of one symbol, so that a spelling straddles two and three chunks.

**Deadlock.** It is checked for `WindowsInstall` and `SessionLock`, whose actors
never stop. The tasks of `WorkstationQueue`, the runs of `AppRecovery` and the
programs of `MCPrograms` end once and for all, so their configurations turn it
off; `CancellationEnds`,
`EmptyScopeFreesQueue` and `RunEnds` say that they end.

**Fairness.** `WindowsInstall` and the six programs assume none: nothing in
them is promised to happen.
`SessionLock`: flock acts on its request, exits after its child, and `true`
returns; nobody has to ask, to unlock or to crash. `WorkstationQueue`: a
supervisor, its flock and its observer run when they are not waiting; a workload
need never end, and no signal need arrive. `AppRecovery`: weak fairness of a
run's own steps, because every command that is waited for is bounded by the
policy's `timeoutSeconds` and its whole process group is killed when that expires,
and of systemd's `Kill` of a run that waits for a command it has abandoned,
because the unit has `TimeoutStartSec` and `TimeoutStopSec`
(`application-recovery/default.nix:52-53`).
`HealthReport`, `HealthDelivery`: their timers fire again (`OnUnitActiveSec`), a
process that runs goes on since every command has a deadline, the timer's
delivery gets the lock in the end, and the command accepts in the end; a command
that never accepts leaves the event pending, which is no fault of the code.

## 4. Findings

1. `install` publishes the system disk before it writes the marker. A death
   between the two leaves a disk that `phase` reports as a stopped runtime and
   that no command will resume or discard. The documentation says `phase`
   distinguishes the three cases.
2. `session-lock lock` reports success on any conflict, also one with a running
   check or with a launch whose locker is already gone, while a comment says the
   concurrent request is being handled.
3. `workstation-task` runs `cleanup` with an empty `launcher` when a signal
   arrives between the fork of the launcher and the assignment of its pid; the
   workload then starts outside the queue. A second signal in the first lines of
   `cleanup` has the same effect.
4. `runner.py` raises from its SIGTERM handler also between two restarts of the
   `finally` block; the writers it has not reached stay stopped. (A signal inside
   `Popen`, or in the `finally` block of `command` before its kill, has a similar
   effect on a hook: it is never killed, and writers restart beside it.)

5. `health.py deliver` compares the report with the last acknowledged state
   only. A recovery that was passed on but not acknowledged, followed by the old
   warning, equals the receipt: the pending event is removed, nothing is sent and
   the channel keeps showing a recovery.

A smaller disagreement has no run of its own: `save` says it publishes
atomically, and does so only for a refresh that has `health.tmp` to itself.
`ReportIsWhole` states that condition.

## 5. Proofs

All theorems hold for every value of the constants that satisfies the module's
`ASSUME` and the assumption named here.

| Theorem | Property | Assumption |
|---|---|---|
| `WindowsInstall_proofs!TypeCorrect` | `TypeOK` | none |
| `UnmarkedDisksAreSettled`, `MarkersNameTheirRecipe`, `FinalizedMachinesAreClean` | the three safety invariants | `SoleOperator`: one operator at a time |
| `CommandsImplementLifecycle` | `ImplementsLifecycle` | `SoleOperator` |
| `TypeCorrect` of `SessionLock`, `WorkstationQueue`, `AppRecovery`, `HealthReport`, `HealthDelivery` | `TypeOK` | none |
| `SessionLock_proofs!LockersExclude` | `OneLocker` | none |
| `RunningIsTruthful` | `RunningMeansLaunched` | `SoleCheck`: one check at a time |
| `WorkstationQueue_proofs!WorkloadsAreSerialized` | `OneWorkload` | none |
| `ExitStopsEverything` | `EndedLeavesNothing` | `SignalsMeetRecords` |
| `CleanupNeverWaits`, `CleanupAdvances` | the safety half of `CancellationEnds` | none |
| `PollsHaveCause` | what `EmptyScopeFreesQueue` rests on | none |
| `AppRecovery_proofs!OperationsAreSerialized` | `OneOperation` | none |
| `WritersAreResumed`, `HooksRunBesideStoppedWriters` | `WritersResumed`, `HooksSeeStoppedWriters` | none (the properties speak of runs that are not `unguarded`) |
| `SuccessIsEarned` | `SuccessEarned` | none |
| `RunsAdvance` | the safety half of `RunEnds` | none |
| `HealthReport_proofs!LoneReportIsWhole` | `ReportIsWhole` | none |
| `LoneReportTellsAll` | a lone report is exactly what its refresh saw | none |
| `HealthDelivery_proofs!NothingSentTwice` | `Deduplicated` | none |
| `ReceiptsAreEarned` | `ReceiptIsAccepted` | none |
| `SessionPrograms_proofs!NoAdapterMissed`, `PairingIsOff` | `NoneMissed`, `SuccessMeansOff` | none |
| `NoAddressPasses` | `NothingLeaks` | none |
| `NoChoiceLost`, `NothingClosedIsShown` | `ChoicesKept`, `DisabledLeaves` | none |
| `LibraryStaysSound`, `ShownImagesStay` | `LibrarySound`, `ShownKept` | none |
| `PairingTypeCorrect`, `PrivacyTypeCorrect`, `PolicyTypeCorrect`, `CollectionTypeCorrect` | the components' type invariants | none |
| `DesktopPrograms_proofs!NothingSurvives`, `ReceiptsBound`, `LatestDecides` | `TrialsAlone`, `PassedIsBound`, `LatestVerdict` | none |
| `FailuresStayVisible`, `CurrentBackupsProven` | `FailureVisible`, `CurrentMeansProven` | none |
| `EvidenceTypeCorrect`, `BackupTypeCorrect` | the components' type invariants | none |
| `ProgramsTypeCorrect` | `TypeOK` of `MCPrograms` | none |

The constants' own assumptions say what the code and its configuration
guarantee. Two of them carry weight. `HookAssumption` has a longest spelling,
because the hook refuses an empty list of addresses and computes
`max(map(len, ...))` over the spellings of the others; without it nothing bounds
the tail that is kept. `EvidenceAssumption` has finitely many captures, because
one directory holds them: the number of receipts is counted against it.

**Inductive invariants.** None of the properties is inductive as it stands.

* `InstallInv` adds what each step of a command may rely on (`CommandInv`), how
  the disk explains the guest's state (`GuestInv`: a Windows that reported PASS
  has no Run value left) and where seed media may exist (`MediaInv`). For
  example `RemoveMarker` keeps `UnmarkedDiskSettled` only because the command
  checked PASS several steps earlier and nothing since can have undone it.
* `HolderInv` ties the lock file to the invocation whose flock says it holds it,
  and a locker to a launched invocation.
* `LockInv` and `CleanupInv` of the queue: a supervisor with anything running
  holds the lock; a live launcher is recorded unless a signal may not arrive;
  from `stop` on nothing is left.
* `LockInv`, `WriterInv` and `ProgressInv` of the runner: who is at work holds
  the lock; the units a loop is done with are in the state the loop wanted or
  noted, as long as no exception cut it short; a run without an exception has
  its hooks behind it. They hold wherever signals arrive. `GuardInv` adds what
  holds through exceptions as well, for runs that are not `unguarded`: nothing is
  stray or abandoned, so a hook is alive only while the run is at its step.
* `DescriptorInv`, `SoleInv` and `PublishedInv` of the report: a refresh that
  saves alone has the only descriptor on `health.tmp`, so none is left on what it
  renames. `ReportIsWhole` alone says nothing about late writers.
* `LockInv` and `AcceptedInv` of the delivery: who is past the lock holds it, so
  between an acceptance and its receipt nobody else tells the channel anything.
* The pairing guard: while the BlueZ it asked lives, every registered adapter is
  ready, signalled or in the answer, from the subscription on; a write that was
  handled and not touched since is off.
* `EditInv` of the preferences: who has read holds the lock, and what it read is
  the file. `ShownInv`: what a fresh rotation read is the merge of the present
  file, its candidates are eligible under it, and so is what a settled choice
  shows; `NothingClosedIsShown` then only has to compare `Eligible` with what the
  operator closed, a definition of its own that does not follow the code's.
* `TrialInv` of the captures: a process of another user is known to `shared`, and
  what outlives its trial has shared the session with one, is past every trial and
  leaves its capture without the clean trials a success needs (`Outlived`), so it
  does not pass. `BoundInv`: from the step behind each observation on, a record agrees
  with what was observed (`Bound`), a stored receipt is `Sound`, and a build
  receipt, on which later phases rely, is among them. `EndInv`: receipts are
  numbered as they end and, while the clock goes forward, dated in that order.
* `StampInv` of the backups: while the clock has not been set back, the receipts
  of a unit's last success and failure are ordered as its attempts were.
  `ProofInv`: a unit that is past a step has the evidence of that step (`Done`),
  the machine of a cold backup that was disturbed, and not calmed since, is active,
  so its second look refuses it,
  and a phase's proof and its receipt are of the same time.
* `ScanInv` of the privacy hook: whatever an operation brings out that the
  destination never had waits to be inspected or is clean. `ReadInv`: the part of
  an object already read holds no spelling, and the tail that is kept is the end
  of it, one symbol shorter than the longest spelling. A spelling that the next
  chunk completes ends in that chunk and is no longer than that, so it lies within
  tail and chunk: the argument is about positions in the object and needs no
  induction over its chunks.
* `CollectionInv` of the fetchers (`JobInv`): a run at work holds the lock alone;
  what it is about to place is the only image of its item; what it placed has its
  sidecar, and a sidecar goes only behind its image, in an undoing as in an
  eviction; an eviction spares what was on the outputs when it listed the images,
  unless the rotation was between showing and recording. `images` is a sequence
  without repetitions, so what `RemoveFirst` leaves is compared by positions,
  again without induction.
* `CountInv` of the captures: a capture still owes a trial until its last one is
  reaped, and no more captures have ended than are done.
* `ProgramsInv` joins the invariants of the six programs: whichever runs, the
  other five stay where they started.
* `WaitInv` of the queue's cleanup: from the kill of the launcher on, a launcher
  that is known and alive is its command, which the stop of the scope ends. No
  assumption about signals is needed.
* `TellsInv` of the report: while a refresh saves alone, what it has written to
  `health.tmp` is its own report.

`SignalsMeetRecords` excludes exactly the windows of finding 3; `unguarded` marks
the runs a signal found in those of finding 4. The two failing runs show that
both are needed.

**Towards liveness.** The prover cannot reason about fairness, but what a
liveness property rests on besides fairness is safety and is proved.
`RunsAdvance` orders the states of a run by its step, then by the units left, then
by the progress of its command (through cleanup and abandonment), and shows that every step of it and every signal
goes down in that order while nobody else moves it. `CleanupAdvances` does the
same for a cancelled task and `CleanupNeverWaits` shows that no step of its
cleanup is blocked. `PollsHaveCause` excludes the missed wakeup.

**Only model-checked.** The six liveness properties themselves
(`StaleLaunchEnds`, `CancellationEnds`, `EmptyScopeFreesQueue`, `RunEnds`,
`FailureStaysReported`, `WarningIsAcknowledged`): they need fairness and ENABLED,
which the prover does not support. Every invariant and every other action or
refinement property of the passing runs has a theorem.

## 6. What is left

The order followed what would hurt most: the guest's disk and the applications'
data first, then the programs that run concurrently every day, then those whose
verdicts others rely on. What a next step would take up, in this order:

1. `VmStart`: start and stop of any guest, the exclusive-group check, libvirt's
   hooks and the inhibitor units. Abstract specification: a guest is active only
   with its inhibitor held. Theorem: a group's exclusion under one operator.
2. `LocalControl`: `initialize-state.sh` as one step per file with crashes, and
   the proxy supervisor with its pid window (TERM between the fork of Caddy and
   `caddy_pid=$!`, `proxy.sh:33-35`) and back-off.
3. `AltTab`: the patched switcher with reordered opens, releases and answers, and
   event times modulo 2^32.

**Not modelled, and why.** The comparison of benchmarks in the evidence
collector is arithmetic on two receipts. The Commons fetcher repeats the
astronomy fetcher's order of sidecar and image in shell; its per-category
cursors are not modelled. `wallpaper-seed` starts the fetchers and
`wallpaper-add` copies one file. The development VM's host resolver reads one
lease file and refuses an ambiguous answer. `enroll.sh` is an interactive disk
enrolment. The update script, the swap guard, the idle-inhibitor check, the
database wrappers, the activation-time rewriters and the generators make one pass
over their input and keep nothing a second step could find stale; `docker.nix`
and most of the repository are configuration.

Some things the models show and no property states: a signal that finds a hook
unguarded leaves it writing beside restarted writers; a workload that starts and
stops between the two looks at a cold backup may leave half of its writes in the
copy; a collector that is killed leaves its command running; a unit that dies between
creating and writing the restore canary leaves an empty one, which every later
restore matches; and a capture during which the clock is set back ends without a
receipt, because its dates would not be ordered.

--------------------------- MODULE WindowsInstall ---------------------------
(***************************************************************************)
(* The life of the managed Windows guest: the privileged control program   *)
(* (libvirt-windows-vm-control), the boot-time services that reconcile the *)
(* libvirt domain (libvirt-workstation-setup, then                         *)
(* libvirt-windows-vm-reconcile), the provisioning script inside the guest *)
(* (Bootstrap.ps1), and the failures between any two of their steps: a     *)
(* command that dies, one that is killed, and a host that loses power.     *)
(*                                                                         *)
(* A step is one change of a file or of a libvirt object.  The control     *)
(* program takes no lock, so invocations interleave with each other, with  *)
(* the reconciliation and with the guest.                                  *)
(***************************************************************************)
CONSTANTS
  Operators,  \* shells from which an operator runs the control program
  Recipes,    \* recipe fingerprints host configurations declare
  Autostart,  \* the windowsVm.autostart option
  None        \* no recipe

ASSUME InstallAssumption ==
  /\ Autostart \in BOOLEAN
  /\ None \notin Recipes
  /\ Recipes # {}

VARIABLES
  \* Host files that survive a reboot.
  disk,       \* the system disk: what has been written to it so far
  candidate,  \* the disk's ".installing" candidate exists
  marker,     \* the install marker: the recipe it names, or None
  keys,       \* an SSH public key has been authorized
  \* Host files below /run, lost with the power.
  password,   \* the temporary installer credential is staged
  seed,       \* the seed ISO and driver-prime disk: their recipe, or None
  \* Libvirt.
  domain,     \* persistent definition of the guest
  autostart,  \* libvirt's autostart bit of the domain
  active,     \* the definition the running QEMU was started from, or "off"
  media,      \* recipe of the seed media the running QEMU can install from, or None
  \* Inside the guest, on the system disk except for bootstrap.
  status,     \* baseline-status.txt: its state
  fingerprint,\* recipe of the provisioning copy in the guest
  runKey,     \* the Run value that restarts Bootstrap.ps1 at the next logon
  bootstrap,  \* the running Bootstrap.ps1
  \* The host configuration and the programs running on the host.
  declared,   \* recipe of the activated host configuration
  up,         \* the host is running
  pc,         \* next step of each shell's control program
  baked,      \* recipe compiled into the program a shell runs
  reconcile   \* next step of the reconciliation services

persistent == <<disk, candidate, marker, keys>>
volatile   == <<password, seed>>
libvirt    == <<domain, autostart, active, media>>
guest      == <<status, fingerprint, runKey, bootstrap>>
host       == <<declared, up>>
programs   == <<pc, baked, reconcile>>
vars       == <<persistent, volatile, libvirt, guest, host, programs>>

InstallSteps  == {"create", "publish", "mark", "seed", "define", "noautostart", "start"}
FinalizeSteps == {"await", "redefine", "setautostart", "wipeseed", "coldboot", "waitpass", "unmark"}
DiscardSteps  == {"undefine", "rmdisk", "rmvolatile", "rmmarker", "defineruntime", "clearautostart"}
Steps == {"idle"} \cup InstallSteps \cup FinalizeSteps \cup DiscardSteps

TypeOK ==
  /\ disk \in {"absent", "blank", "setup", "windows"}
  /\ candidate \in BOOLEAN /\ keys \in BOOLEAN /\ password \in BOOLEAN
  /\ marker \in Recipes \cup {None} /\ fingerprint \in Recipes \cup {None}
  /\ seed \in Recipes \cup {None} /\ media \in Recipes \cup {None}
  /\ domain \in {"none", "installer", "runtime"}
  /\ autostart \in BOOLEAN
  /\ active \in {"off", "installer", "runtime"}
  /\ status \in {"none", "PENDING", "PASS", "FAIL"}
  /\ runKey \in BOOLEAN
  /\ bootstrap \in {"idle", "copying", "running", "finishing"}
  /\ declared \in Recipes /\ up \in BOOLEAN
  /\ pc \in [Operators -> Steps]
  /\ baked \in [Operators -> Recipes]
  /\ reconcile \in {"idle", "setup", "check", "disable", "define", "auto"}

Init ==
  /\ disk = "absent" /\ candidate = FALSE /\ marker = None /\ keys = FALSE
  /\ password = FALSE /\ seed = None
  /\ domain = "none" /\ autostart = FALSE /\ active = "off" /\ media = None
  /\ status = "none" /\ fingerprint = None /\ runKey = FALSE /\ bootstrap = "idle"
  /\ declared \in Recipes /\ up = TRUE
  /\ pc = [p \in Operators |-> "idle"]
  /\ baked = [p \in Operators |-> declared]
  /\ reconcile = "setup"

Goto(p, step) == pc' = [pc EXCEPT ![p] = step]

At(p, step) == up /\ pc[p] = step

\* A shell runs the program of the configuration activated at that moment.
Invoke(p, step) ==
  /\ At(p, "idle")
  /\ Goto(p, step)
  /\ baked' = [baked EXCEPT ![p] = declared]

-----------------------------------------------------------------------------
(* Libvirt. *)

\* A definition whose files are missing does not start: the installer needs the
\* volatile seed media, both need the system disk.
Startable ==
  /\ domain # "none" /\ active = "off" /\ disk # "absent"
  /\ domain = "installer" => seed # None

StartDomain ==
  /\ Startable
  /\ active' = domain
  /\ media' = IF domain = "installer" THEN seed ELSE None

\* virsh autostart fails on a domain that has no persistent definition.
SetAutostart(bit) == domain # "none" /\ autostart' = bit

-----------------------------------------------------------------------------
(* credential and authorize: each replaces its file by a rename. *)

SetCredential(p) ==
  /\ At(p, "idle")
  /\ password' = TRUE
  /\ UNCHANGED <<persistent, seed, libvirt, guest, host, programs>>

AddAuthorizedKey(p) ==
  /\ At(p, "idle")
  /\ keys' = TRUE
  /\ UNCHANGED <<disk, candidate, marker, volatile, libvirt, guest, host, programs>>

-----------------------------------------------------------------------------
(* install and resume (start_install). *)

InstallCheck(p) ==
  /\ Invoke(p, "create")
  /\ active = "off" /\ marker = None /\ disk = "absent"
  /\ candidate' = FALSE
  /\ UNCHANGED <<disk, marker, keys, volatile, libvirt, guest, host, reconcile>>

CreateCandidate(p) ==
  /\ At(p, "create")
  /\ candidate' = TRUE
  /\ Goto(p, "publish")
  /\ UNCHANGED <<disk, marker, keys, volatile, libvirt, guest, host, baked, reconcile>>

\* mv --no-clobber: the candidate becomes the disk, or the program dies and its
\* EXIT trap removes whatever is at the candidate's path.
PublishDisk(p) ==
  /\ At(p, "publish")
  /\ candidate' = FALSE
  /\ \/ /\ candidate /\ disk = "absent"
        /\ disk' = "blank"
        /\ Goto(p, "mark")
     \/ /\ ~(candidate /\ disk = "absent")
        /\ Goto(p, "idle")
        /\ UNCHANGED disk
  /\ UNCHANGED <<marker, keys, volatile, libvirt, guest, host, baked, reconcile>>

\* Variant: the marker is written in place and the write is cut short.
WriteTornMarker(p) ==
  /\ At(p, "mark")
  /\ marker' = "torn"
  /\ Goto(p, "seed")
  /\ UNCHANGED <<disk, candidate, keys, volatile, libvirt, guest, host, baked, reconcile>>

\* A temporary file renamed over the marker.
WriteInstallMarker(p) ==
  /\ At(p, "mark")
  /\ marker' = baked[p]
  /\ Goto(p, "seed")
  /\ UNCHANGED <<disk, candidate, keys, volatile, libvirt, guest, host, baked, reconcile>>

\* Variant: a resume that does not compare the marker's fingerprint.
ResumeCheckAnyRecipe(p) ==
  /\ Invoke(p, "seed")
  /\ active = "off" /\ marker # None /\ disk # "absent"
  /\ UNCHANGED <<persistent, volatile, libvirt, guest, host, reconcile>>

ResumeCheck(p) ==
  /\ Invoke(p, "seed")
  /\ active = "off" /\ marker = declared /\ disk # "absent"
  /\ UNCHANGED <<persistent, volatile, libvirt, guest, host, reconcile>>

\* verify_system_disk_file, then create_seed.
CreateSeed(p) ==
  /\ At(p, "seed")
  /\ disk # "absent" /\ password /\ keys
  /\ seed' = baked[p]
  /\ Goto(p, "define")
  /\ UNCHANGED <<persistent, password, libvirt, guest, host, baked, reconcile>>

DefineInstaller(p) ==
  /\ At(p, "define")
  /\ domain' = "installer"
  /\ Goto(p, "noautostart")
  /\ UNCHANGED <<persistent, volatile, autostart, active, media, guest, host, baked, reconcile>>

DisableAutostart(p) ==
  /\ At(p, "noautostart")
  /\ SetAutostart(FALSE)
  /\ Goto(p, "start")
  /\ UNCHANGED <<persistent, volatile, domain, active, media, guest, host, baked, reconcile>>

StartInstaller(p) ==
  /\ At(p, "start")
  /\ StartDomain
  /\ Goto(p, "idle")
  /\ UNCHANGED <<persistent, volatile, domain, autostart, guest, host, baked, reconcile>>

-----------------------------------------------------------------------------
(* finalize (finalize_install). *)

\* The guest agent answers once Windows runs; the status is the file's content.
Reports(state) == active # "off" /\ disk = "windows" /\ status = state

\* The baseline must report PASS for the recipe of this program; then the guest
\* is asked to shut down.
FinalizeCheck(p) ==
  /\ Invoke(p, "await")
  /\ marker # None /\ disk # "absent"
  /\ Reports("PASS") /\ fingerprint = declared
  /\ UNCHANGED <<persistent, volatile, libvirt, guest, host, reconcile>>

AwaitShutdown(p) ==
  /\ At(p, "await")
  /\ active = "off"
  /\ Goto(p, "redefine")
  /\ UNCHANGED <<persistent, volatile, libvirt, guest, host, baked, reconcile>>

DefineRuntime(p) ==
  /\ At(p, "redefine")
  /\ domain' = "runtime"
  /\ Goto(p, "setautostart")
  /\ UNCHANGED <<persistent, volatile, autostart, active, media, guest, host, baked, reconcile>>

FinalizeAutostart(p) ==
  /\ At(p, "setautostart")
  /\ SetAutostart(Autostart)
  /\ Goto(p, "wipeseed")
  /\ UNCHANGED <<persistent, volatile, domain, active, media, guest, host, baked, reconcile>>

\* Variant: a finalize that wipes the credential but leaves the seed media.
KeepSeed(p) ==
  /\ At(p, "wipeseed")
  /\ password' = FALSE
  /\ Goto(p, "coldboot")
  /\ UNCHANGED <<persistent, seed, libvirt, guest, host, baked, reconcile>>

WipeSeed(p) ==
  /\ At(p, "wipeseed")
  /\ seed' = None /\ password' = FALSE
  /\ Goto(p, "coldboot")
  /\ UNCHANGED <<persistent, libvirt, guest, host, baked, reconcile>>

ColdBoot(p) ==
  /\ At(p, "coldboot")
  /\ StartDomain
  /\ Goto(p, "waitpass")
  /\ UNCHANGED <<persistent, volatile, domain, autostart, guest, host, baked, reconcile>>

WaitForBaseline(p) ==
  /\ At(p, "waitpass")
  /\ Reports("PASS") /\ fingerprint = baked[p]
  /\ Goto(p, "unmark")
  /\ UNCHANGED <<persistent, volatile, libvirt, guest, host, baked, reconcile>>

RemoveMarker(p) ==
  /\ At(p, "unmark")
  /\ marker' = None
  /\ Goto(p, "idle")
  /\ UNCHANGED <<disk, candidate, keys, volatile, libvirt, guest, host, baked, reconcile>>

-----------------------------------------------------------------------------
(* discard (discard_install).  One rm names the files: it unlinks them in the *)
(* order of its arguments, the disk first and the marker last.                *)

\* Variant: a discard that does not ask for an incomplete installation.
DiscardCheckAnyDisk(p) ==
  /\ Invoke(p, "undefine")
  /\ active = "off"
  /\ UNCHANGED <<persistent, volatile, libvirt, guest, host, reconcile>>

DiscardCheck(p) ==
  /\ Invoke(p, "undefine")
  /\ marker # None /\ active = "off"
  /\ UNCHANGED <<persistent, volatile, libvirt, guest, host, reconcile>>

Undefine(p) ==
  /\ At(p, "undefine")
  /\ domain' = "none" /\ autostart' = FALSE
  /\ Goto(p, "rmdisk")
  /\ UNCHANGED <<persistent, volatile, active, media, guest, host, baked, reconcile>>

\* Variant: the marker goes first.
RmMarkerFirst(p) ==
  /\ At(p, "rmdisk")
  /\ marker' = None
  /\ Goto(p, "rmvolatile")
  /\ UNCHANGED <<disk, candidate, keys, volatile, libvirt, guest, host, baked, reconcile>>

\* The guest's state goes with its disk.  A QEMU started since the check runs on,
\* on an unlinked file: nothing of its media reaches the disk's path again.
RmDisk(p) ==
  /\ At(p, "rmdisk")
  /\ disk' = "absent" /\ candidate' = FALSE
  /\ status' = "none" /\ fingerprint' = None /\ runKey' = FALSE
  /\ bootstrap' = "idle" /\ media' = None
  /\ Goto(p, "rmvolatile")
  /\ UNCHANGED <<marker, keys, volatile, domain, autostart, active, host, baked, reconcile>>

RmVolatile(p) ==
  /\ At(p, "rmvolatile")
  /\ seed' = None /\ password' = FALSE
  /\ Goto(p, "rmmarker")
  /\ UNCHANGED <<persistent, libvirt, guest, host, baked, reconcile>>

RmMarker(p) ==
  /\ At(p, "rmmarker")
  /\ marker' = None
  /\ Goto(p, "defineruntime")
  /\ UNCHANGED <<disk, candidate, keys, volatile, libvirt, guest, host, baked, reconcile>>

DefineRuntimeAfterDiscard(p) ==
  /\ At(p, "defineruntime")
  /\ domain' = "runtime"
  /\ Goto(p, "clearautostart")
  /\ UNCHANGED <<persistent, volatile, autostart, active, media, guest, host, baked, reconcile>>

ClearAutostart(p) ==
  /\ At(p, "clearautostart")
  /\ SetAutostart(FALSE)
  /\ Goto(p, "idle")
  /\ UNCHANGED <<persistent, volatile, domain, active, media, guest, host, baked, reconcile>>

-----------------------------------------------------------------------------
(* A command that fails or times out runs its EXIT trap; a killed one does not. *)

Die(p) ==
  /\ up /\ pc[p] # "idle"
  /\ candidate' = (candidate /\ pc[p] \notin {"create", "publish"})
  /\ Goto(p, "idle")
  /\ UNCHANGED <<disk, marker, keys, volatile, libvirt, guest, host, baked, reconcile>>

Kill(p) ==
  /\ up /\ pc[p] # "idle"
  /\ Goto(p, "idle")
  /\ UNCHANGED <<persistent, volatile, libvirt, guest, host, baked, reconcile>>

-----------------------------------------------------------------------------
(* The reconciliation services: workstation-setup sets the autostart bit of  *)
(* every guest in its manifest, then windows-vm-reconcile runs.              *)

Reconciling(step, next) == up /\ reconcile = step /\ reconcile' = next

\* Activating another configuration restarts both services.
Rebuild ==
  /\ Reconciling("idle", "setup")
  /\ declared' \in Recipes
  /\ UNCHANGED <<persistent, volatile, libvirt, guest, up, pc, baked>>

SetupAutostart ==
  /\ Reconciling("setup", "check")
  /\ autostart' = IF domain = "none" THEN autostart ELSE Autostart
  /\ UNCHANGED <<persistent, volatile, domain, active, media, guest, host, pc, baked>>

ReconcileCheck ==
  /\ \/ domain # "none" /\ marker # None /\ Reconciling("check", "disable")
     \/ marker = None /\ Reconciling("check", "define")
     \/ domain = "none" /\ marker # None /\ Reconciling("check", "idle")
  /\ UNCHANGED <<persistent, volatile, libvirt, guest, host, pc, baked>>

ReconcileDisable ==
  /\ Reconciling("disable", "auto")
  /\ SetAutostart(FALSE)
  /\ UNCHANGED <<persistent, volatile, domain, active, media, guest, host, pc, baked>>

ReconcileDefine ==
  /\ Reconciling("define", "auto")
  /\ domain' = "runtime"
  /\ UNCHANGED <<persistent, volatile, autostart, active, media, guest, host, pc, baked>>

ReconcileAutostart ==
  /\ Reconciling("auto", "idle")
  /\ \/ marker # None /\ UNCHANGED autostart
     \/ marker = None /\ SetAutostart(Autostart)
  /\ UNCHANGED <<persistent, volatile, domain, active, media, guest, host, pc, baked>>

\* A virsh command failed, the service ends as it is (set -e).
ReconcileFail ==
  /\ up /\ reconcile # "idle" /\ reconcile' = "idle"
  /\ UNCHANGED <<persistent, volatile, libvirt, guest, host, pc, baked>>

-----------------------------------------------------------------------------
(* The guest. *)

\* Windows Setup boots from the ISO as long as the disk holds no Windows.
GuestSetup ==
  /\ active = "installer" /\ media # None /\ disk = "blank"
  /\ disk' = "setup"
  /\ UNCHANGED <<candidate, marker, keys, volatile, libvirt, guest, host, programs>>

\* The first logon runs Bootstrap.ps1 from the seed: it copies itself and its
\* payload to the disk.
FirstLogon ==
  /\ active = "installer" /\ media # None /\ disk = "setup"
  /\ disk' = "windows"
  /\ fingerprint' = media
  /\ bootstrap' = "copying"
  /\ UNCHANGED <<candidate, marker, keys, volatile, libvirt, status, runKey, host, programs>>

RegisterRetry ==
  /\ bootstrap = "copying"
  /\ runKey' = TRUE /\ status' = "PENDING"
  /\ bootstrap' = "running"
  /\ UNCHANGED <<persistent, volatile, libvirt, fingerprint, host, programs>>

\* The Run value starts the local copy at a later logon.
Relogon ==
  /\ active # "off" /\ disk = "windows" /\ runKey /\ bootstrap = "idle"
  /\ bootstrap' = "running"
  /\ status' = "PENDING"
  /\ UNCHANGED <<persistent, volatile, libvirt, fingerprint, runKey, host, programs>>

BootstrapFails ==
  /\ bootstrap \in {"running", "finishing"}
  /\ status' = "FAIL"
  /\ bootstrap' = "idle"
  /\ UNCHANGED <<persistent, volatile, libvirt, fingerprint, runKey, host, programs>>

\* Every step succeeded (one needs the VirtIO media, which only the installer's
\* definition attaches): the Run value goes first, the status follows.
RemoveRunKey ==
  /\ bootstrap = "running" /\ active = "installer"
  /\ runKey' = FALSE
  /\ bootstrap' = "finishing"
  /\ UNCHANGED <<persistent, volatile, libvirt, status, fingerprint, host, programs>>

ReportPass ==
  /\ bootstrap = "finishing"
  /\ status' = "PASS"
  /\ bootstrap' = "idle"
  /\ UNCHANGED <<persistent, volatile, libvirt, fingerprint, runKey, host, programs>>

-----------------------------------------------------------------------------
(* The guest's power and the host's. *)

\* A shutdown from inside, "vm stop", or a QEMU that exits.
GuestPowerOff ==
  /\ active # "off"
  /\ active' = "off" /\ media' = None /\ bootstrap' = "idle"
  /\ UNCHANGED <<persistent, volatile, domain, autostart, status, fingerprint, runKey, host, programs>>

\* "vm start"
GuestStart ==
  /\ up /\ StartDomain
  /\ UNCHANGED <<persistent, volatile, domain, autostart, guest, host, programs>>

PowerLoss ==
  /\ up /\ up' = FALSE
  /\ password' = FALSE /\ seed' = None
  /\ active' = "off" /\ media' = None /\ bootstrap' = "idle"
  /\ pc' = [p \in Operators |-> "idle"]
  /\ reconcile' = "idle"
  /\ UNCHANGED <<persistent, domain, autostart, status, fingerprint, runKey, declared, baked>>

\* libvirtd starts what its autostart bit names, then the services reconcile.
HostBoot ==
  /\ ~up /\ up' = TRUE
  /\ reconcile' = "setup"
  /\ \/ autostart /\ StartDomain
     \/ ~(autostart /\ Startable) /\ UNCHANGED <<active, media>>
  /\ UNCHANGED <<persistent, volatile, domain, autostart, guest, declared, pc, baked>>

-----------------------------------------------------------------------------
Install(p) ==
  \/ InstallCheck(p) \/ CreateCandidate(p) \/ PublishDisk(p) \/ WriteInstallMarker(p)
  \/ ResumeCheck(p) \/ CreateSeed(p) \/ DefineInstaller(p) \/ DisableAutostart(p)
  \/ StartInstaller(p)

Finalize(p) ==
  \/ FinalizeCheck(p) \/ AwaitShutdown(p) \/ DefineRuntime(p) \/ FinalizeAutostart(p)
  \/ WipeSeed(p) \/ ColdBoot(p) \/ WaitForBaseline(p) \/ RemoveMarker(p)

Discard(p) ==
  \/ DiscardCheck(p) \/ Undefine(p) \/ RmDisk(p) \/ RmVolatile(p) \/ RmMarker(p)
  \/ DefineRuntimeAfterDiscard(p) \/ ClearAutostart(p)

Control(p) ==
  \/ SetCredential(p) \/ AddAuthorizedKey(p)
  \/ Install(p) \/ Finalize(p) \/ Discard(p) \/ Die(p) \/ Kill(p)

Reconcile ==
  \/ Rebuild \/ SetupAutostart \/ ReconcileCheck \/ ReconcileDisable \/ ReconcileDefine
  \/ ReconcileAutostart \/ ReconcileFail

Guest ==
  \/ GuestSetup \/ FirstLogon \/ RegisterRetry \/ Relogon \/ BootstrapFails
  \/ RemoveRunKey \/ ReportPass

Power == GuestPowerOff \/ GuestStart \/ PowerLoss \/ HostBoot

Next == (\E p \in Operators : Control(p)) \/ Reconcile \/ Guest \/ Power

Spec == Init /\ [][Next]_vars

-----------------------------------------------------------------------------
(* Properties. *)

Passed == disk = "windows" /\ status = "PASS"

\* A disk without an install marker is either still blank or holds a Windows that
\* passed its baseline: no half-installed guest is ever taken for a runtime,
\* wherever an install, a finalize or a discard was cut off.
UnmarkedDiskSettled == marker = None => disk \in {"absent", "blank"} \/ Passed

\* While an installation is in progress, everything derived from the recipe - the
\* provisioning copy in the guest, the seed on the host and the media attached to
\* the running guest - comes from the recipe its marker names, across rebuilds of
\* the host configuration, resumes and reboots.
MarkerNamesRecipe ==
  marker # None => {fingerprint, seed, media} \subseteq {marker, None}

\* Once the marker of a provisioned disk is gone, the persistent definition is the
\* runtime's and the seed media with its credential are gone: the next start of
\* the guest is never the installer's.
FinalizedLeavesNoInstaller ==
  marker = None /\ disk = "windows" => domain = "runtime" /\ seed = None

\* What "windows-vm phase" prints when the guest has no marker but a disk.
PhaseIsRuntime == marker = None /\ disk # "absent"

\* phase "distinguishes a new guest, an active or interrupted installer, and a
\* finalized runtime": when it says runtime, and no install command is running,
\* the disk holds a Windows that passed its baseline.
PhaseRuntimeMeansFinalized ==
  PhaseIsRuntime /\ (\A p \in Operators : pc[p] = "idle") => Passed

\* The lifecycle this implements.
LifecyclePhase ==
  CASE marker # None                       -> "installing"
    [] marker = None /\ disk = "absent"    -> "uninstalled"
    [] marker = None /\ disk = "blank"     -> "claimed"
    [] marker = None /\ Passed             -> "finalized"
    [] OTHER                               -> "broken"

Lifecycle == INSTANCE InstallLifecycle WITH phase <- LifecyclePhase, recipe <- marker

\* Every step is a step of the lifecycle or leaves it alone: in particular nothing
\* ever removes, re-marks or re-installs a finalized machine.
ImplementsLifecycle == Lifecycle!Spec

-----------------------------------------------------------------------------
(* The invariant that carries the proofs: the properties above are not        *)
(* inductive, they rest on what each step of a command may rely on.           *)

\* What is on the disk explains the guest's state; a Windows that reported PASS
\* has no Run value left that could start its provisioning again.
GuestInv ==
  /\ disk # "windows" => status = "none" /\ fingerprint = None /\ ~runKey /\ bootstrap = "idle"
  /\ status = "PASS" => ~runKey /\ bootstrap = "idle"
  /\ bootstrap = "finishing" => ~runKey

\* Seed media, on the host or in the guest, exist only under a marker that names
\* their recipe; so does a provisioning copy whose installation is not finished.
MediaInv ==
  /\ seed # None => seed = marker
  /\ media # None => media = marker
  /\ marker # None /\ fingerprint # None => fingerprint = marker

\* What the command of shell p knows at its next step.
CommandInv(p) ==
  /\ pc[p] \in {"create", "publish"} => marker = None
  /\ pc[p] = "mark" => marker = None /\ disk = "blank"
  /\ pc[p] \in {"seed", "define", "noautostart", "start"} => marker = baked[p]
  /\ pc[p] \in FinalizeSteps => marker # None /\ Passed
  /\ pc[p] \in {"setautostart", "wipeseed", "coldboot", "waitpass", "unmark"} => domain = "runtime"
  /\ pc[p] \in {"coldboot", "waitpass", "unmark"} => seed = None
  /\ pc[p] \in {"waitpass", "unmark"} => media = None
  /\ pc[p] \in {"undefine", "rmdisk", "rmvolatile", "rmmarker"} => marker # None
  /\ pc[p] \in {"rmvolatile", "rmmarker"} => disk = "absent" /\ media = None
  /\ pc[p] = "rmmarker" => seed = None
  /\ pc[p] \in {"defineruntime", "clearautostart"} => marker = None /\ disk = "absent"

InstallInv ==
  /\ GuestInv
  /\ MediaInv
  /\ \A p \in Operators : CommandInv(p)
  /\ UnmarkedDiskSettled
  /\ FinalizedLeavesNoInstaller
=============================================================================

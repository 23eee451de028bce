---------------------------- MODULE BackupReceipts ----------------------------
(***************************************************************************)
(* The desktop's backup units (storage/backups.nix) and their helper       *)
(* (backup-helper.py).  Three units per destination run scripts of guards, *)
(* Restic commands and receipts; systemd stamps how each attempt ended;    *)
(* desktop-backup-check reads the receipts back as a list of warnings.     *)
(*                                                                         *)
(* A script is a sequence of steps, and a step is one command of the       *)
(* helper.  Any step may fail, machines lose power, clocks are set back,   *)
(* and somebody may start a VM, or stop one, during a cold backup.         *)
(* Repository and snapshots are external; credentials are in order or the  *)
(* guard fails.                                                            *)
(***************************************************************************)
EXTENDS Naturals, Sequences, FiniteSets

CONSTANTS
  Destinations, \* the declared Restic destinations
  Topology,     \* of each: its medium, offsite, protection and failureDomain
  MaxAge,       \* of each phase, in ticks of the clock
  Tolerance,    \* how far in the future a receipt may lie
  MaxClock,     \* bound: the last tick
  MaxStarts     \* bound: attempts in all

Operations == {"backup", "verification", "cold"}
Units      == Destinations \X Operations
Phases     == {"backup", "integrity", "restore", "cold-backup", "cold-restore"}
Checked    == Phases \cup {"recovery-drill"}
Success    == [backup |-> "backup-success", verification |-> "verification-success", cold |-> "cold-success"]
Failure    == [backup |-> "backup-failure", verification |-> "verification-failure", cold |-> "cold-failure"]
Receipts   == Checked \cup {Success[o] : o \in Operations} \cup {Failure[o] : o \in Operations}

ASSUME BackupAssumption ==
  /\ MaxAge \in [Checked -> Nat]
  /\ Tolerance \in Nat /\ MaxClock \in Nat \ {0} /\ MaxStarts \in Nat

VARIABLES
  clock,    \* the wall clock
  receipt,  \* the time in each destination's receipts, 0 for none
  at,       \* the step each unit is at: 0 idle, past its script ExecStopPost
  result,   \* SERVICE_RESULT of its current attempt
  canary,   \* the restore canary: absent, empty (created, not yet written) or random
  saved,    \* the canary in the latest snapshot of each destination and tag
  active,   \* user, VM or container workloads run
  starts,   \* attempts so far
  evidence, \* what each unit's attempt has really done (a history)
  proof,    \* when each phase was last stamped on such evidence (a history)
  latest,   \* how its latest recorded attempt ended (a history)
  steady    \* the clock was not set back since that could hide it (a history)

backup_world   == <<clock, active>>
backup_disk    == <<receipt, canary, saved>>
backup_history == <<evidence, proof, latest, steady>>
backup_vars == <<backup_world, backup_disk, backup_history, at, result, starts>>

Contents == {"absent", "empty", "random"}
Works    == {"saved", "checked", "matched", "disturbed"}  \* by what was started since the first look, and still runs

\* The scripts of backups.nix and cold_backup.  "open" and "fill" are the two halves
\* of canary(), "probe" is restore(), a phase is the stamp of its receipt.
HotScript ==
  [backup       |-> <<"guard", "open", "fill", "save", "backup">>,
   verification |-> <<"guard", "check", "integrity", "open", "fill", "probe", "restore">>]

\* Variant: the machine is not looked at again after a cold backup.
ScriptQuiescedOnce(u) ==
  IF u[2] = "cold"
  THEN <<"guard", "quiesce", "open", "fill", "save", "cold-backup", "probe", "cold-restore">>
  ELSE HotScript[u[2]]

Script(u) ==
  IF u[2] = "cold"
  THEN <<"guard", "quiesce", "open", "fill", "save", "quiesce", "cold-backup", "probe", "cold-restore">>
  ELSE HotScript[u[2]]

Longest == 9
Tag(u)  == IF u[2] = "cold" THEN "desktop-cold" ELSE "desktop-files"
Ended(u) == Len(Script(u)) + 1
AtStep(u, step) == at[u] \in 1..Len(Script(u)) /\ Script(u)[at[u]] = step

BackupTypeOK ==
  /\ clock \in 1..MaxClock
  /\ receipt \in [Destinations -> [Receipts -> 0..MaxClock]]
  /\ at \in [Units -> 0..Longest + 1]
  /\ result \in [Units -> {"success", "exit-code", "signal"}]
  /\ canary \in Contents
  /\ saved \in [Destinations -> [{"desktop-files", "desktop-cold"} -> Contents]]
  /\ active \in BOOLEAN
  /\ starts \in 0..MaxStarts
  /\ evidence \in [Units -> SUBSET Works]
  /\ proof \in [Destinations -> [Phases -> 0..MaxClock]]
  /\ latest \in [Units -> {"none", "success", "failure"}]
  /\ steady \in [Units -> BOOLEAN]

\* A new machine, or one that has done everything once.
BackupInit ==
  \E done \in BOOLEAN :
    /\ receipt = [d \in Destinations |-> [r \in Receipts |->
                    IF done /\ r \notin {Failure[o] : o \in Operations} THEN 1 ELSE 0]]
    /\ canary = IF done THEN "random" ELSE "absent"
    /\ saved = [d \in Destinations |-> [t \in {"desktop-files", "desktop-cold"} |-> canary]]
    /\ proof = [d \in Destinations |-> [p \in Phases |-> IF done THEN 1 ELSE 0]]
    /\ latest = [u \in Units |-> IF done THEN "success" ELSE "none"]
    /\ clock = 1
    /\ at = [u \in Units |-> 0]
    /\ result = [u \in Units |-> "success"]
    /\ active = FALSE
    /\ starts = 0
    /\ evidence = [u \in Units |-> {}]
    /\ steady = [u \in Units |-> TRUE]

-----------------------------------------------------------------------------
(* status: what the receipts say. *)

\* Missing and future-dated receipts count as none.
ReadStamp(d, r) == IF receipt[d][r] \in 1..(clock + Tolerance) THEN receipt[d][r] ELSE 0

Missing(d) ==
  {p \in Checked : ReadStamp(d, p) = 0 \/ ReadStamp(d, p) + MaxAge[p] < clock}

LatestFailed(d) ==
  {o \in Operations : /\ ReadStamp(d, Failure[o]) # 0
                      /\ ReadStamp(d, Failure[o]) >= ReadStamp(d, Success[o])}

\* The declared topology, which status reports beside the receipts.
Declared ==
  [copies     |-> Cardinality(Destinations) >= 2,
   domains    |-> Cardinality({Topology[d].failureDomain : d \in Destinations}) >= 2,
   medium     |-> \E d \in Destinations : Topology[d].medium \notin {"ssd", "unknown"},
   offsite    |-> \E d \in Destinations : Topology[d].offsite,
   protection |-> \E d \in Destinations : Topology[d].protection \in {"offline", "immutable"}]

PolicyGaps == {g \in DOMAIN Declared : ~Declared[g]}

Warnings(d) == PolicyGaps \cup Missing(d) \cup LatestFailed(d)

-----------------------------------------------------------------------------
(* The steps of a script. *)

Move(u) == at' = [at EXCEPT ![u] = @ + 1]

Start(u) ==
  /\ at[u] = 0 /\ starts < MaxStarts
  /\ starts' = starts + 1
  /\ Move(u)
  /\ UNCHANGED <<backup_world, backup_disk, backup_history, result>>

\* The required mounts are mounted, and a local repository lies on one of them and
\* not on a source filesystem.
Guard(u) ==
  /\ AtStep(u, "guard")
  /\ Move(u)
  /\ UNCHANGED <<backup_world, backup_disk, backup_history, result, starts>>

\* Rescue mode, no user manager, no VM and no container.
Quiesce(u) ==
  /\ AtStep(u, "quiesce")
  /\ ~active
  /\ Move(u)
  /\ UNCHANGED <<backup_world, backup_disk, backup_history, result, starts>>

\* The canary is created, if there is none, before anything is written to it.  Of
\* two units that find none the second fails.
OpenCanary(u) ==
  /\ AtStep(u, "open")
  /\ \/ /\ canary = "absent"
        /\ canary' = "empty"
        /\ Move(u)
     \/ /\ canary # "absent"
        /\ at' = [at EXCEPT ![u] = @ + 2]
        /\ UNCHANGED canary
  /\ UNCHANGED <<backup_world, receipt, saved, backup_history, result, starts>>

FillCanary(u) ==
  /\ AtStep(u, "fill")
  /\ canary' = "random"
  /\ Move(u)
  /\ UNCHANGED <<backup_world, receipt, saved, backup_history, result, starts>>

\* restic backup, which needs an initialized repository, hence the medium.
Save(u) ==
  /\ AtStep(u, "save")
  /\ saved' = [saved EXCEPT ![u[1]][Tag(u)] = canary]
  /\ evidence' = [evidence EXCEPT ![u] = @ \cup {"saved"}]
  /\ Move(u)
  /\ UNCHANGED <<backup_world, receipt, canary, proof, latest, steady, result, starts>>

Check(u) ==
  /\ AtStep(u, "check")
  /\ evidence' = [evidence EXCEPT ![u] = @ \cup {"checked"}]
  /\ Move(u)
  /\ UNCHANGED <<backup_world, backup_disk, proof, latest, steady, result, starts>>

\* The latest snapshot of the tag exists and gives the canary back, byte for byte.
Probe(u) ==
  /\ AtStep(u, "probe")
  /\ saved[u[1]][Tag(u)] = canary
  /\ evidence' = [evidence EXCEPT ![u] = @ \cup {"matched"}]
  /\ Move(u)
  /\ UNCHANGED <<backup_world, backup_disk, proof, latest, steady, result, starts>>

\* What a receipt stands for.
Needed(phase) ==
  CASE phase = "backup"       -> {"saved"}
    [] phase = "integrity"    -> {"checked"}
    [] phase = "restore"      -> {"matched"}
    [] phase = "cold-backup"  -> {"saved"}
    [] phase = "cold-restore" -> {"saved", "matched"}

\* A disturbance that is over before the second look is noticed by nobody.
Earned(u, phase) ==
  /\ Needed(phase) \subseteq evidence[u]
  /\ phase = "cold-backup" => "disturbed" \notin evidence[u]

\* A receipt is replaced whole: there is no torn one.
Stamp(u) ==
  \E phase \in Phases :
    /\ AtStep(u, phase)
    /\ receipt' = [receipt EXCEPT ![u[1]][phase] = clock]
    /\ proof' = [proof EXCEPT ![u[1]][phase] = IF Earned(u, phase) THEN clock ELSE 0]
    /\ Move(u)
    /\ UNCHANGED <<backup_world, canary, saved, evidence, latest, steady, result, starts>>

\* A command fails or times out, the unit is stopped: the script is over.
Fail(u) ==
  /\ at[u] \in 1..Len(Script(u))
  /\ \E how \in {"exit-code", "signal"} : result' = [result EXCEPT ![u] = how]
  /\ at' = [at EXCEPT ![u] = Ended(u)]
  /\ UNCHANGED <<backup_world, backup_disk, backup_history, starts>>

\* Variant: only a command's own failure is recorded.
FailedAttempt(u) == result[u] = "exit-code"

Failed(u) == result[u] # "success"

End(u) ==
  /\ at' = [at EXCEPT ![u] = 0]
  /\ result' = [result EXCEPT ![u] = "success"]
  /\ evidence' = [evidence EXCEPT ![u] = {}]

\* ExecStopPost stamps the outcome, whatever it was.
Finish(u) ==
  /\ at[u] = Ended(u)
  /\ LET d == u[1]
         receipts == IF Failed(u) THEN Failure[u[2]] ELSE Success[u[2]]
     IN  /\ receipt' = [receipt EXCEPT ![d][receipts] = clock]
         /\ latest' = [latest EXCEPT ![u] = IF result[u] = "success" THEN "success" ELSE "failure"]
         /\ steady' = [steady EXCEPT ![u] = @ \/ result[u] = "success" \/ receipt[d][Success[u[2]]] = 0]
  /\ End(u)
  /\ UNCHANGED <<backup_world, canary, saved, proof, starts>>

\* Power is lost, or finish cannot write: the attempt leaves no outcome.
Lose(u) ==
  /\ at[u] # 0
  /\ End(u)
  /\ UNCHANGED <<backup_world, backup_disk, proof, latest, steady, starts>>

\* The operator confirms a recovery drill.
RecordDrill(d) ==
  /\ receipt' = [receipt EXCEPT ![d]["recovery-drill"] = clock]
  /\ UNCHANGED <<backup_world, canary, saved, backup_history, at, result, starts>>

-----------------------------------------------------------------------------
(* The world around the units. *)

Tick ==
  /\ clock < MaxClock
  /\ clock' = clock + 1
  /\ UNCHANGED <<active, backup_disk, backup_history, at, result, starts>>

SetBack ==
  /\ \E t \in 1..(clock - 1) : clock' = t
  /\ steady' = [u \in Units |-> FALSE]
  /\ UNCHANGED <<active, backup_disk, evidence, proof, latest, at, result, starts>>

\* Where a cold backup relies on quiescence: from its first look to its second.
Relying(u) == u[2] = "cold" /\ at[u] \in 3..6

\* Somebody starts a VM, or leaves rescue mode: what a cold backup copies may change
\* under its hands.
Disturb ==
  /\ ~active
  /\ active' = TRUE
  /\ evidence' = [u \in Units |-> evidence[u] \cup (IF Relying(u) THEN {"disturbed"} ELSE {})]
  /\ UNCHANGED <<clock, backup_disk, proof, latest, steady, at, result, starts>>

\* Rescue mode again, and nothing runs, perhaps in time for the second look.  What the
\* copy read meanwhile it keeps, but nobody will notice.
Rescue ==
  /\ active
  /\ active' = FALSE
  /\ evidence' = [u \in Units |-> evidence[u] \ {"disturbed"}]
  /\ UNCHANGED <<clock, backup_disk, proof, latest, steady, at, result, starts>>

-----------------------------------------------------------------------------
UnitStep(u) ==
  \/ Start(u) \/ Guard(u) \/ Quiesce(u) \/ OpenCanary(u) \/ FillCanary(u) \/ Save(u)
  \/ Check(u) \/ Probe(u) \/ Stamp(u) \/ Fail(u) \/ Finish(u) \/ Lose(u)

BackupNext ==
  \/ \E u \in Units : UnitStep(u)
  \/ \E d \in Destinations : RecordDrill(d)
  \/ Tick \/ SetBack \/ Disturb \/ Rescue

BackupSpec == BackupInit /\ [][BackupNext]_backup_vars

-----------------------------------------------------------------------------
(* Properties. *)

\* "Keep a failed service result visible until that operation succeeds again": while
\* the latest recorded attempt of a unit failed, status says so, unless the clock was
\* set back since the attempts it compares.
FailureVisible ==
  \A u \in Units : latest[u] = "failure" /\ steady[u] => u[2] \in LatestFailed(u[1])

\* A destination whose recorded checks are current has what they stand for: each
\* phase was really done within its time, the probes gave the canary back, and nothing
\* that was started between the two looks at a cold backup still ran at the second.
\* What was gone again by then the property leaves out, as the code leaves it to the
\* operator, who "keeps rescue mode quiescent".
CurrentMeansProven ==
  \A d \in Destinations : Missing(d) = {} =>
    \A p \in Phases : proof[d][p] # 0 /\ proof[d][p] + MaxAge[p] >= clock
=============================================================================

------------------------------- MODULE Evidence -------------------------------
(***************************************************************************)
(* The evidence collector (workstation_evidence.py).  A capture binds a    *)
(* command's outcome to the source tree, the Nix configuration, the built  *)
(* output and the running system generation, and stores a receipt; status  *)
(* finds the latest receipt of every required check.  Captures run beside  *)
(* each other, while others edit the tree, change the settings, build and  *)
(* switch generations, and while commands fork, hang and time out, and     *)
(* collectors are interrupted or killed.                                   *)
(*                                                                         *)
(* Digests are the values they identify.  Edits never restore an earlier   *)
(* tree: the program's own "limitations" say that it observes endpoints,   *)
(* not transient changes.  The phase "recovery" is checked like "runtime", *)
(* and "vm" like "evaluation".  The comparison of benchmarks is left out,  *)
(* and so is the garbage collection of the store.                          *)
(***************************************************************************)
EXTENDS Naturals, FiniteSets

CONSTANTS
  Captures, \* runs of the program
  Output,   \* the store path each tree evaluates to, a function on 1..MaxTree
  MaxTree,  \* bound: the last edit
  Repeats,  \* the numbers of trials each capture may be asked for
  Required, \* the phases the manifest requires
  CapturedPhases, \* bound: the phases each capture may be of
  MaxTime,  \* bound: the last tick of the wall clock
  MaxMoves, \* bound: what others do while the captures run
  Cast,     \* bound: the processes each capture's command may have
  NoPath    \* no store path

SystemPhases == {"runtime", "activation", "dry-activation"}
CheckPhases  == SystemPhases \cup {"evaluation", "build"}
Settings     == {"captured", "changed"}  \* one that cannot be read is not the one that could
Paths        == {Output[t] : t \in 1..MaxTree} \cup {NoPath}
Counts       == UNION {Repeats[c] : c \in Captures}
Statuses     == {"passed", "skipped", "failed", "invalid"}

\* The processes of a session.  A set-user-ID program (sudo) runs for another user, and
\* the collector may not signal it: its command's own process or a descendant.
Own     == {"leader", "child"}
Foreign == {"foreign leader", "foreign child"}
Leaders == {"leader", "foreign leader"}

ASSUME EvidenceAssumption ==
  /\ MaxTree \in Nat \ {0} /\ MaxTime \in Nat \ {0}
  /\ MaxMoves \in Nat
  /\ \A c \in Captures : Repeats[c] \subseteq Nat \ {0}
  /\ IsFiniteSet(Captures)
  /\ Required \subseteq CheckPhases
  /\ \A c \in Captures : CapturedPhases[c] \subseteq CheckPhases
  /\ \A t \in 1..MaxTree : Output[t] # NoPath
  /\ Cast \in [Captures -> SUBSET (Own \cup Foreign)]

VARIABLES
  tree,       \* the tracked source
  settings,   \* the effective Nix client configuration
  realised,   \* the store paths that exist
  generation, \* the active system
  time,       \* the wall clock
  job,        \* the step each capture is at
  record,     \* the receipt it is filling in
  group,      \* the live processes of its command's session
  leader,     \* its command's own process: its exit status once it has ended
  expired,    \* its timer has fired
  shared,     \* its session has had a process of another user (a history, until it is empty)
  stored,     \* the receipts in the evidence directory
  endings,    \* how many captures have ended (a history)
  moves,      \* what others have done
  forward     \* the clock was never set back (a history)

machine  == <<tree, settings, realised, generation, time, moves, forward>>
process  == <<group, leader, expired, shared>>
ev_vars == <<machine, process, job, record, stored, endings>>

Blank ==
  [phase |-> "evaluation", source |-> 1, settings |-> "captured", date |-> 1, path |-> NoPath,
   built |-> FALSE, before |-> NoPath, after |-> NoPath, expected |-> 1, good |-> 0,
   status |-> "failed"]

Records ==
  [phase : CheckPhases, source : 1..MaxTree, settings : Settings, date : 1..MaxTime, path : Paths,
   built : BOOLEAN, before : Paths, after : Paths, expected : Counts \cup {1}, good : Nat,
   status : Statuses]

EvidenceTypeOK ==
  /\ tree \in 1..MaxTree /\ settings \in Settings /\ realised \in SUBSET Paths
  /\ generation \in Paths /\ time \in 1..MaxTime /\ moves \in 0..MaxMoves /\ forward \in BOOLEAN
  /\ job \in [Captures -> {"idle", "candidate", "before", "match", "trials", "running", "aborting",
                           "refused", "after", "realised", "stable", "source", "matchafter",
                           "finish", "done"}]
  /\ \A c \in Captures : record[c] \in Records /\ record[c].good <= record[c].expected
  /\ group \in [Captures -> SUBSET (Own \cup Foreign)]
  /\ leader \in [Captures -> {"none", "running", "zero", "nonzero"}]
  /\ expired \in [Captures -> BOOLEAN] /\ shared \in [Captures -> BOOLEAN]
  /\ \A r \in stored : r.receipt \in Records /\ r.finished \in 1..MaxTime /\ r.ended \in 1..endings
  /\ endings \in 0..Cardinality(Captures)

\* Some states of the tree have been built, and the machine runs one of them.
EvidenceInit ==
  /\ tree = 1 /\ settings = "captured"
  /\ realised \in SUBSET (Paths \ {NoPath}) /\ generation \in realised
  /\ time = 1 /\ moves = 0 /\ forward = TRUE
  /\ job = [c \in Captures |-> "idle"]
  /\ record = [c \in Captures |-> Blank]
  /\ group = [c \in Captures |-> {}]
  /\ leader = [c \in Captures |-> "none"]
  /\ expired = [c \in Captures |-> FALSE] /\ shared = [c \in Captures |-> FALSE]
  /\ stored = {}
  /\ endings = 0

Step(c, from, to) == job[c] = from /\ job' = [job EXCEPT ![c] = to]
Note(c, new) == record' = [record EXCEPT ![c] = new]
Conclude(c, status) == Note(c, [record[c] EXCEPT !.status = status])

-----------------------------------------------------------------------------
(* The endpoints of a capture. *)

\* new_record: the envelope fingerprints the tree and the settings.
BeginCapture(c) ==
  /\ Step(c, "idle", "candidate")
  /\ \E phase \in CapturedPhases[c], n \in Repeats[c] :
       Note(c, [Blank EXCEPT !.phase = phase, !.expected = n, !.source = tree,
                             !.settings = settings, !.date = time])
  /\ UNCHANGED <<machine, process, stored, endings>>

\* A system phase names the receipt of a passed build of this very source.
Proves(r, c) ==
  /\ r.receipt.phase = "build" /\ r.receipt.status = "passed"
  /\ r.receipt.source = record[c].source /\ r.receipt.path # NoPath

\* candidate_path: a build evaluates its output, if one was named; a system phase
\* takes it from the build's receipt.
Candidate(c) ==
  \/ /\ record[c].phase \notin SystemPhases
     /\ Step(c, "candidate", "before")
     /\ \E path \in {NoPath} \cup (IF record[c].phase = "build" THEN {Output[tree]} ELSE {}) :
          Note(c, [record[c] EXCEPT !.path = path])
  \/ /\ record[c].phase \in SystemPhases
     /\ \E r \in stored : /\ Proves(r, c)
                          /\ Note(c, [record[c] EXCEPT !.path = r.receipt.path, !.built = TRUE])
     /\ Step(c, "candidate", "before")
  \/ /\ record[c].phase \in SystemPhases
     /\ Step(c, "candidate", "finish")
     /\ Conclude(c, "invalid")

Before(c) ==
  /\ IF record[c].phase \in SystemPhases
     THEN Note(c, [record[c] EXCEPT !.before = generation])
     ELSE UNCHANGED record
  /\ Step(c, "before", IF record[c].phase = "runtime" THEN "match" ELSE "trials")

\* The generation is looked at a second time; it may have changed since.
Match(c) ==
  \/ generation = record[c].path /\ Step(c, "match", "trials") /\ UNCHANGED record
  \/ generation # record[c].path /\ Step(c, "match", "finish") /\ Conclude(c, "invalid")

Successful(r) == r.good = r.expected

After(c) ==
  /\ IF record[c].phase \in SystemPhases
     THEN Note(c, [record[c] EXCEPT !.after = generation])
     ELSE UNCHANGED record
  /\ Step(c, "after", IF record[c].phase = "build" /\ record[c].path # NoPath /\ Successful(record[c])
                      THEN "realised" ELSE "stable")

Realised(c) ==
  \/ record[c].path \in realised /\ Step(c, "realised", "stable") /\ UNCHANGED record
  \/ record[c].path \notin realised /\ Step(c, "realised", "finish") /\ Conclude(c, "failed")

Stable(c) ==
  \/ settings = record[c].settings /\ Step(c, "stable", "source") /\ UNCHANGED record
  \/ settings # record[c].settings /\ Step(c, "stable", "finish") /\ Conclude(c, "invalid")

\* Variant: the tree is not looked at again.
SourceUnchecked(c) == Step(c, "source", "matchafter") /\ UNCHANGED record

SourceAfter(c) ==
  \/ tree = record[c].source /\ Step(c, "source", "matchafter") /\ UNCHANGED record
  \/ tree # record[c].source /\ Step(c, "source", "finish") /\ Conclude(c, "invalid")

MatchAfter(c) ==
  LET r == record[c]
      wrong == \/ r.phase \in {"runtime", "activation"} /\ generation # r.path
               \/ r.phase = "dry-activation" /\ r.before # r.after
  IN  /\ Step(c, "matchafter", "finish")
      /\ Conclude(c, IF wrong THEN "invalid" ELSE IF Successful(r) THEN "passed" ELSE "failed")

\* Nix fails or times out where it is asked.
NixFails(c) ==
  /\ job[c] \in {"candidate", "realised"} /\ record[c].phase = "build"
  /\ Step(c, job[c], "finish")
  /\ Conclude(c, "failed")

Observe(c) ==
  /\ \/ Candidate(c) \/ Before(c) \/ Match(c) \/ After(c) \/ Realised(c) \/ Stable(c)
     \/ SourceAfter(c) \/ MatchAfter(c) \/ NixFails(c)
  /\ UNCHANGED <<machine, process, stored, endings>>

-----------------------------------------------------------------------------
(* measure: one trial in a session of its own. *)

\* Joining a session: p is started in it.
Joins(c, p) ==
  /\ group' = [group EXCEPT ![c] = @ \cup {p}]
  /\ shared' = [shared EXCEPT ![c] = @ \/ p \in Foreign]

StartTrial(c) ==
  /\ Step(c, "trials", "running")
  /\ \E p \in Cast[c] \cap Leaders : Joins(c, p)
  /\ leader' = [leader EXCEPT ![c] = "running"]
  /\ UNCHANGED <<machine, record, expired, stored, endings>>

\* What becomes of a command whose collector is gone is not followed.
Fork(c) ==
  /\ group[c] # {} /\ job[c] # "done"
  /\ \E p \in Cast[c] \ (Leaders \cup group[c]) : Joins(c, p)
  /\ UNCHANGED <<machine, job, record, leader, expired, stored, endings>>

LeaderExits(c) ==
  /\ job[c] # "done"
  /\ \E p \in group[c] \cap Leaders : group' = [group EXCEPT ![c] = @ \ {p}]
  /\ \E status \in {"zero", "nonzero"} :
       leader' = [leader EXCEPT ![c] = IF @ = "running" THEN status ELSE @]
  /\ UNCHANGED <<machine, job, record, expired, shared, stored, endings>>

ChildExits(c) ==
  /\ job[c] # "done"
  /\ \E p \in group[c] \ Leaders : group' = [group EXCEPT ![c] = @ \ {p}]
  /\ UNCHANGED <<machine, job, record, leader, expired, shared, stored, endings>>

\* kill_group: SIGKILL to the session spares the processes of other users.  What it
\* takes is gone at once.
KillGroup(c) == group' = [group EXCEPT ![c] = @ \ Own]

\* The timer kills the session, also one whose leader has just ended.
Expire(c) ==
  /\ job[c] \in {"running", "aborting"} /\ ~expired[c]
  /\ expired' = [expired EXCEPT ![c] = TRUE]
  /\ leader' = [leader EXCEPT ![c] = IF @ = "running" /\ "leader" \in group[c] THEN "nonzero" ELSE @]
  /\ KillGroup(c)
  /\ UNCHANGED <<machine, job, record, shared, stored, endings>>

\* The collector has waited for its command.  An empty session is over.
Waited(c) ==
  /\ group[c] \cap Leaders = {}
  /\ leader' = [leader EXCEPT ![c] = "none"]
  /\ expired' = [expired EXCEPT ![c] = FALSE]
  /\ shared' = [shared EXCEPT ![c] = @ /\ group[c] # {}]
  /\ UNCHANGED <<machine, stored, endings>>

\* Variant: descendants are reported, but not killed.
Survivors(c) == group[c]

Remaining(c) == group[c] \ Own

\* The leader is reaped, whatever else lives in its session is killed, and the timer
\* is cancelled.  Only a clean trial is followed by another.  Where nobody of the
\* session may be signalled the error passes for a command that could not be started.
Reap(c) ==
  /\ Waited(c)
  /\ LET clean == leader[c] = "zero" /\ ~expired[c] /\ group[c] = {}
         r     == [record[c] EXCEPT !.good = IF clean THEN @ + 1 ELSE @]
     IN  /\ Note(c, r)
         /\ Step(c, "running", IF clean /\ ~Successful(r) THEN "trials" ELSE "after")
  /\ group' = [group EXCEPT ![c] = Remaining(c)]

\* The command cannot be started.
StartFails(c) ==
  /\ Step(c, "trials", "after")
  /\ UNCHANGED <<machine, process, record, stored, endings>>

\* The operator interrupts a trial: its session is killed and its command waited for,
\* whose status nobody will look at, and nothing will be stored.  But killpg fails where
\* it may signal nobody, and its error takes the interrupt's place, without a timer.  A
\* command that has ended still counts until it is waited for, whomever it ran as.
Abort(c) ==
  /\ \/ /\ Step(c, "running", "aborting") /\ (leader[c] = "running" => group[c] \cap Own # {})
        /\ Note(c, Blank) /\ UNCHANGED expired
     \/ /\ Step(c, "running", "refused") /\ shared[c] /\ group[c] \cap Own = {}
        /\ expired' = [expired EXCEPT ![c] = FALSE] /\ UNCHANGED record
  /\ KillGroup(c)
  /\ leader' = [leader EXCEPT ![c] = "none"]
  /\ UNCHANGED <<machine, shared, stored, endings>>

\* The failed killpg passes for a command that could not be started.
Unwind(c) ==
  /\ Waited(c)
  /\ Step(c, "aborting", "done") \/ Step(c, "refused", "after")
  /\ UNCHANGED <<group, record>>

\* SIGTERM, SIGHUP and SIGKILL end the collector where it is, and so does an interrupt
\* outside a trial, as its command is being started or waited for after another one.
\* Nothing is stored and nobody is signalled: a command that runs, runs on.
Vanish(c) ==
  /\ job[c] \notin {"idle", "done"}
  /\ job' = [job EXCEPT ![c] = "done"]
  /\ leader' = [leader EXCEPT ![c] = "none"]
  /\ expired' = [expired EXCEPT ![c] = FALSE]
  /\ Note(c, Blank)
  /\ UNCHANGED <<machine, group, shared, stored, endings>>

-----------------------------------------------------------------------------
(* The receipt, and what status makes of the receipts. *)

\* validate_receipt, for what a capture can get wrong: the order of its dates and the
\* support of a success.
Valid(r, finished) ==
  /\ r.date <= finished
  /\ r.status = "passed" =>
       /\ r.good = r.expected
       /\ r.phase \in SystemPhases => r.built /\ r.path # NoPath
       /\ r.phase = "runtime" => r.before = r.path
       /\ r.phase = "dry-activation" => r.before = r.after
       /\ r.phase \in {"runtime", "activation"} => r.after = r.path

\* A receipt is linked under a new name once it is whole.  One that is not valid is
\* not stored: the capture fails without it.
StoreReceipt(c) ==
  /\ Step(c, "finish", "done")
  /\ endings' = endings + 1
  /\ stored' = IF Valid(record[c], time)
               THEN stored \cup {[receipt |-> record[c], finished |-> time, ended |-> endings']}
               ELSE stored
  /\ Note(c, Blank)
  /\ UNCHANGED <<machine, process>>

Skip(c) ==
  /\ Step(c, "idle", "done")
  /\ endings' = endings + 1
  /\ \E phase \in CapturedPhases[c] :
       LET r == [Blank EXCEPT !.phase = phase, !.source = tree, !.settings = settings,
                              !.date = time, !.status = "skipped"]
       IN  stored' = stored \cup {[receipt |-> r, finished |-> time, ended |-> endings']}
  /\ UNCHANGED <<machine, process, record>>

Severity == [passed |-> 0, skipped |-> 1, failed |-> 2, invalid |-> 3]

ForSource(phase) == {r \in stored : r.receipt.phase = phase /\ r.receipt.source = tree}

\* Variant: the latest receipt is the one that was begun last.
LaterBegun(r, q) ==
  \/ r.receipt.date > q.receipt.date
  \/ r.receipt.date = q.receipt.date /\ Severity[r.receipt.status] >= Severity[q.receipt.status]

Later(r, q) ==
  \/ r.finished > q.finished
  \/ r.finished = q.finished /\ Severity[r.receipt.status] >= Severity[q.receipt.status]

CoveragePassed ==
  \A phase \in Required :
    \E r \in ForSource(phase) :
      r.receipt.status = "passed" /\ \A q \in ForSource(phase) : Later(r, q)

-----------------------------------------------------------------------------
(* The machine around the captures. *)

Edit ==
  /\ tree < MaxTree
  /\ tree' = tree + 1
  /\ UNCHANGED <<settings, realised, generation, time, forward>>

Reconfigure ==
  /\ \E s \in Settings \ {settings} : settings' = s
  /\ UNCHANGED <<tree, realised, generation, time, forward>>

\* A build of the tree, by a capture's command or by anyone.
Build ==
  /\ Output[tree] \notin realised
  /\ realised' = realised \cup {Output[tree]}
  /\ UNCHANGED <<tree, settings, generation, time, forward>>

Switch ==
  /\ generation' \in realised \ {generation}
  /\ UNCHANGED <<tree, settings, realised, time, forward>>

PassTime ==
  /\ time < MaxTime
  /\ time' = time + 1
  /\ UNCHANGED <<tree, settings, realised, generation, forward>>

SetClockBack ==
  /\ \E t \in 1..(time - 1) : time' = t
  /\ forward' = FALSE
  /\ UNCHANGED <<tree, settings, realised, generation>>

World ==
  /\ moves < MaxMoves
  /\ moves' = moves + 1
  /\ Edit \/ Reconfigure \/ Build \/ Switch \/ PassTime \/ SetClockBack
  /\ UNCHANGED <<process, job, record, stored, endings>>

-----------------------------------------------------------------------------
CaptureStep(c) ==
  \/ BeginCapture(c) \/ Observe(c) \/ StartTrial(c) \/ Fork(c) \/ LeaderExits(c) \/ ChildExits(c)
  \/ Expire(c) \/ Reap(c) \/ StartFails(c) \/ Abort(c) \/ Unwind(c) \/ Vanish(c) \/ StoreReceipt(c)
  \/ Skip(c)

EvidenceNext == World \/ \E c \in Captures : CaptureStep(c)

EvidenceSpec == EvidenceInit /\ [][EvidenceNext]_ev_vars

-----------------------------------------------------------------------------
(* Properties. *)

\* "Source-bound": a passed receipt of a build or of a system phase speaks of the
\* output of the very tree it names, and that output exists, whoever edited, built
\* and switched meanwhile; a runtime receipt had it active at both ends.
PassedIsBound ==
  \A r \in stored :
    r.receipt.status = "passed" /\ r.receipt.path # NoPath =>
      /\ r.receipt.path = Output[r.receipt.source] /\ r.receipt.path \in realised
      /\ r.receipt.phase = "runtime" => r.receipt.path \in {r.receipt.before} \cap {r.receipt.after}

\* "Preserving failed and skipped checks": status passes a required check only if no
\* receipt for this source that ended later, however early it was begun, says
\* otherwise; unless the clock was set back.
LatestVerdict ==
  CoveragePassed /\ forward =>
    \A phase \in Required : \E r \in ForSource(phase) :
      r.receipt.status = "passed" /\ \A q \in ForSource(phase) :
        q.receipt.status # "passed" => q.ended < r.ended

\* "Reject surviving background work": what a trial left behind is gone before the
\* next trial, or any later observation, of its capture.  Only where another user's
\* process was in the session, which the collector may not kill, can something be left
\* beside the later observations; no trial follows then, and the capture does not pass.
\* A collector that was killed or interrupted leaves its command behind and no receipt.
TrialsAlone ==
  \A c \in Captures : group[c] # {} /\ job[c] \notin {"running", "aborting", "refused", "done"} =>
    shared[c] /\ job[c] # "trials" /\ record[c].status # "passed"
=============================================================================

------------------------ MODULE DesktopPrograms_proofs ------------------------
(***************************************************************************)
(* What the evidence collector and the backup receipts promise, for any    *)
(* number of captures and units; and the types of the six programs.        *)
(***************************************************************************)
EXTENDS MCPrograms, SessionPrograms_proofs, FiniteSetTheorems

-----------------------------------------------------------------------------
(* The evidence collector: what a receipt is bound to. *)

Jobs == {"idle", "candidate", "before", "match", "trials", "running", "aborting", "refused", "after",
         "realised", "stable", "source", "matchafter", "finish", "done"}

Bound(r, real) == r.path # NoPath => r.path = Output[r.source] /\ r.path \in real

\* What a capture at a step knows of the path it names, given the tree and the store:
\* a system phase has it from a proof; a build evaluated it after it fingerprinted its
\* source, looks for it once its command succeeded, and looks at the source again.
Sound(r, step, now, real) ==
  /\ r \in Records /\ step \in Jobs
  /\ r.source <= now
  /\ r.phase = "evaluation" => r.path = NoPath
  /\ r.phase \in SystemPhases => Bound(r, real)
  /\ r.phase = "build" /\ r.path # NoPath =>
       /\ \E t \in r.source..now : r.path = Output[t]
       /\ step = "matchafter" => r.path = Output[r.source]
       /\ Successful(r) /\ step \in {"stable", "source", "matchafter"} => r.path \in real
  /\ r.status = "passed" => step = "finish" /\ Bound(r, real)

BoundInv ==
  /\ tree \in 1..MaxTree /\ realised \subseteq Paths /\ generation \in Paths
  /\ time \in 1..MaxTime /\ settings \in Settings
  /\ record \in [Captures -> Records] /\ job \in [Captures -> Jobs]
  /\ \A c \in Captures : Sound(record[c], job[c], tree, realised)
  /\ \A r \in stored :
       /\ r.receipt \in Records
       /\ r.receipt.status = "passed" =>
            /\ Bound(r.receipt, realised)
            /\ r.receipt.phase = "runtime" => r.receipt.path \in {r.receipt.before} \cap {r.receipt.after}

\* Edits go forward and the store keeps what it has.
LEMMA SoundLater ==
  ASSUME NEW r, NEW step, NEW now \in Nat, NEW later \in Nat, NEW real, NEW more,
         Sound(r, step, now, real), now <= later, real \subseteq more
  PROVE  Sound(r, step, later, more)
  BY EvidenceAssumption DEF Sound, Bound, Records

\* A capture that takes a sound step leaves the others as they are.
LEMMA OneStep ==
  ASSUME BoundInv, NEW c \in Captures, NEW r, NEW step, Sound(r, step, tree, realised),
         record' = [record EXCEPT ![c] = r], job' = [job EXCEPT ![c] = step],
         UNCHANGED <<machine, stored>>
  PROVE  BoundInv'
  <1>1. r \in Records /\ step \in Jobs  BY DEF Sound
  <1>2. record' \in [Captures -> Records] /\ job' \in [Captures -> Jobs]
    BY <1>1 DEF BoundInv
  <1>3. ASSUME NEW d \in Captures PROVE Sound(record'[d], job'[d], tree, realised)
    BY DEF BoundInv
  <1>4. ASSUME NEW d \in Captures PROVE Sound(record[d], job[d], tree, realised)'
    BY <1>3 DEF machine
  <1> QED  BY <1>2, <1>4 DEF BoundInv, Bound, machine

\* A blank record claims nothing.
LEMMA BlankSound ==
  ASSUME BoundInv, NEW step \in Jobs PROVE Sound(Blank, step, tree, realised)
  BY EvidenceAssumption DEF Sound, Blank, Records, BoundInv, Bound, CheckPhases, SystemPhases, Settings,
     Paths, Statuses

\* The machine starts with blank records and no receipt.
LEMMA BoundStarts == EvidenceInit => BoundInv
  BY EvidenceAssumption DEF EvidenceInit, BoundInv, Sound, Bound, Blank, Records, Jobs, CheckPhases,
     SystemPhases, Settings, Paths, Statuses

\* A build names the output of the tree it evaluates; a system phase takes a stored
\* path of its source, and the stored receipts are bound already.
LEMMA CandidateBound ==
  ASSUME BoundInv, NEW c \in Captures, Candidate(c), UNCHANGED <<machine, stored>>
  PROVE  BoundInv'
  <1> DEFINE r == record[c]
  <1>1. r \in Records /\ Sound(r, job[c], tree, realised) /\ tree \in 1..MaxTree
    BY DEF BoundInv
  <1>2. CASE /\ r.phase \notin SystemPhases
             /\ Step(c, "candidate", "before")
             /\ \E path \in {NoPath} \cup (IF r.phase = "build" THEN {Output[tree]} ELSE {}) :
                  Note(c, [r EXCEPT !.path = path])
    <2>1. PICK path \in {NoPath} \cup (IF r.phase = "build" THEN {Output[tree]} ELSE {}) :
            record' = [record EXCEPT ![c] = [r EXCEPT !.path = path]]
      BY <1>2 DEF Note
    <2>2. Sound([r EXCEPT !.path = path], "before", tree, realised)
      BY <1>1, <1>2, <2>1, EvidenceAssumption
      DEF Sound, Bound, Records, Paths, Jobs, Step, Successful, SystemPhases, CheckPhases
    <2>3. job' = [job EXCEPT ![c] = "before"]  BY <1>2 DEF Step
    <2> QED  BY <2>1, <2>2, <2>3, OneStep
  <1>3. CASE /\ r.phase \in SystemPhases
             /\ \E q \in stored : /\ Proves(q, c)
                                  /\ Note(c, [r EXCEPT !.path = q.receipt.path, !.built = TRUE])
             /\ Step(c, "candidate", "before")
    <2>1. PICK q \in stored :
            /\ Proves(q, c)
            /\ record' = [record EXCEPT ![c] = [r EXCEPT !.path = q.receipt.path, !.built = TRUE]]
      BY <1>3 DEF Note
    <2>2. q.receipt \in Records /\ Bound(q.receipt, realised)
      BY <2>1 DEF BoundInv, Proves
    <2>3. Sound([r EXCEPT !.path = q.receipt.path, !.built = TRUE], "before", tree, realised)
      BY <1>1, <1>3, <2>1, <2>2
      DEF Sound, Bound, Records, Jobs, Step, Proves, SystemPhases
    <2>4. job' = [job EXCEPT ![c] = "before"]  BY <1>3 DEF Step
    <2> QED  BY <2>1, <2>3, <2>4, OneStep
  <1>4. CASE /\ r.phase \in SystemPhases
             /\ Step(c, "candidate", "finish")
             /\ Conclude(c, "invalid")
    <2>1. record' = [record EXCEPT ![c] = [r EXCEPT !.status = "invalid"]]
      BY <1>4 DEF Conclude, Note
    <2>2. Sound([r EXCEPT !.status = "invalid"], "finish", tree, realised)
      BY <1>1, <1>4 DEF Sound, Bound, Records, Jobs, Step, Statuses, Successful, SystemPhases
    <2>3. job' = [job EXCEPT ![c] = "finish"]  BY <1>4 DEF Step
    <2> QED  BY <2>1, <2>2, <2>3, OneStep
  <1> QED  BY <1>2, <1>3, <1>4 DEF Candidate

\* A verdict other than "passed" claims nothing.
LEMMA VerdictBound ==
  ASSUME BoundInv, NEW c \in Captures, NEW from, NEW status \in {"failed", "invalid"},
         Step(c, from, "finish"), Conclude(c, status), UNCHANGED <<machine, stored>>
  PROVE  BoundInv'
  <1> DEFINE r == record[c]
  <1>1. r \in Records /\ Sound(r, job[c], tree, realised)
    BY DEF BoundInv
  <1>2. record' = [record EXCEPT ![c] = [r EXCEPT !.status = status]]
    BY DEF Conclude, Note
  <1>3. Sound([r EXCEPT !.status = status], "finish", tree, realised)
    BY <1>1 DEF Sound, Bound, Records, Jobs, Step, Statuses, Successful
  <1>4. job' = [job EXCEPT ![c] = "finish"]  BY DEF Step
  <1> QED  BY <1>2, <1>3, <1>4, OneStep

\* Going on without a word is sound where the next step asks for no more.
LEMMA AdvanceBound ==
  ASSUME BoundInv, NEW c \in Captures, NEW from, NEW to, Step(c, from, to), record' = record,
         Sound(record[c], to, tree, realised), UNCHANGED <<machine, stored>>
  PROVE  BoundInv'
  <1>1. record' = [record EXCEPT ![c] = record[c]]
    <2>1. record \in [Captures -> Records]  BY DEF BoundInv
    <2> QED  BY <2>1
  <1>2. job' = [job EXCEPT ![c] = to]  BY DEF Step
  <1> QED  BY <1>1, <1>2, OneStep

\* The looks at the generation, the store, the settings and the tree keep a capture's
\* claims sound: the last one says that its path is the output of its source.
LEMMA ObserveBound ==
  ASSUME BoundInv, NEW c \in Captures, Observe(c) PROVE BoundInv'
  <1> DEFINE r == record[c]
  <1>1. r \in Records /\ Sound(r, job[c], tree, realised) /\ tree \in 1..MaxTree /\ generation \in Paths
    BY DEF BoundInv
  <1>2. UNCHANGED <<machine, stored>>  BY DEF Observe
  <1>3. CASE Candidate(c)  BY <1>2, <1>3, CandidateBound
  <1>4. CASE Before(c)
    <2> DEFINE to == IF r.phase = "runtime" THEN "match" ELSE "trials"
    <2>1. Step(c, "before", to)  BY <1>4 DEF Before
    <2>2. Sound(r, to, tree, realised)
      BY <1>1, <2>1 DEF Sound, Step, Jobs
    <2>3. CASE record' = record  BY <1>2, <2>1, <2>2, <2>3, AdvanceBound
    <2>4. CASE record' = [record EXCEPT ![c] = [r EXCEPT !.before = generation]]
      <3>1. Sound([r EXCEPT !.before = generation], to, tree, realised)
        BY <1>1, <2>2 DEF Sound, Bound, Records, Successful
      <3>2. job' = [job EXCEPT ![c] = to]  BY <2>1 DEF Step
      <3> QED  BY <1>2, <2>4, <3>1, <3>2, OneStep
    <2> QED  BY <1>4, <2>3, <2>4 DEF Before, Note
  <1>5. CASE Match(c)
    <2>1. CASE Step(c, "match", "trials") /\ UNCHANGED record
      <3>1. Sound(r, "trials", tree, realised)
        BY <1>1, <2>1 DEF Sound, Step, Jobs
      <3> QED  BY <1>2, <2>1, <3>1, AdvanceBound
    <2>2. CASE Step(c, "match", "finish") /\ Conclude(c, "invalid")
      BY <1>2, <2>2, VerdictBound
    <2> QED  BY <1>5, <2>1, <2>2 DEF Match
  <1>6. CASE After(c)
    <2> DEFINE to == IF r.phase = "build" /\ r.path # NoPath /\ Successful(r)
                     THEN "realised" ELSE "stable"
    <2>1. Step(c, "after", to)  BY <1>6 DEF After
    <2>2. Sound(r, to, tree, realised)
      BY <1>1, <2>1 DEF Sound, Step, Jobs
    <2>3. CASE record' = record  BY <1>2, <2>1, <2>2, <2>3, AdvanceBound
    <2>4. CASE record' = [record EXCEPT ![c] = [r EXCEPT !.after = generation]]
      <3>1. Sound([r EXCEPT !.after = generation], to, tree, realised)
        BY <1>1, <2>2 DEF Sound, Bound, Records, Successful
      <3>2. job' = [job EXCEPT ![c] = to]  BY <2>1 DEF Step
      <3> QED  BY <1>2, <2>4, <3>1, <3>2, OneStep
    <2> QED  BY <1>6, <2>3, <2>4 DEF After, Note
  <1>7. CASE Realised(c)
    <2>1. CASE r.path \in realised /\ Step(c, "realised", "stable") /\ UNCHANGED record
      <3>1. Sound(r, "stable", tree, realised)
        BY <1>1, <2>1 DEF Sound, Step, Jobs
      <3> QED  BY <1>2, <2>1, <3>1, AdvanceBound
    <2>2. CASE Step(c, "realised", "finish") /\ Conclude(c, "failed")
      BY <1>2, <2>2, VerdictBound
    <2> QED  BY <1>7, <2>1, <2>2 DEF Realised
  <1>8. CASE Stable(c)
    <2>1. CASE Step(c, "stable", "source") /\ UNCHANGED record
      <3>1. Sound(r, "source", tree, realised)
        BY <1>1, <2>1 DEF Sound, Step, Jobs
      <3> QED  BY <1>2, <2>1, <3>1, AdvanceBound
    <2>2. CASE Step(c, "stable", "finish") /\ Conclude(c, "invalid")
      BY <1>2, <2>2, VerdictBound
    <2> QED  BY <1>8, <2>1, <2>2 DEF Stable
  <1>9. CASE SourceAfter(c)
    <2>1. CASE tree = r.source /\ Step(c, "source", "matchafter") /\ UNCHANGED record
      <3>1. Sound(r, "matchafter", tree, realised)
        BY <1>1, <2>1 DEF Sound, Step, Jobs
      <3> QED  BY <1>2, <2>1, <3>1, AdvanceBound
    <2>2. CASE Step(c, "source", "finish") /\ Conclude(c, "invalid")
      BY <1>2, <2>2, VerdictBound
    <2> QED  BY <1>9, <2>1, <2>2 DEF SourceAfter
  <1>10. CASE MatchAfter(c)
    <2>1. Step(c, "matchafter", "finish")  BY <1>10 DEF MatchAfter
    <2>2. CASE \E status \in {"failed", "invalid"} : Conclude(c, status)
      BY <1>2, <2>1, <2>2, VerdictBound
    <2>3. CASE Conclude(c, "passed") /\ Successful(r)
      <3>1. record' = [record EXCEPT ![c] = [r EXCEPT !.status = "passed"]]
        BY <2>3 DEF Conclude, Note
      <3>2. job[c] = "matchafter" /\ job' = [job EXCEPT ![c] = "finish"]  BY <2>1 DEF Step
      <3>3. Bound(r, realised)
        BY <1>1, <2>3, <3>2 DEF Sound, Bound, Records, CheckPhases
      <3>4. Sound([r EXCEPT !.status = "passed"], "finish", tree, realised)
        BY <1>1, <3>2, <3>3 DEF Sound, Bound, Records, Jobs, Statuses, Successful
      <3> QED  BY <1>2, <3>1, <3>2, <3>4, OneStep
    <2> QED  BY <1>10, <2>2, <2>3 DEF MatchAfter
  <1>11. CASE NixFails(c)
    <2>1. PICK from : Step(c, from, "finish")  BY <1>11 DEF NixFails
    <2>2. Conclude(c, "failed")  BY <1>11 DEF NixFails
    <2> QED  BY <1>2, <2>1, <2>2, VerdictBound
  <1> QED
    BY <1>3, <1>4, <1>5, <1>6, <1>7, <1>8, <1>9, <1>10, <1>11 DEF Observe

\* A trial changes what has been counted only while its capture runs, before the store
\* is looked at.
LEMMA TrialBound ==
  ASSUME BoundInv, NEW c \in Captures, StartTrial(c) \/ Reap(c) \/ StartFails(c) \/ Unwind(c)
  PROVE  BoundInv'
  <1> DEFINE r == record[c]
  <1>1. r \in Records /\ Sound(r, job[c], tree, realised)
    BY DEF BoundInv
  <1>2. CASE StartTrial(c)
    <2>1. Step(c, "trials", "running") /\ UNCHANGED <<machine, stored, record>>
      BY <1>2 DEF StartTrial
    <2>2. Sound(r, "running", tree, realised)  BY <1>1, <2>1 DEF Sound, Step, Jobs
    <2> QED  BY <2>1, <2>2, AdvanceBound
  <1>3. CASE StartFails(c)
    <2>1. Step(c, "trials", "after") /\ UNCHANGED <<machine, stored, record>>
      BY <1>3 DEF StartFails
    <2>2. Sound(r, "after", tree, realised)  BY <1>1, <2>1 DEF Sound, Step, Jobs
    <2> QED  BY <2>1, <2>2, AdvanceBound
  <1>4. CASE Reap(c)
    <2>1. PICK n \in {r.good, r.good + 1}, to \in {"trials", "after"} :
            record' = [record EXCEPT ![c] = [r EXCEPT !.good = n]] /\ Step(c, "running", to)
      BY <1>4 DEF Reap, Note
    <2>2. Sound([r EXCEPT !.good = n], to, tree, realised)
      BY <1>1, <2>1 DEF Sound, Bound, Records, Step, Jobs, Successful
    <2>3. job' = [job EXCEPT ![c] = to] /\ UNCHANGED <<machine, stored>>
      BY <1>4, <2>1 DEF Reap, Step, Waited
    <2> QED  BY <2>1, <2>2, <2>3, OneStep
  <1>5. CASE Unwind(c)
    <2>1. PICK to \in {"done", "after"} : job[c] \in {"aborting", "refused"} /\ Step(c, job[c], to)
      BY <1>5 DEF Unwind, Step
    <2>2. UNCHANGED <<machine, stored, record>>  BY <1>5 DEF Unwind, Waited
    <2>3. Sound(r, to, tree, realised)  BY <1>1, <2>1 DEF Sound, Step, Jobs
    <2> QED  BY <2>1, <2>2, <2>3, AdvanceBound
  <1> QED  BY <1>2, <1>3, <1>4, <1>5

\* A new capture fingerprints the tree as it is; an aborted one claims nothing.
LEMMA EndsBound ==
  ASSUME BoundInv, NEW c \in Captures, BeginCapture(c) \/ Abort(c) \/ Vanish(c) PROVE BoundInv'
  <1>1. CASE BeginCapture(c)
    <2>1. PICK stage \in CapturedPhases[c], n \in Repeats[c] :
            record' = [record EXCEPT ![c] =
              [Blank EXCEPT !.phase = stage, !.expected = n, !.source = tree,
                            !.settings = settings, !.date = time]]
      BY <1>1 DEF BeginCapture, Note
    <2> DEFINE r == [Blank EXCEPT !.phase = stage, !.expected = n, !.source = tree,
                                  !.settings = settings, !.date = time]
    <2>0. stage \in CheckPhases /\ n \in Counts  BY EvidenceAssumption DEF Counts
    <2>2. r \in Records
      BY <2>0, EvidenceAssumption
      DEF BoundInv, Records, Blank, Statuses, CheckPhases, Paths, SystemPhases
    <2>3. Sound(r, "candidate", tree, realised)
      BY <2>2 DEF Sound, Bound, Jobs, Blank, BoundInv
    <2>4. job' = [job EXCEPT ![c] = "candidate"] /\ UNCHANGED <<machine, stored>>
      BY <1>1 DEF BeginCapture, Step
    <2> QED  BY <2>1, <2>3, <2>4, OneStep
  <1>2. CASE Abort(c) /\ record' = record
    <2>1. Step(c, "running", "aborting") \/ Step(c, "running", "refused")  BY <1>2 DEF Abort
    <2>2. PICK to \in {"aborting", "refused"} : Step(c, "running", to)  BY <2>1
    <2>3. UNCHANGED <<machine, stored, record>>  BY <1>2 DEF Abort
    <2>4. Sound(record[c], to, tree, realised)  BY <2>2 DEF BoundInv, Sound, Step, Jobs
    <2> QED  BY <2>2, <2>3, <2>4, AdvanceBound
  <1>3. CASE (Abort(c) /\ record' # record) \/ Vanish(c)
    <2>1. PICK to \in {"aborting", "done"} :
            record' = [record EXCEPT ![c] = Blank] /\ job' = [job EXCEPT ![c] = to]
      BY <1>3 DEF Abort, Vanish, Note, Step
    <2>2. UNCHANGED <<machine, stored>>  BY <1>3 DEF Abort, Vanish
    <2>3. Sound(Blank, to, tree, realised)  BY <2>1, BlankSound DEF Jobs
    <2> QED  BY <2>1, <2>2, <2>3, OneStep
  <1> QED  BY <1>1, <1>2, <1>3

\* What is stored is what the capture had established, and is valid.
LEMMA StoreBound ==
  ASSUME BoundInv, NEW c \in Captures, StoreReceipt(c) \/ Skip(c) PROVE BoundInv'
  <1>1. CASE StoreReceipt(c)
    <2>1. \A q \in stored' : q \in stored \/ (q.receipt = record[c] /\ Valid(record[c], time))
      BY <1>1 DEF StoreReceipt
    <2>2. record[c] \in Records /\ Sound(record[c], job[c], tree, realised)
      BY DEF BoundInv
    <2>3. \A q \in stored' : /\ q.receipt \in Records
                             /\ q.receipt.status = "passed" =>
                                  /\ Bound(q.receipt, realised)
                                  /\ q.receipt.phase = "runtime" =>
                                       q.receipt.path \in {q.receipt.before} \cap {q.receipt.after}
      BY <2>1, <2>2 DEF BoundInv, Sound, Valid
    <2>4. record' = [record EXCEPT ![c] = Blank] /\ job' = [job EXCEPT ![c] = "done"]
          /\ UNCHANGED machine
      BY <1>1 DEF StoreReceipt, Note, Step
    <2>5. Sound(Blank, "done", tree, realised) /\ Blank \in Records
      BY BlankSound DEF Jobs, Sound
    <2>6. \A d \in Captures : Sound(record'[d], job'[d], tree, realised)
      BY <2>4, <2>5 DEF BoundInv
    <2>7. record' \in [Captures -> Records] /\ job' \in [Captures -> Jobs]
      BY <2>4, <2>5 DEF BoundInv, Jobs
    <2> QED  BY <2>3, <2>4, <2>6, <2>7 DEF BoundInv, machine, Sound, Bound
  <1>2. CASE Skip(c)
    <2>1. \A q \in stored' : q \in stored \/ (q.receipt \in Records /\ q.receipt.status = "skipped")
      <3>1. PICK stage \in CapturedPhases[c] :
              stored' = stored \cup {[receipt |-> [Blank EXCEPT !.phase = stage, !.source = tree,
                                                    !.settings = settings, !.date = time,
                                                    !.status = "skipped"],
                                      finished |-> time, ended |-> endings']}
        BY <1>2 DEF Skip
      <3> DEFINE r == [Blank EXCEPT !.phase = stage, !.source = tree, !.settings = settings,
                                    !.date = time, !.status = "skipped"]
      <3>2. r \in Records /\ r.status = "skipped"
        BY EvidenceAssumption DEF BoundInv, Records, Blank, Statuses, CheckPhases, Paths, SystemPhases
      <3>3. \A q \in stored' : q \in stored \/ q.receipt = r  BY <3>1
      <3> HIDE DEF r
      <3> QED  BY <3>2, <3>3
    <2>2. record' = record /\ job' = [job EXCEPT ![c] = "done"] /\ UNCHANGED machine /\ job[c] = "idle"
      BY <1>2 DEF Skip, Step
    <2>3. \A d \in Captures : Sound(record[d], job'[d], tree, realised)
      BY <2>2 DEF BoundInv, Sound, Jobs
    <2>4. job' \in [Captures -> Jobs]  BY <2>2 DEF BoundInv, Jobs
    <2> QED  BY <2>1, <2>2, <2>3, <2>4 DEF BoundInv, machine, Sound, Bound
  <1> QED  BY <1>1, <1>2

\* Others only edit forwards, and delete nothing from the store.
LEMMA WorldBound == ASSUME BoundInv, World PROVE BoundInv'
  <1>1. UNCHANGED <<job, record, stored>>  BY DEF World
  <1>2. /\ tree' \in 1..MaxTree /\ tree <= tree'
        /\ realised \subseteq realised' /\ realised' \subseteq Paths
        /\ generation' \in Paths /\ time' \in 1..MaxTime /\ settings' \in Settings
    BY EvidenceAssumption
    DEF World, BoundInv, Edit, Reconfigure, Build, Switch, PassTime, SetClockBack, Paths
  <1>3. ASSUME NEW d \in Captures PROVE Sound(record[d], job[d], tree', realised')
    <2>1. Sound(record[d], job[d], tree, realised) /\ tree \in 1..MaxTree  BY DEF BoundInv
    <2> QED  BY <1>2, <2>1, SoundLater, EvidenceAssumption
  <1> QED  BY <1>1, <1>2, <1>3 DEF BoundInv, Bound, Sound

\* Every step of every capture, and of the machine, keeps the receipts bound.
LEMMA BoundCarried == ASSUME BoundInv, [EvidenceNext]_ev_vars PROVE BoundInv'
  <1>1. CASE World  BY <1>1, WorldBound
  <1>2. ASSUME NEW c \in Captures, CaptureStep(c) PROVE BoundInv'
    <2>1. CASE Observe(c)  BY <2>1, ObserveBound
    <2>2. CASE StartTrial(c) \/ Reap(c) \/ StartFails(c) \/ Unwind(c)  BY <2>2, TrialBound
    <2>3. CASE BeginCapture(c) \/ Abort(c) \/ Vanish(c)  BY <2>3, EndsBound
    <2>4. CASE StoreReceipt(c) \/ Skip(c)  BY <2>4, StoreBound
    <2>5. CASE Fork(c) \/ LeaderExits(c) \/ ChildExits(c) \/ Expire(c)
      <3>1. UNCHANGED <<machine, job, record, stored>>
        BY <2>5 DEF Fork, LeaderExits, ChildExits, Expire
      <3> QED  BY <3>1 DEF BoundInv, machine, Sound, Bound
    <2> QED  BY <1>2, <2>1, <2>2, <2>3, <2>4, <2>5 DEF CaptureStep
  <1>3. CASE UNCHANGED ev_vars
    BY <1>3 DEF ev_vars, machine, BoundInv, Sound, Bound
  <1> QED  BY <1>1, <1>2, <1>3 DEF EvidenceNext

\* "Source-bound": whatever is edited, built and switched beside the captures, a passed
\* receipt speaks of the output of the tree it names, and that output exists.
THEOREM ReceiptsBound == EvidenceSpec => []PassedIsBound
  <1>1. EvidenceInit => BoundInv  BY BoundStarts
  <1>2. BoundInv /\ [EvidenceNext]_ev_vars => BoundInv'  BY BoundCarried
  <1>3. BoundInv => PassedIsBound  BY DEF BoundInv, Bound, PassedIsBound
  <1> QED  BY <1>1, <1>2, <1>3, PTL DEF EvidenceSpec

-----------------------------------------------------------------------------
(* The evidence collector: which receipt is the latest. *)

\* Captures end one by one; while the clock runs forward they are dated in that order.
EndInv ==
  /\ endings \in Nat /\ forward \in BOOLEAN
  /\ \A r \in stored : r.ended \in Nat /\ r.ended <= endings /\ r.finished \in Nat
  /\ \A r, q \in stored : r.ended = q.ended => r = q
  /\ forward => /\ \A r \in stored : r.finished <= time
                /\ \A r, q \in stored : r.ended < q.ended => r.finished <= q.finished

\* A receipt that is stored is the last to have ended.
LEMMA EndAppended ==
  ASSUME EndInv, time \in Nat, UNCHANGED machine, endings' = endings + 1,
         \/ stored' = stored
         \/ \E what : stored' = stored \cup
              {[receipt |-> what, finished |-> time, ended |-> endings']}
  PROVE  EndInv'
  <1>1. CASE stored' = stored  BY <1>1 DEF EndInv, machine
  <1>2. CASE \E what : stored' = stored \cup
               {[receipt |-> what, finished |-> time, ended |-> endings']}
    <2>1. PICK what : stored' = stored \cup
                            {[receipt |-> what, finished |-> time, ended |-> endings']}
      BY <1>2
    <2> DEFINE new == [receipt |-> what, finished |-> time, ended |-> endings']
    <2>2. stored' = stored \cup {new} /\ new.finished = time /\ new.ended = endings + 1
      BY <2>1
    <2> HIDE DEF new
    <2> QED  BY <2>2 DEF EndInv, machine
  <1> QED  BY <1>1, <1>2

\* Only the end of a capture stores anything, and only setting the clock back breaks
\* the order of the dates.
LEMMA EndCarried == ASSUME BoundInv, EndInv, [EvidenceNext]_ev_vars PROVE EndInv'
  <1>1. time \in Nat  BY EvidenceAssumption DEF BoundInv
  <1>2. CASE World
    <2>1. UNCHANGED <<stored, endings>>  BY <1>2 DEF World
    <2>2. \/ SetClockBack
          \/ forward' = forward /\ (time' = time \/ time' = time + 1)
      BY <1>2 DEF World, Edit, Reconfigure, Build, Switch, PassTime
    <2>3. CASE SetClockBack
      <3>1. forward' = FALSE  BY <2>3 DEF SetClockBack
      <3> QED  BY <2>1, <3>1 DEF EndInv
    <2>4. CASE forward' = forward /\ (time' = time \/ time' = time + 1)
      <3>1. \A r \in stored : r.finished <= time => r.finished <= time'
        BY <1>1, <2>4 DEF EndInv
      <3> QED  BY <2>1, <2>4, <3>1 DEF EndInv
    <2> QED  BY <2>2, <2>3, <2>4
  <1>3. ASSUME NEW c \in Captures, StoreReceipt(c) \/ Skip(c) PROVE EndInv'
    <2>1. /\ UNCHANGED machine /\ endings' = endings + 1
          /\ \/ stored' = stored
             \/ \E what : stored' = stored \cup
                  {[receipt |-> what, finished |-> time, ended |-> endings']}
      BY <1>3 DEF StoreReceipt, Skip
    <2> QED  BY <1>1, <2>1, EndAppended
  <1>4. ASSUME NEW c \in Captures, CaptureStep(c), ~StoreReceipt(c), ~Skip(c) PROVE EndInv'
    <2>1. UNCHANGED <<machine, stored, endings>>
      BY <1>4
      DEF CaptureStep, BeginCapture, Observe, StartTrial, Fork, LeaderExits, ChildExits, Expire, Reap,
          StartFails, Abort, Unwind, Vanish, Waited
    <2>2. UNCHANGED <<time, forward, stored, endings>>  BY <2>1 DEF machine
    <2> QED  BY <2>2 DEF EndInv
  <1>5. CASE UNCHANGED ev_vars  BY <1>5 DEF EndInv, ev_vars, machine
  <1> QED  BY <1>2, <1>3, <1>4, <1>5 DEF EvidenceNext

\* "Preserving failed and skipped checks": whatever captures run beside each other, a
\* required check passes only on the receipt that ended last.
THEOREM LatestDecides == EvidenceSpec => []LatestVerdict
  <1>1. EvidenceInit => BoundInv /\ EndInv
    <2>1. EvidenceInit => EndInv  BY DEF EvidenceInit, EndInv
    <2> QED  BY <2>1, BoundStarts
  <1>2. BoundInv /\ EndInv /\ [EvidenceNext]_ev_vars => (BoundInv /\ EndInv)'
    BY BoundCarried, EndCarried
  <1>3. BoundInv /\ EndInv => LatestVerdict
    <2> SUFFICES ASSUME BoundInv, EndInv, CoveragePassed, forward, NEW stage \in Required
                 PROVE  \E r \in ForSource(stage) :
                          r.receipt.status = "passed" /\ \A q \in ForSource(stage) :
                            q.receipt.status # "passed" => q.ended < r.ended
      BY DEF LatestVerdict
    <2>1. PICK r \in ForSource(stage) :
            r.receipt.status = "passed" /\ \A q \in ForSource(stage) : Later(r, q)
      BY DEF CoveragePassed
    <2>2. ASSUME NEW q \in ForSource(stage), q.receipt.status # "passed" PROVE q.ended < r.ended
      <3>1. q \in stored /\ r \in stored  BY DEF ForSource
      <3>2. Severity[q.receipt.status] \in {1, 2, 3} /\ Severity[r.receipt.status] = 0
        BY <2>1, <2>2, <3>1 DEF BoundInv, Records, Statuses, Severity
      <3>3. r.finished > q.finished  BY <2>1, <2>2, <3>1, <3>2 DEF Later, EndInv
      <3> QED  BY <3>1, <3>3 DEF EndInv
    <2> QED  BY <2>1, <2>2
  <1> QED  BY <1>1, <1>2, <1>3, PTL DEF EvidenceSpec

-----------------------------------------------------------------------------
(* The evidence collector: trials and types. *)

DoneCaptures == {c \in Captures : job[c] = "done"}

Early == {"idle", "candidate", "before", "match", "trials"}

\* A capture still owes trials until its last one is reaped, and no more captures have
\* ended than are done.
CountInv ==
  /\ \A c \in Captures :
       /\ record[c].good <= record[c].expected
       /\ job[c] \in Early \cup {"running", "refused"} => record[c].good < record[c].expected
  /\ endings \in Nat /\ endings <= Cardinality(DoneCaptures)

\* What outlives its trial has shared the session with another user's process, and the
\* capture still owes a trial.
Outlived(c) ==
  group[c] # {} /\ job[c] \notin {"running", "aborting", "refused", "done"} =>
    /\ shared[c] /\ job[c] \notin Early
    /\ record[c].good # record[c].expected /\ record[c].status # "passed"

TrialInv ==
  /\ group \in [Captures -> SUBSET (Own \cup Foreign)] /\ shared \in [Captures -> BOOLEAN]
  /\ \A c \in Captures :
       /\ group[c] \cap Foreign # {} \/ job[c] = "refused" => shared[c]
       /\ Outlived(c)

EvidenceInv == EvidenceTypeOK /\ BoundInv /\ TrialInv /\ EndInv /\ CountInv

\* The number of trials asked for is positive.
LEMMA TrialsAsked == \A r \in Records : r.good \in Nat /\ r.expected \in Nat \ {0}
  <1>1. \A n \in Counts \cup {1} : n \in Nat \ {0}  BY EvidenceAssumption DEF Counts
  <1> QED  BY <1>1 DEF Records

\* Whoever is done stays done, and a capture that ends was not done.
LEMMA DoneCounted ==
  ASSUME EvidenceInv, [EvidenceNext]_ev_vars
  PROVE  /\ IsFiniteSet(DoneCaptures) /\ IsFiniteSet(DoneCaptures') /\ DoneCaptures \subseteq DoneCaptures'
         /\ Cardinality(DoneCaptures) \in Nat /\ Cardinality(DoneCaptures') \in Nat
         /\ Cardinality(DoneCaptures) <= Cardinality(DoneCaptures')
         /\ \/ endings' = endings
            \/ endings' = endings + 1 /\ Cardinality(DoneCaptures') = Cardinality(DoneCaptures) + 1
  <1>1. IsFiniteSet(DoneCaptures) /\ IsFiniteSet(DoneCaptures')
    <2>1. DoneCaptures \subseteq Captures /\ DoneCaptures' \subseteq Captures  BY DEF DoneCaptures
    <2> QED  BY <2>1, FS_Subset, EvidenceAssumption
  <1>2. Cardinality(DoneCaptures) \in Nat /\ Cardinality(DoneCaptures') \in Nat
    BY <1>1, FS_CardinalityType
  <1>3. job \in [Captures -> Jobs]  BY DEF EvidenceInv, BoundInv
  <1>4. CASE World \/ UNCHANGED ev_vars
    <2>1. UNCHANGED <<job, endings>>  BY <1>4 DEF World, ev_vars
    <2> QED  BY <1>1, <1>2, <2>1 DEF DoneCaptures
  <1>5. ASSUME NEW c \in Captures, StoreReceipt(c) \/ Skip(c)
        PROVE  /\ DoneCaptures \subseteq DoneCaptures' /\ endings' = endings + 1
               /\ Cardinality(DoneCaptures') = Cardinality(DoneCaptures) + 1
    <2>1. job' = [job EXCEPT ![c] = "done"] /\ job[c] # "done" /\ endings' = endings + 1
      BY <1>5 DEF StoreReceipt, Skip, Step
    <2>2. DoneCaptures' = DoneCaptures \cup {c} /\ c \notin DoneCaptures  BY <1>3, <2>1 DEF DoneCaptures
    <2> QED  BY <1>1, <2>1, <2>2, FS_AddElement
  <1>6. ASSUME NEW c \in Captures, CaptureStep(c), ~StoreReceipt(c), ~Skip(c)
        PROVE  endings' = endings /\ DoneCaptures \subseteq DoneCaptures'
    <2>1. endings' = endings
      BY <1>6
      DEF CaptureStep, BeginCapture, Observe, StartTrial, Fork, LeaderExits, ChildExits, Expire, Reap,
          StartFails, Abort, Unwind, Vanish, Waited
    <2>2. job[c] = "done" => job' = job
      BY <1>6
      DEF CaptureStep, BeginCapture, Observe, StartTrial, Fork, LeaderExits, ChildExits, Expire, Reap,
          StartFails, Abort, Unwind, Vanish, Waited, Step, Candidate, Before, Match, After, Realised, Stable, SourceAfter,
          MatchAfter, NixFails
    <2>3. \A d \in Captures : d # c => job'[d] = job[d]
      BY <1>3, <1>6
      DEF CaptureStep, BeginCapture, Observe, StartTrial, Fork, LeaderExits, ChildExits, Expire, Reap,
          StartFails, Abort, Unwind, Vanish, Waited, Step, Candidate, Before, Match, After, Realised, Stable, SourceAfter,
          MatchAfter, NixFails
    <2> QED  BY <2>1, <2>2, <2>3 DEF DoneCaptures
  <1>7. DoneCaptures \subseteq DoneCaptures' => Cardinality(DoneCaptures) <= Cardinality(DoneCaptures')
    BY <1>1, FS_Subset
  <1>8. \/ World \/ UNCHANGED ev_vars
        \/ \E c \in Captures : StoreReceipt(c) \/ Skip(c)
        \/ \E c \in Captures : CaptureStep(c) /\ ~StoreReceipt(c) /\ ~Skip(c)
    BY DEF EvidenceNext
  <1> QED  BY <1>1, <1>2, <1>4, <1>5, <1>6, <1>7, <1>8

\* An observation counts no trial, and passes only a capture whose trials all succeeded.
LEMMA Observed ==
  ASSUME record \in [Captures -> Records], NEW c \in Captures, Observe(c)
  PROVE  /\ record'[c].good = record[c].good /\ record'[c].expected = record[c].expected
         /\ record'[c].status = "passed" => record[c].status = "passed" \/ Successful(record[c])
  <1>1. CASE Candidate(c)
    <2>1. \/ \E path : record' = [record EXCEPT ![c] = [record[c] EXCEPT !.path = path]]
          \/ \E path : record' =
               [record EXCEPT ![c] = [record[c] EXCEPT !.path = path, !.built = TRUE]]
          \/ record' = [record EXCEPT ![c] = [record[c] EXCEPT !.status = "invalid"]]
      BY <1>1 DEF Candidate, Note, Conclude
    <2>2. PICK r : /\ record' = [record EXCEPT ![c] = r]
                   /\ \/ \E path : r = [record[c] EXCEPT !.path = path]
                      \/ \E path : r = [record[c] EXCEPT !.path = path, !.built = TRUE]
                      \/ r = [record[c] EXCEPT !.status = "invalid"]
      BY <2>1, Zenon
    <2>3. record'[c] = r  BY <2>2
    <2>4. record[c] \in Records  OBVIOUS
    <2>5. CASE \E path : r = [record[c] EXCEPT !.path = path]
      BY <2>3, <2>4, <2>5 DEF Records
    <2>6. CASE \E path : r = [record[c] EXCEPT !.path = path, !.built = TRUE]
      BY <2>3, <2>4, <2>6 DEF Records
    <2>7. CASE r = [record[c] EXCEPT !.status = "invalid"]
      BY <2>3, <2>4, <2>7 DEF Records
    <2> QED  BY <2>2, <2>5, <2>6, <2>7
  <1>2. CASE ~Candidate(c)
    BY <1>2 DEF Observe, Before, Match, After, Realised, Stable, SourceAfter, MatchAfter,
       NixFails, Note, Conclude, Records
  <1> QED  BY <1>1, <1>2

\* Nobody works on a capture that is done; trials are reaped one by one, up to the number
\* asked for.
LEMMA TrialsCounted ==
  ASSUME EvidenceInv, [EvidenceNext]_ev_vars, NEW c \in Captures
  PROVE  /\ record'[c].good <= record'[c].expected
         /\ job'[c] \in Early \cup {"running", "refused"} => record'[c].good < record'[c].expected
  <1> DEFINE early == Early \cup {"running", "refused"}
             Counted(r, step) == r.good <= r.expected /\ (step \in early => r.good < r.expected)
  <1>1. /\ record \in [Captures -> Records] /\ job \in [Captures -> Jobs]
        /\ record' \in [Captures -> Records]
    BY BoundCarried DEF EvidenceInv, BoundInv
  <1>2. /\ record[c].good \in Nat /\ record[c].expected \in Nat /\ record[c].good + 1 \in Nat
        /\ Counted(record[c], job[c]) /\ Counted(Blank, "idle") /\ Counted(Blank, "done")
    BY <1>1, TrialsAsked DEF EvidenceInv, CountInv, Blank
  <1>3. CASE record'[c] = record[c] /\ job'[c] = job[c]  BY <1>2, <1>3
  <1>4. CASE BeginCapture(c)
    <2>1. PICK stage \in CapturedPhases[c], n \in Repeats[c] :
            record' = [record EXCEPT ![c] =
              [Blank EXCEPT !.phase = stage, !.expected = n, !.source = tree,
                            !.settings = settings, !.date = time]]
      BY <1>4 DEF BeginCapture, Note
    <2>2. record'[c].good = 0 /\ record'[c].expected = n  BY <1>1, <2>1 DEF Blank
    <2>3. n \in Nat \ {0}  BY EvidenceAssumption
    <2> QED  BY <2>2, <2>3
  <1>5. CASE Observe(c)
    <2>1. record'[c].good = record[c].good /\ record'[c].expected = record[c].expected
      BY <1>1, <1>5, Observed
    <2>2. job'[c] \in early => job[c] \in early
      BY <1>1, <1>5 DEF Early, Observe, Candidate, Before, Match, After, Realised, Stable, SourceAfter,
         MatchAfter, NixFails, Step
    <2> QED  BY <1>2, <2>1, <2>2
  <1>6. CASE StartTrial(c) \/ StartFails(c)
    <2>1. record' = record /\ job[c] = "trials"  BY <1>6 DEF StartTrial, StartFails, Step
    <2> QED  BY <1>2, <2>1 DEF Early
  <1>7. CASE Reap(c)
    <2>1. PICK n \in {record[c].good, record[c].good + 1} :
            /\ record' = [record EXCEPT ![c] = [record[c] EXCEPT !.good = n]]
            /\ job[c] = "running" /\ job'[c] \in {"trials", "after"}
            /\ job'[c] = "trials" => n # record[c].expected
      <3> DEFINE clean == leader[c] = "zero" /\ ~expired[c] /\ group[c] = {}
                 r == [record[c] EXCEPT !.good = IF clean THEN @ + 1 ELSE @]
      <3>1. /\ record' = [record EXCEPT ![c] = r] /\ job[c] = "running"
            /\ job'[c] = IF clean /\ ~Successful(r) THEN "trials" ELSE "after"
        BY <1>1, <1>7 DEF Reap, Note, Step
      <3>2. CASE clean
        <4>1. r = [record[c] EXCEPT !.good = record[c].good + 1]  BY <3>2
        <4>2. Successful(r) <=> record[c].good + 1 = record[c].expected
          BY <1>1, <4>1 DEF Successful, Records
        <4> HIDE DEF r, clean
        <4> QED  BY <3>1, <3>2, <4>1, <4>2
      <3>3. CASE ~clean
        <4>1. r = [record[c] EXCEPT !.good = record[c].good]  BY <3>3
        <4> HIDE DEF r, clean
        <4> QED  BY <3>1, <3>3, <4>1
      <3> QED  BY <3>2, <3>3
    <2>2. record'[c].good = n /\ record'[c].expected = record[c].expected
      BY <1>1, <2>1 DEF Records
    <2>3. record[c].good < record[c].expected  BY <1>2, <2>1
    <2> QED  BY <1>2, <2>1, <2>2, <2>3 DEF Early
  <1>8. CASE Abort(c) \/ Unwind(c) \/ Vanish(c) \/ StoreReceipt(c)
    <2>1. \/ record'[c] = Blank /\ job'[c] \in {"aborting", "done"}
          \/ record'[c] = record[c] /\ job[c] = "running" /\ job'[c] = "refused"
          \/ record'[c] = record[c] /\ job'[c] \in {"done", "after"}
      BY <1>1, <1>8 DEF Abort, Unwind, Vanish, StoreReceipt, Note, Step
    <2>2. CASE record'[c] = Blank /\ job'[c] \in {"aborting", "done"}
      BY <1>2, <2>2 DEF Early
    <2>3. CASE record'[c] = record[c] /\ job[c] = "running" /\ job'[c] = "refused"
      BY <1>2, <2>3
    <2>4. CASE record'[c] = record[c] /\ job'[c] \in {"done", "after"}
      BY <1>2, <2>4 DEF Early
    <2> QED  BY <2>1, <2>2, <2>3, <2>4
  <1>9. CASE Skip(c)
    <2>1. record'[c] = record[c] /\ job'[c] = "done"  BY <1>1, <1>9 DEF Skip, Step
    <2> QED  BY <1>2, <2>1 DEF Early
  <1>10. CASE Fork(c) \/ LeaderExits(c) \/ ChildExits(c) \/ Expire(c) \/ World \/ UNCHANGED ev_vars
    <2>1. UNCHANGED <<job, record>>
      BY <1>10 DEF Fork, LeaderExits, ChildExits, Expire, World, ev_vars
    <2> QED  BY <1>3, <2>1
  <1>11. ASSUME NEW d \in Captures \ {c}, CaptureStep(d)
         PROVE  record'[c] = record[c] /\ job'[c] = job[c]
    BY <1>1, <1>11
    DEF CaptureStep, BeginCapture, Observe, StartTrial, Fork, LeaderExits, ChildExits, Expire, Reap,
        StartFails, Abort, Unwind, Vanish, Waited, StoreReceipt, Skip, Step, Note, Conclude, Candidate, Before, Match, After,
        Realised, Stable, SourceAfter, MatchAfter, NixFails
  <1> HIDE DEF early, Counted
  <1> QED
    BY <1>3, <1>4, <1>5, <1>6, <1>7, <1>8, <1>9, <1>10, <1>11 DEF EvidenceNext, CaptureStep

\* The machine moves within its bounds.
LEMMA MachineTyped ==
  ASSUME EvidenceInv, [EvidenceNext]_ev_vars
  PROVE  moves' \in 0..MaxMoves /\ forward' \in BOOLEAN
  <1>1. moves \in 0..MaxMoves /\ forward \in BOOLEAN  BY DEF EvidenceInv, EvidenceTypeOK
  <1>2. CASE World
    <2>1. moves < MaxMoves /\ moves' = moves + 1  BY <1>2 DEF World
    <2>2. forward' \in {forward, FALSE}
      BY <1>2 DEF World, Edit, Reconfigure, Build, Switch, PassTime, SetClockBack
    <2>3. moves' \in 0..MaxMoves  BY <1>1, <2>1, EvidenceAssumption
    <2> QED  BY <1>1, <2>2, <2>3
  <1>3. CASE UNCHANGED machine \/ UNCHANGED ev_vars  BY <1>1, <1>3 DEF machine, ev_vars
  <1>4. ASSUME NEW c \in Captures, CaptureStep(c) PROVE UNCHANGED machine
    BY <1>4
    DEF CaptureStep, BeginCapture, Observe, StartTrial, Fork, LeaderExits, ChildExits, Expire, Reap,
        StartFails, Abort, Unwind, Vanish, Waited, StoreReceipt, Skip
  <1> QED  BY <1>2, <1>3, <1>4 DEF EvidenceNext

\* So do the processes of a trial.
LEMMA ProcessTyped ==
  ASSUME EvidenceInv, [EvidenceNext]_ev_vars
  PROVE  /\ leader' \in [Captures -> {"none", "running", "zero", "nonzero"}]
         /\ expired' \in [Captures -> BOOLEAN]
  <1> USE DEF EvidenceInv, EvidenceTypeOK
  <1>1. CASE World \/ UNCHANGED ev_vars  BY <1>1 DEF World, ev_vars, process
  <1>2. ASSUME NEW c \in Captures,
               BeginCapture(c) \/ Observe(c) \/ StartFails(c) \/ StoreReceipt(c) \/ Skip(c) \/ Fork(c)
                 \/ ChildExits(c)
        PROVE  UNCHANGED <<leader, expired>>
    BY <1>2 DEF BeginCapture, Observe, StartFails, StoreReceipt, Skip, Fork, ChildExits, process
  <1>3. ASSUME NEW c \in Captures,
               StartTrial(c) \/ LeaderExits(c) \/ Expire(c) \/ Reap(c) \/ Abort(c) \/ Unwind(c)
                 \/ Vanish(c)
        PROVE  /\ leader' \in [Captures -> {"none", "running", "zero", "nonzero"}]
               /\ expired' \in [Captures -> BOOLEAN]
    BY <1>3 DEF StartTrial, LeaderExits, Expire, Reap, Abort, Unwind, Vanish, Waited
  <1> QED  BY <1>1, <1>2, <1>3 DEF EvidenceNext, CaptureStep

\* What is stored was dated when its capture ended, and counted then.
LEMMA StoredTyped ==
  ASSUME EvidenceInv, [EvidenceNext]_ev_vars, NEW r \in stored'
  PROVE  r.finished \in 1..MaxTime /\ r.ended \in 1..endings'
  <1>1. \A q \in stored : q.finished \in 1..MaxTime /\ q.ended \in 1..endings
    BY DEF EvidenceInv, EvidenceTypeOK
  <1>2. endings \in Nat /\ time \in 1..MaxTime  BY DEF EvidenceInv, EndInv, BoundInv
  <1>3. endings' = endings \/ endings' = endings + 1  BY DoneCounted
  <1>4. r \in stored \/ (r.finished = time /\ r.ended = endings' /\ endings' = endings + 1)
    <2>1. CASE stored' = stored  BY <2>1
    <2>2. ASSUME NEW c \in Captures, StoreReceipt(c) \/ Skip(c)
          PROVE  r \in stored \/ (r.finished = time /\ r.ended = endings' /\ endings' = endings + 1)
      <3>1. CASE StoreReceipt(c)
        <4>1. endings' = endings + 1
              /\ stored' \in {stored, stored \cup {[receipt |-> record[c], finished |-> time,
                                                    ended |-> endings']}}
          BY <3>1 DEF StoreReceipt
        <4> QED  BY <4>1
      <3>2. CASE Skip(c)
        <4>1. PICK what : stored' = stored \cup {[receipt |-> what, finished |-> time,
                                                   ended |-> endings']}
          BY <3>2 DEF Skip
        <4>2. endings' = endings + 1  BY <3>2 DEF Skip
        <4> QED  BY <4>1, <4>2
      <3> QED  BY <2>2, <3>1, <3>2
    <2>3. ASSUME NEW c \in Captures, CaptureStep(c), ~StoreReceipt(c), ~Skip(c) PROVE stored' = stored
      BY <2>3
      DEF CaptureStep, BeginCapture, Observe, StartTrial, Fork, LeaderExits, ChildExits, Expire, Reap,
          StartFails, Abort, Unwind, Vanish, Waited
    <2>4. World \/ UNCHANGED ev_vars => stored' = stored  BY DEF World, ev_vars
    <2> QED  BY <2>1, <2>2, <2>3, <2>4 DEF EvidenceNext
  <1> QED  BY <1>1, <1>2, <1>3, <1>4

\* No capture has started anything.
LEMMA TrialStarts == EvidenceInit => TrialInv
  BY DEF EvidenceInit, TrialInv, Outlived

\* A session gains processes only while its trial runs, or from what another user's left
\* of it; where such a process may stay, the trial that is reaped is not counted.
LEMMA TrialCarried == ASSUME EvidenceInv, [EvidenceNext]_ev_vars PROVE TrialInv'
  <1>1. /\ record \in [Captures -> Records] /\ job \in [Captures -> Jobs]
        /\ record' \in [Captures -> Records]
    BY BoundCarried DEF EvidenceInv, BoundInv
  <1>2. \A c \in Captures : /\ Sound(record[c], job[c], tree, realised)
                            /\ job[c] \in {"running", "refused"} => record[c].good < record[c].expected
                            /\ record[c].good \in Nat /\ record[c].expected \in Nat
    BY <1>1, TrialsAsked DEF EvidenceInv, BoundInv, CountInv
  <1>3. TrialInv  BY DEF EvidenceInv
  <1>4. CASE World \/ UNCHANGED ev_vars
    <2>1. UNCHANGED <<job, record, group, shared>>  BY <1>4 DEF World, ev_vars, process
    <2> QED  BY <1>3, <2>1 DEF TrialInv, Outlived
  <1>5. ASSUME NEW c \in Captures, BeginCapture(c) \/ StartFails(c) \/ StoreReceipt(c) \/ Skip(c)
        PROVE TrialInv'
    <2>1. UNCHANGED <<group, shared>>
      BY <1>5 DEF BeginCapture, StartFails, StoreReceipt, Skip, process
    <2>2. PICK to \in {"candidate", "after", "done"} : job' = [job EXCEPT ![c] = to]
      BY <1>5 DEF BeginCapture, StartFails, StoreReceipt, Skip, Step
    <2>3. job[c] \in Early \/ to = "done"
      BY <1>1, <1>5, <2>2 DEF BeginCapture, StartFails, StoreReceipt, Skip, Step, Early
    <2>4. \A d \in Captures \ {c} : record'[d] = record[d]
      BY <1>1, <1>5 DEF BeginCapture, StartFails, StoreReceipt, Skip, Note
    <2>5. Early \cap {"running", "aborting", "refused", "done"} = {}  BY DEF Early
    <2> QED  BY <1>1, <1>3, <2>1, <2>2, <2>3, <2>4, <2>5 DEF TrialInv, Outlived
  <1>6. ASSUME NEW c \in Captures, Observe(c) PROVE TrialInv'
    <2>1. UNCHANGED <<group, shared>>  BY <1>6 DEF Observe, process
    <2>2. /\ job'[c] \notin {"running", "aborting", "refused", "done"}
          /\ job[c] \notin {"running", "aborting", "refused", "done"}
          /\ job'[c] \in Early => job[c] \in Early
      BY <1>1, <1>6 DEF Observe, Candidate, Before, Match, After, Realised, Stable, SourceAfter,
                       MatchAfter, NixFails, Step, Early
    <2>3. \A d \in Captures \ {c} : record'[d] = record[d] /\ job'[d] = job[d]
      BY <1>1, <1>6 DEF Observe, Candidate, Before, Match, After, Realised, Stable, SourceAfter,
                       MatchAfter, NixFails, Step, Note, Conclude
    <2>4. /\ record'[c].good = record[c].good /\ record'[c].expected = record[c].expected
          /\ record'[c].status = "passed" => record[c].status = "passed" \/ Successful(record[c])
      BY <1>1, <1>6, Observed
    <2> QED  BY <1>3, <2>1, <2>2, <2>3, <2>4 DEF TrialInv, Outlived, Successful
  <1>7. ASSUME NEW c \in Captures, StartTrial(c) PROVE TrialInv'
    <2>1. PICK p \in Leaders : Joins(c, p)  BY <1>7 DEF StartTrial
    <2>2. job' = [job EXCEPT ![c] = "running"] /\ record' = record  BY <1>7 DEF StartTrial, Step
    <2> QED  BY <1>1, <1>3, <2>1, <2>2 DEF TrialInv, Outlived, Joins, Own, Foreign, Leaders
  <1>8. ASSUME NEW c \in Captures, Fork(c) PROVE TrialInv'
    <2>1. PICK p \in Own \cup Foreign : Joins(c, p)
      BY <1>8, EvidenceAssumption DEF Fork
    <2>2. UNCHANGED <<job, record>> /\ group[c] # {}  BY <1>8 DEF Fork
    <2> QED  BY <1>3, <2>1, <2>2 DEF TrialInv, Outlived, Joins
  <1>9. ASSUME NEW c \in Captures, LeaderExits(c) \/ ChildExits(c) \/ Expire(c) PROVE TrialInv'
    <2>1. PICK gone \in SUBSET group[c] : group' = [group EXCEPT ![c] = @ \ gone]
      <3>1. CASE LeaderExits(c) \/ ChildExits(c)
        <4>1. PICK p \in group[c] : group' = [group EXCEPT ![c] = @ \ {p}]
          BY <3>1 DEF LeaderExits, ChildExits
        <4> QED  BY <4>1
      <3>2. CASE Expire(c)
        <4>1. group' = [group EXCEPT ![c] = @ \ (group[c] \cap Own)]
          BY <1>3, <3>2 DEF Expire, KillGroup, TrialInv
        <4> QED  BY <4>1
      <3> QED  BY <1>9, <3>1, <3>2
    <2>2. UNCHANGED <<job, record, shared>>  BY <1>9 DEF LeaderExits, ChildExits, Expire
    <2> QED  BY <1>3, <2>1, <2>2 DEF TrialInv, Outlived
  <1>10. ASSUME NEW c \in Captures, Reap(c) PROVE TrialInv'
    <2>1. /\ group' = [group EXCEPT ![c] = @ \ Own]
          /\ shared' = [shared EXCEPT ![c] = @ /\ group[c] # {}]
          /\ job[c] = "running"
      BY <1>3, <1>10 DEF Reap, Remaining, Waited, Step, TrialInv
    <2>2. PICK n \in {record[c].good, record[c].good + 1}, to \in {"trials", "after"} :
            /\ record' = [record EXCEPT ![c] = [record[c] EXCEPT !.good = n]]
            /\ job' = [job EXCEPT ![c] = to]
            /\ group[c] # {} => n = record[c].good /\ to = "after"
      <3> DEFINE clean == leader[c] = "zero" /\ ~expired[c] /\ group[c] = {}
                 r == [record[c] EXCEPT !.good = IF clean THEN @ + 1 ELSE @]
      <3>1. /\ record' = [record EXCEPT ![c] = r]
            /\ job' = [job EXCEPT ![c] = IF clean /\ ~Successful(r) THEN "trials" ELSE "after"]
        BY <1>10 DEF Reap, Note, Step
      <3>2. r = [record[c] EXCEPT !.good = IF clean THEN record[c].good + 1 ELSE record[c].good]
        OBVIOUS
      <3>3. CASE clean
        <4>1. r = [record[c] EXCEPT !.good = record[c].good + 1]  BY <3>2, <3>3
        <4> HIDE DEF r
        <4> QED  BY <3>1, <3>3, <4>1
      <3>4. CASE ~clean
        <4>1. r = [record[c] EXCEPT !.good = record[c].good]  BY <3>2, <3>4
        <4> HIDE DEF r
        <4>2. job' = [job EXCEPT ![c] = "after"]  BY <3>1, <3>4
        <4> QED  BY <3>1, <4>1, <4>2
      <3> QED  BY <3>3, <3>4
    <2>3. /\ record'[c].good = n /\ record'[c].expected = record[c].expected
          /\ record'[c].status = record[c].status /\ job'[c] = to
          /\ \A d \in Captures \ {c} : record'[d] = record[d] /\ job'[d] = job[d]
      BY <1>1, <2>2 DEF Records
    <2>4. group'[c] # {} => group[c] \cap Foreign # {} /\ shared'[c]
      BY <1>3, <2>1 DEF TrialInv
    <2>5. Outlived(c)'
      <3>1. record[c].status # "passed"  BY <1>2, <2>1 DEF Sound
      <3>2. record[c].good # record[c].expected  BY <1>2, <2>1
      <3>3. "after" \notin Early  BY DEF Early
      <3> QED  BY <2>2, <2>3, <2>4, <3>1, <3>2, <3>3 DEF Outlived
    <2>6. \A d \in Captures \ {c} : Outlived(d)'
      BY <1>3, <2>1, <2>3 DEF TrialInv, Outlived
    <2>7. \A d \in Captures : group'[d] \cap Foreign # {} \/ job'[d] = "refused" => shared'[d]
      BY <1>3, <2>1, <2>2, <2>3 DEF TrialInv
    <2>8. group' \in [Captures -> SUBSET (Own \cup Foreign)] /\ shared' \in [Captures -> BOOLEAN]
      BY <1>3, <2>1 DEF TrialInv
    <2> QED  BY <2>5, <2>6, <2>7, <2>8 DEF TrialInv
  <1>11. ASSUME NEW c \in Captures, Abort(c) PROVE TrialInv'
    <2>1. /\ group' = [group EXCEPT ![c] = @ \ Own] /\ shared' = shared
          /\ \/ job' = [job EXCEPT ![c] = "aborting"]
             \/ job' = [job EXCEPT ![c] = "refused"] /\ shared[c]
      BY <1>11 DEF Abort, KillGroup, Step
    <2>2. \A d \in Captures \ {c} : record'[d] = record[d]  BY <1>1, <1>11 DEF Abort, Note
    <2> QED  BY <1>1, <1>3, <2>1, <2>2 DEF TrialInv, Outlived
  <1>12. ASSUME NEW c \in Captures, Unwind(c) PROVE TrialInv'
    <2>1. /\ group' = group /\ record' = record
          /\ shared' = [shared EXCEPT ![c] = @ /\ group[c] # {}]
          /\ \/ job' = [job EXCEPT ![c] = "done"]
             \/ job[c] = "refused" /\ job' = [job EXCEPT ![c] = "after"]
      BY <1>12 DEF Unwind, Waited, Step
    <2>2. job[c] = "refused" => record[c].good # record[c].expected /\ record[c].status # "passed"
      BY <1>2 DEF Sound
    <2>3. "after" \notin Early  BY DEF Early
    <2> QED  BY <1>1, <1>3, <2>1, <2>2, <2>3 DEF TrialInv, Outlived
  <1>13. ASSUME NEW c \in Captures, Vanish(c) PROVE TrialInv'
    <2>1. job' = [job EXCEPT ![c] = "done"] /\ UNCHANGED <<group, shared>>  BY <1>13 DEF Vanish
    <2>2. \A d \in Captures \ {c} : record'[d] = record[d]  BY <1>1, <1>13 DEF Vanish, Note
    <2> QED  BY <1>1, <1>3, <2>1, <2>2 DEF TrialInv, Outlived
  <1> QED
    BY <1>4, <1>5, <1>6, <1>7, <1>8, <1>9, <1>10, <1>11, <1>12, <1>13 DEF EvidenceNext, CaptureStep

\* The parts are inductive together.
LEMMA EvidenceStarts == EvidenceInit => EvidenceInv
  <1> SUFFICES ASSUME EvidenceInit PROVE EvidenceInv  OBVIOUS
  <1>1. BoundInv /\ TrialInv  BY BoundStarts, TrialStarts
  <1>2. EndInv  BY DEF EvidenceInit, EndInv
  <1>3. IsFiniteSet(DoneCaptures)
    <2>1. DoneCaptures \subseteq Captures  BY DEF DoneCaptures
    <2> QED  BY <2>1, FS_Subset, EvidenceAssumption
  <1>4. Cardinality(DoneCaptures) \in Nat /\ Cardinality(Captures) \in Nat
    BY <1>3, FS_CardinalityType, EvidenceAssumption
  <1>5. CountInv
    <2>1. \A c \in Captures : record[c].good = 0 /\ record[c].expected = 1
      BY DEF EvidenceInit, Blank
    <2> QED  BY <1>4, <2>1 DEF EvidenceInit, CountInv
  <1>6. EvidenceTypeOK
    BY <1>1, <1>4, <1>5, EvidenceAssumption
    DEF EvidenceInit, EvidenceTypeOK, BoundInv, TrialInv, CountInv, Jobs
  <1> QED  BY <1>1, <1>2, <1>5, <1>6 DEF EvidenceInv

LEMMA EvidenceCarried == ASSUME EvidenceInv, [EvidenceNext]_ev_vars PROVE EvidenceInv'
  <1>1. BoundInv' /\ TrialInv' /\ EndInv'
    BY BoundCarried, TrialCarried, EndCarried DEF EvidenceInv
  <1>2. CountInv'
    <2>1. endings \in Nat /\ endings <= Cardinality(DoneCaptures)  BY DEF EvidenceInv, CountInv
    <2>2. endings' \in Nat /\ endings' <= Cardinality(DoneCaptures')
      BY <2>1, DoneCounted
    <2> QED  BY <2>2, TrialsCounted DEF CountInv, DoneCaptures
  <1>3. endings' \in 0..Cardinality(Captures)
    <2>1. DoneCaptures' \subseteq Captures  BY DEF DoneCaptures
    <2>2. Cardinality(DoneCaptures') <= Cardinality(Captures) /\ Cardinality(Captures) \in Nat
      BY <2>1, FS_Subset, FS_CardinalityType, EvidenceAssumption
    <2>3. Cardinality(DoneCaptures') \in Nat  BY DoneCounted
    <2>4. endings' \in Nat /\ endings' <= Cardinality(DoneCaptures')
      BY <1>2 DEF CountInv, DoneCaptures
    <2> QED  BY <2>2, <2>3, <2>4
  <1>4. EvidenceTypeOK'
    BY <1>1, <1>2, <1>3, MachineTyped, ProcessTyped, StoredTyped
    DEF EvidenceTypeOK, BoundInv, TrialInv, CountInv, Jobs
  <1> QED  BY <1>1, <1>2, <1>4 DEF EvidenceInv

\* "Reject surviving background work": no trial runs beside what an earlier one started;
\* what outlives a trial has shared its session with another user's process, and its
\* capture does not pass.
THEOREM NothingSurvives == EvidenceSpec => []TrialsAlone
  <1>1. EvidenceInv => TrialsAlone  BY DEF EvidenceInv, TrialInv, Outlived, TrialsAlone, Early
  <1> QED  BY <1>1, EvidenceStarts, EvidenceCarried, PTL DEF EvidenceSpec

\* The machine, the captures and what they store stay within their types: no receipt
\* counts more trials than were asked for, and no capture ends twice.
THEOREM EvidenceTypeCorrect == EvidenceSpec => []EvidenceTypeOK
  <1>1. EvidenceInv => EvidenceTypeOK  BY DEF EvidenceInv
  <1> QED  BY <1>1, EvidenceStarts, EvidenceCarried, PTL DEF EvidenceSpec

-----------------------------------------------------------------------------
(* The backup receipts: what status shows. *)

Won(u)  == receipt[u[1]][Success[u[2]]]
Lost(u) == receipt[u[1]][Failure[u[2]]]

\* While the clock runs forward no receipt of a unit lies in the future, and its
\* latest failure is at least as late as its latest success.
StampInv ==
  /\ clock \in Nat \ {0}
  /\ receipt \in [Destinations -> [Receipts -> Nat]]
  /\ latest \in [Units -> {"none", "success", "failure"}] /\ steady \in [Units -> BOOLEAN]
  /\ \A u \in Units : steady[u] =>
       /\ Won(u) <= clock
       /\ latest[u] = "failure" => 0 < Lost(u) /\ Lost(u) <= clock /\ Won(u) <= Lost(u)

\* Every machine starts with receipts of the past.
LEMMA StampStarts == BackupInit => StampInv
  BY DEF BackupInit, StampInv, Won, Units, Operations, Receipts, Success, Failure

\* No phase shares its receipt with an outcome, and no two outcomes share theirs.
LEMMA ReceiptNames ==
  /\ \A o \in Operations : Success[o] \in Receipts /\ Failure[o] \in Receipts
  /\ \A o, p \in Operations : Success[o] # Failure[p]
  /\ \A o, p \in Operations : o # p => Success[o] # Success[p] /\ Failure[o] # Failure[p]
  /\ \A o \in Operations, r \in Checked : Success[o] # r /\ Failure[o] # r
  BY DEF Operations, Success, Failure, Receipts, Checked, Phases

\* An attempt that ends replaces one receipt of its own.
LEMMA FinishStamps == ASSUME StampInv, NEW u \in Units, Finish(u) PROVE StampInv'
  <1> DEFINE name == IF Failed(u) THEN Failure[u[2]] ELSE Success[u[2]]
  <1>1. u[1] \in Destinations /\ u[2] \in Operations  BY DEF Units
  <1>2. name \in Receipts  BY <1>1, ReceiptNames
  <1>3. /\ receipt' = [receipt EXCEPT ![u[1]][name] = clock]
        /\ latest' = [latest EXCEPT ![u] = IF Failed(u) THEN "failure" ELSE "success"]
        /\ steady' = [steady EXCEPT ![u] = @ \/ ~Failed(u) \/ Won(u) = 0]
        /\ clock' = clock
    BY DEF Finish, Failed, backup_world, Won
  <1>4. receipt' \in [Destinations -> [Receipts -> Nat]]
    BY <1>1, <1>2, <1>3 DEF StampInv
  <1>5. ASSUME NEW v \in Units, v # u, steady'[v]
        PROVE  /\ Won(v)' = Won(v) /\ Lost(v)' = Lost(v)
               /\ latest'[v] = latest[v] /\ steady[v]
    <2>1. v[1] \in Destinations /\ v[2] \in Operations /\ (v[1] = u[1] => v[2] # u[2])
      BY <1>5 DEF Units
    <2>2. v[1] = u[1] => Success[v[2]] # name /\ Failure[v[2]] # name
      BY <1>1, <2>1, ReceiptNames
    <2>3. Success[v[2]] \in Receipts /\ Failure[v[2]] \in Receipts
      BY <2>1, ReceiptNames
    <2> HIDE DEF name
    <2> QED  BY <1>1, <1>2, <1>3, <1>5, <2>1, <2>2, <2>3 DEF StampInv, Won, Lost
  <1>6. CASE Failed(u)
    <2>1. Lost(u)' = clock /\ Won(u)' = Won(u) /\ (steady'[u] => Won(u) <= clock)
      <3>1. Failure[u[2]] \in Receipts /\ Success[u[2]] \in Receipts /\ Success[u[2]] # Failure[u[2]]
        BY <1>1, ReceiptNames
      <3> QED  BY <1>1, <1>3, <1>6, <3>1 DEF StampInv, Won, Lost
    <2> QED  BY <1>3, <1>4, <1>5, <1>6, <2>1 DEF StampInv
  <1>7. CASE ~Failed(u)
    <2>1. Won(u)' = clock /\ latest'[u] = "success"
      <3>1. Success[u[2]] \in Receipts  BY <1>1, ReceiptNames
      <3> QED  BY <1>1, <1>3, <1>7, <3>1 DEF StampInv, Won
    <2> QED  BY <1>3, <1>4, <1>5, <1>7, <2>1 DEF StampInv
  <1> QED  BY <1>6, <1>7

\* A phase is stamped beside the outcomes, not over them.
LEMMA PhaseStamps ==
  ASSUME StampInv, NEW d \in Destinations, NEW stage \in Checked,
         receipt' = [receipt EXCEPT ![d][stage] = clock], UNCHANGED <<clock, latest, steady>>
  PROVE  StampInv'
  <1>1. receipt' \in [Destinations -> [Receipts -> Nat]]
    BY DEF StampInv
  <1>2. ASSUME NEW v \in Units PROVE Won(v)' = Won(v) /\ Lost(v)' = Lost(v)
    <2>1. v[1] \in Destinations /\ v[2] \in Operations  BY DEF Units
    <2>2. /\ Success[v[2]] # stage /\ Failure[v[2]] # stage
          /\ Success[v[2]] \in Receipts /\ Failure[v[2]] \in Receipts
      BY <2>1, ReceiptNames
    <2> QED  BY <2>1, <2>2 DEF StampInv, Won, Lost
  <1> QED  BY <1>1, <1>2 DEF StampInv

\* Setting the clock back gives up the claim; nothing else disturbs it.
LEMMA StampCarried == ASSUME StampInv, [BackupNext]_backup_vars PROVE StampInv'
  <1>1. ASSUME NEW u \in Units, UnitStep(u) PROVE StampInv'
    <2>1. CASE Finish(u)  BY <2>1, FinishStamps
    <2>2. CASE Stamp(u)
      <3>1. PICK stage \in Phases : receipt' = [receipt EXCEPT ![u[1]][stage] = clock]
        BY <2>2 DEF Stamp
      <3>2. UNCHANGED <<clock, latest, steady>>  BY <2>2 DEF Stamp, backup_world
      <3>3. u[1] \in Destinations /\ stage \in Checked  BY DEF Units, Checked
      <3> QED  BY <3>1, <3>2, <3>3, PhaseStamps
    <2>3. CASE ~Finish(u) /\ ~Stamp(u)
      <3>1. UNCHANGED <<clock, receipt, latest, steady>>
        BY <1>1, <2>3
        DEF UnitStep, Start, Guard, Quiesce, OpenCanary, FillCanary, Save, Check, Probe, Fail, Lose,
            backup_world, backup_disk, backup_history
      <3> QED  BY <3>1 DEF StampInv, Won, Lost
    <2> QED  BY <2>1, <2>2, <2>3
  <1>2. ASSUME NEW d \in Destinations, RecordDrill(d) PROVE StampInv'
    <2>1. UNCHANGED <<clock, latest, steady>> /\ "recovery-drill" \in Checked
      BY <1>2 DEF RecordDrill, backup_world, backup_history, Checked
    <2> QED  BY <1>2, <2>1, PhaseStamps DEF RecordDrill
  <1>3. CASE Tick
    <2>1. \A u \in Units : Won(u) \in Nat /\ Lost(u) \in Nat
      BY ReceiptNames DEF StampInv, Won, Lost, Units
    <2> QED  BY <1>3, <2>1 DEF Tick, StampInv, Won, Lost, backup_disk, backup_history
  <1>4. CASE SetBack
    BY <1>4 DEF SetBack, StampInv, backup_disk
  <1>5. CASE Disturb \/ Rescue \/ UNCHANGED backup_vars
    BY <1>5 DEF Disturb, Rescue, StampInv, Won, Lost, backup_vars, backup_world, backup_disk,
                backup_history
  <1> QED  BY <1>1, <1>2, <1>3, <1>4, <1>5 DEF BackupNext

\* "Keep a failed service result visible until that operation succeeds again", for any
\* number of destinations and whatever else is stamped between.
THEOREM FailuresStayVisible == BackupSpec => []FailureVisible
  <1>1. BackupInit => StampInv  BY StampStarts
  <1>2. StampInv /\ [BackupNext]_backup_vars => StampInv'  BY StampCarried
  <1>3. StampInv => FailureVisible
    <2> SUFFICES ASSUME StampInv, NEW u \in Units, latest[u] = "failure", steady[u]
                 PROVE  u[2] \in LatestFailed(u[1])
      BY DEF FailureVisible
    <2>1. 0 < Lost(u) /\ Lost(u) <= clock /\ Won(u) <= Lost(u)  BY DEF StampInv
    <2>2. u[1] \in Destinations /\ u[2] \in Operations  BY DEF Units
    <2>3. Won(u) \in Nat /\ Lost(u) \in Nat
      BY <2>2, ReceiptNames DEF StampInv, Won, Lost
    <2>4. ReadStamp(u[1], Failure[u[2]]) = Lost(u)
      BY <2>1, <2>3, BackupAssumption DEF ReadStamp, Lost, StampInv
    <2>5. ReadStamp(u[1], Success[u[2]]) <= Lost(u)
      BY <2>1, <2>3 DEF ReadStamp, Won, Lost
    <2> QED  BY <2>1, <2>2, <2>4, <2>5, <2>3 DEF LatestFailed
  <1> QED  BY <1>1, <1>2, <1>3, PTL DEF BackupSpec

-----------------------------------------------------------------------------
(* The backup receipts: what stands behind them. *)

\* What the attempt of a unit has done when it reaches a step.  A cold backup that was
\* disturbed still runs beside what disturbed it, until its second look.
Done(u) ==
  /\ u[2] = "backup" /\ at[u] = 5 => "saved" \in evidence[u]
  /\ u[2] = "verification" =>
       /\ at[u] = 3 => "checked" \in evidence[u]
       /\ at[u] = 7 => "matched" \in evidence[u]
  /\ u[2] = "cold" =>
       /\ at[u] \in 6..9 => "saved" \in evidence[u]
       /\ at[u] = 9 => "matched" \in evidence[u]
       /\ at[u] \in 0..2 \cup {7} => "disturbed" \notin evidence[u]
       /\ at[u] \in 3..6 /\ "disturbed" \in evidence[u] => active

ProofInv ==
  /\ at \in [Units -> Nat] /\ evidence \in [Units -> SUBSET Works]
  /\ receipt \in [Destinations -> [Receipts -> Nat]] /\ clock \in Nat \ {0}
  /\ proof \in [Destinations -> [Phases -> Nat]]
  /\ \A d \in Destinations, p \in Phases : proof[d][p] = receipt[d][p]
  /\ \A u \in Units : Done(u)

\* Where each step of a script stands.
LEMMA ScriptSteps ==
  ASSUME NEW u \in Units
  PROVE  /\ AtStep(u, "guard") => at[u] = 1
         /\ AtStep(u, "quiesce") => u[2] = "cold" /\ (at[u] = 2 \/ at[u] = 6)
         /\ AtStep(u, "open") => (u[2] = "backup" /\ at[u] = 2) \/ (u[2] = "verification" /\ at[u] = 4)
                                 \/ (u[2] = "cold" /\ at[u] = 3)
         /\ AtStep(u, "fill") => (u[2] = "backup" /\ at[u] = 3) \/ (u[2] = "verification" /\ at[u] = 5)
                                 \/ (u[2] = "cold" /\ at[u] = 4)
         /\ AtStep(u, "save") => (u[2] = "backup" /\ at[u] = 4) \/ (u[2] = "cold" /\ at[u] = 5)
         /\ AtStep(u, "check") => u[2] = "verification" /\ at[u] = 2
         /\ AtStep(u, "probe") => (u[2] = "verification" /\ at[u] = 6) \/ (u[2] = "cold" /\ at[u] = 8)
         /\ AtStep(u, "backup") => u[2] = "backup" /\ at[u] = 5
         /\ AtStep(u, "integrity") => u[2] = "verification" /\ at[u] = 3
         /\ AtStep(u, "restore") => u[2] = "verification" /\ at[u] = 7
         /\ AtStep(u, "cold-backup") => u[2] = "cold" /\ at[u] = 7
         /\ AtStep(u, "cold-restore") => u[2] = "cold" /\ at[u] = 9
  <1>1. u[2] \in Operations  BY DEF Units
  <1>2. CASE u[2] = "cold"
    <2>1. Script(u) = <<"guard", "quiesce", "open", "fill", "save", "quiesce", "cold-backup",
                        "probe", "cold-restore">>
      BY <1>2 DEF Script
    <2> QED  BY <1>2, <2>1 DEF AtStep
  <1>3. CASE u[2] = "backup"
    <2>1. Script(u) = <<"guard", "open", "fill", "save", "backup">>
      BY <1>3 DEF Script, HotScript
    <2> QED  BY <1>3, <2>1 DEF AtStep
  <1>4. CASE u[2] = "verification"
    <2>1. Script(u) = <<"guard", "check", "integrity", "open", "fill", "probe", "restore">>
      BY <1>4 DEF Script, HotScript
    <2> QED  BY <1>4, <2>1 DEF AtStep
  <1> QED  BY <1>1, <1>2, <1>3, <1>4 DEF Operations

\* The end of a script lies behind its last step.
LEMMA EndOfScript ==
  ASSUME NEW u \in Units
  PROVE  /\ Ended(u) \in {6, 8, 10}
         /\ u[2] = "backup" => Ended(u) = 6
         /\ u[2] = "verification" => Ended(u) = 8
         /\ u[2] = "cold" => Ended(u) = 10
  <1>1. u[2] \in Operations  BY DEF Units
  <1>2. CASE u[2] = "cold"
    <2>1. Len(Script(u)) = 9  BY <1>2 DEF Script
    <2> QED  BY <1>2, <2>1 DEF Ended
  <1>3. CASE u[2] = "backup"
    <2>1. Len(Script(u)) = 5  BY <1>3 DEF Script, HotScript
    <2> QED  BY <1>3, <2>1 DEF Ended
  <1>4. CASE u[2] = "verification"
    <2>1. Len(Script(u)) = 7  BY <1>4 DEF Script, HotScript
    <2> QED  BY <1>4, <2>1 DEF Ended
  <1> QED  BY <1>1, <1>2, <1>3, <1>4 DEF Operations

\* A new machine has proved nothing and stamped nothing; an old one has done both.
LEMMA ProofStarts == BackupInit => ProofInv
  <1> SUFFICES ASSUME BackupInit PROVE ProofInv  OBVIOUS
  <1>1. \A p \in Phases : p \in Receipts /\ p \notin {Failure[o] : o \in Operations}
    BY ReceiptNames DEF Receipts, Checked
  <1>2. PICK done \in BOOLEAN :
          /\ receipt = [d \in Destinations |-> [r \in Receipts |->
                          IF done /\ r \notin {Failure[o] : o \in Operations} THEN 1 ELSE 0]]
          /\ proof = [d \in Destinations |-> [p \in Phases |-> IF done THEN 1 ELSE 0]]
    BY DEF BackupInit
  <1>3. \A d \in Destinations, p \in Phases : proof[d][p] = receipt[d][p]
    BY <1>1, <1>2
  <1>4. /\ receipt \in [Destinations -> [Receipts -> Nat]]
        /\ proof \in [Destinations -> [Phases -> Nat]]
    BY <1>2
  <1>5. clock = 1 /\ at = [u \in Units |-> 0] /\ evidence = [u \in Units |-> {}]
    BY DEF BackupInit
  <1>6. \A u \in Units : Done(u)  BY <1>5 DEF Done
  <1> QED  BY <1>3, <1>4, <1>5, <1>6 DEF ProofInv

\* A step of a unit leaves the others where they were.
LEMMA UnitMoves ==
  ASSUME ProofInv, NEW u \in Units, NEW n \in Nat, NEW done \in SUBSET Works,
         at' = [at EXCEPT ![u] = n], evidence' = [evidence EXCEPT ![u] = done],
         UNCHANGED <<clock, active, receipt, proof>>, Done(u)'
  PROVE  ProofInv'
  <1>1. \A v \in Units : v # u => (Done(v)' <=> Done(v))  BY DEF ProofInv, Done
  <1> QED  BY <1>1 DEF ProofInv

\* A phase is stamped on what its receipt stands for.
LEMMA StampEarned == ASSUME ProofInv, NEW u \in Units, Stamp(u) PROVE ProofInv'
  <1>1. PICK stage \in Phases :
          /\ AtStep(u, stage)
          /\ receipt' = [receipt EXCEPT ![u[1]][stage] = clock]
          /\ proof' = [proof EXCEPT ![u[1]][stage] = IF Earned(u, stage) THEN clock ELSE 0]
    BY DEF Stamp
  <1>2. at' = [at EXCEPT ![u] = at[u] + 1] /\ UNCHANGED <<evidence, active, clock>>
    BY DEF Stamp, Move, backup_world
  <1>3. u[1] \in Destinations /\ u[2] \in Operations /\ Done(u)  BY DEF Units, ProofInv
  <1>4. Earned(u, stage)
    <2>1. CASE stage = "backup"
      BY <1>1, <1>3, <2>1, ScriptSteps DEF Earned, Needed, Done
    <2>2. CASE stage = "integrity"
      BY <1>1, <1>3, <2>2, ScriptSteps DEF Earned, Needed, Done
    <2>3. CASE stage = "restore"
      BY <1>1, <1>3, <2>3, ScriptSteps DEF Earned, Needed, Done
    <2>4. CASE stage = "cold-backup"
      BY <1>1, <1>3, <2>4, ScriptSteps DEF Earned, Needed, Done
    <2>5. CASE stage = "cold-restore"
      BY <1>1, <1>3, <2>5, ScriptSteps DEF Earned, Needed, Done
    <2> QED  BY <2>1, <2>2, <2>3, <2>4, <2>5 DEF Phases
  <1>5. ASSUME NEW d \in Destinations, NEW p \in Phases
        PROVE  proof'[d][p] = receipt'[d][p]
    <2>1. /\ receipt' = [receipt EXCEPT ![u[1]] = [receipt[u[1]] EXCEPT ![stage] = clock]]
          /\ proof' = [proof EXCEPT ![u[1]] = [proof[u[1]] EXCEPT ![stage] = clock]]
      BY <1>1, <1>4
    <2>2. p \in Receipts /\ stage \in Receipts  BY <1>1 DEF Receipts, Checked
    <2>3. CASE d = u[1]
      <3>1. /\ receipt'[d] = [receipt[d] EXCEPT ![stage] = clock]
            /\ proof'[d] = [proof[d] EXCEPT ![stage] = clock]
        BY <2>1, <2>3 DEF ProofInv
      <3>2. proof[d] \in [Phases -> Nat] /\ receipt[d] \in [Receipts -> Nat] /\ proof[d][p] = receipt[d][p]
        BY DEF ProofInv
      <3> QED  BY <1>1, <2>2, <3>1, <3>2
    <2>4. CASE d # u[1]
      <3>1. receipt'[d] = receipt[d] /\ proof'[d] = proof[d]  BY <2>1, <2>4 DEF ProofInv
      <3> QED  BY <3>1 DEF ProofInv
    <2> QED  BY <2>3, <2>4
  <1>6. /\ receipt' \in [Destinations -> [Receipts -> Nat]]
        /\ proof' \in [Destinations -> [Phases -> Nat]]
    <2>1. /\ receipt \in [Destinations -> [Receipts -> Nat]] /\ clock \in Nat
          /\ proof \in [Destinations -> [Phases -> Nat]]
      BY DEF ProofInv
    <2>2. [receipt[u[1]] EXCEPT ![stage] = clock] \in [Receipts -> Nat]
      BY <1>3, <2>1
    <2>3. [proof[u[1]] EXCEPT ![stage] = clock] \in [Phases -> Nat]
      BY <1>3, <2>1
    <2>4. /\ receipt' = [receipt EXCEPT ![u[1]] = [receipt[u[1]] EXCEPT ![stage] = clock]]
          /\ proof' = [proof EXCEPT ![u[1]] = [proof[u[1]] EXCEPT ![stage] = clock]]
      BY <1>1, <1>4
    <2> QED  BY <1>3, <2>1, <2>2, <2>3, <2>4
  <1>7. at[u] \in Nat /\ Done(u)'
    <2>1. at[u] \in Nat /\ at'[u] = at[u] + 1 /\ evidence'[u] = evidence[u]
      BY <1>2 DEF ProofInv
    <2>2. \/ u[2] = "backup" /\ at[u] = 5
          \/ u[2] = "verification" /\ (at[u] = 3 \/ at[u] = 7)
          \/ u[2] = "cold" /\ (at[u] = 7 \/ at[u] = 9)
      <3>1. CASE stage = "backup"  BY <1>1, <3>1, ScriptSteps
      <3>2. CASE stage = "integrity"  BY <1>1, <3>2, ScriptSteps
      <3>3. CASE stage = "restore"  BY <1>1, <3>3, ScriptSteps
      <3>4. CASE stage = "cold-backup"  BY <1>1, <3>4, ScriptSteps
      <3>5. CASE stage = "cold-restore"  BY <1>1, <3>5, ScriptSteps
      <3> QED  BY <3>1, <3>2, <3>3, <3>4, <3>5 DEF Phases
    <2> QED  BY <1>3, <2>1, <2>2 DEF Done
  <1>8. \A v \in Units : v # u => (Done(v)' <=> Done(v))  BY <1>2 DEF ProofInv, Done
  <1> QED  BY <1>2, <1>5, <1>6, <1>7, <1>8 DEF ProofInv

\* The other steps of a script add to what its attempt has done, or end it.
LEMMA ScriptRuns ==
  ASSUME ProofInv, NEW u \in Units,
         Start(u) \/ Guard(u) \/ Quiesce(u) \/ OpenCanary(u) \/ FillCanary(u) \/ Save(u) \/ Check(u)
           \/ Probe(u) \/ Fail(u) \/ Lose(u)
  PROVE  ProofInv'
  <1>1. at[u] \in Nat /\ evidence[u] \in SUBSET Works /\ Done(u)  BY DEF ProofInv
  <1>2. UNCHANGED <<clock, active, receipt, proof>>
    BY DEF Start, Guard, Quiesce, OpenCanary, FillCanary, Save, Check, Probe, Fail, Lose,
           backup_world, backup_disk, backup_history
  <1> DEFINE Goes(n, done) == /\ at' = [at EXCEPT ![u] = n]
                              /\ evidence' = [evidence EXCEPT ![u] = done]
  <1>3. ASSUME NEW n \in Nat, NEW done \in SUBSET Works, Goes(n, done),
               /\ u[2] = "backup" /\ n = 5 => "saved" \in done
               /\ u[2] = "verification" => (n = 3 => "checked" \in done) /\ (n = 7 => "matched" \in done)
               /\ u[2] = "cold" =>
                    /\ n \in 6..9 => "saved" \in done
                    /\ n = 9 => "matched" \in done
                    /\ n \in 0..2 \cup {7} => "disturbed" \notin done
                    /\ n \in 3..6 /\ "disturbed" \in done => active
        PROVE  ProofInv'
    <2>1. at'[u] = n /\ evidence'[u] = done  BY <1>3 DEF ProofInv
    <2>2. Done(u)'  BY <1>2, <1>3, <2>1 DEF Done
    <2> QED  BY <1>2, <1>3, <2>2, UnitMoves
  <1>4. evidence' = evidence => evidence' = [evidence EXCEPT ![u] = evidence[u]]
    BY DEF ProofInv
  <1>5. CASE Start(u) \/ Guard(u) \/ Quiesce(u) \/ FillCanary(u)
    <2>1. Goes(at[u] + 1, evidence[u])
      BY <1>4, <1>5 DEF Start, Guard, Quiesce, FillCanary, Move, backup_history
    <2>2. \/ at[u] = 0 \/ at[u] = 1
          \/ u[2] = "cold" /\ (at[u] = 2 \/ at[u] = 6) /\ ~active
          \/ u[2] = "backup" /\ at[u] = 3
          \/ u[2] = "verification" /\ at[u] = 5
          \/ u[2] = "cold" /\ at[u] = 4
      BY <1>5, ScriptSteps DEF Start, Guard, Quiesce, FillCanary
    <2> HIDE DEF Goes
    <2> QED  BY <1>1, <1>3, <2>1, <2>2 DEF Done
  <1>6. CASE OpenCanary(u)
    <2>1. PICK n \in {at[u] + 1, at[u] + 2} : Goes(n, evidence[u])
      BY <1>4, <1>6 DEF OpenCanary, Move, backup_history
    <2>2. \/ u[2] = "backup" /\ at[u] = 2
          \/ u[2] = "verification" /\ at[u] = 4
          \/ u[2] = "cold" /\ at[u] = 3
      BY <1>6, ScriptSteps DEF OpenCanary
    <2> HIDE DEF Goes
    <2> QED  BY <1>1, <1>3, <2>1, <2>2 DEF Done
  <1>7. CASE Save(u)
    <2>1. Goes(at[u] + 1, evidence[u] \cup {"saved"})  BY <1>7 DEF Save, Move
    <2>2. (u[2] = "backup" /\ at[u] = 4) \/ (u[2] = "cold" /\ at[u] = 5)
      BY <1>7, ScriptSteps DEF Save
    <2>3. evidence[u] \cup {"saved"} \in SUBSET Works  BY <1>1 DEF Works
    <2> HIDE DEF Goes
    <2> QED  BY <1>1, <1>3, <2>1, <2>2, <2>3 DEF Done
  <1>8. CASE Check(u)
    <2>1. Goes(at[u] + 1, evidence[u] \cup {"checked"})  BY <1>8 DEF Check, Move
    <2>2. u[2] = "verification" /\ at[u] = 2
      BY <1>8, ScriptSteps DEF Check
    <2>3. evidence[u] \cup {"checked"} \in SUBSET Works  BY <1>1 DEF Works
    <2> HIDE DEF Goes
    <2> QED  BY <1>1, <1>3, <2>1, <2>2, <2>3
  <1>9. CASE Probe(u)
    <2>1. Goes(at[u] + 1, evidence[u] \cup {"matched"})  BY <1>9 DEF Probe, Move
    <2>2. (u[2] = "verification" /\ at[u] = 6) \/ (u[2] = "cold" /\ at[u] = 8)
      BY <1>9, ScriptSteps DEF Probe
    <2>3. evidence[u] \cup {"matched"} \in SUBSET Works  BY <1>1 DEF Works
    <2> HIDE DEF Goes
    <2> QED  BY <1>1, <1>3, <2>1, <2>2, <2>3 DEF Done
  <1>10. CASE Fail(u)
    <2>1. Goes(Ended(u), evidence[u])
      BY <1>4, <1>10 DEF Fail, backup_history
    <2>2. Ended(u) \in Nat  BY EndOfScript
    <2> HIDE DEF Goes
    <2> QED  BY <1>1, <1>3, <2>1, <2>2, EndOfScript
  <1>11. CASE Lose(u)
    <2>1. Goes(0, {})  BY <1>11 DEF Lose, End
    <2> HIDE DEF Goes
    <2> QED  BY <1>3, <2>1
  <1> QED  BY <1>5, <1>6, <1>7, <1>8, <1>9, <1>10, <1>11

\* An outcome is stamped beside the phases.
LEMMA FinishProves == ASSUME ProofInv, NEW u \in Units, Finish(u) PROVE ProofInv'
  <1> DEFINE name == IF Failed(u) THEN Failure[u[2]] ELSE Success[u[2]]
  <1>1. u[1] \in Destinations /\ u[2] \in Operations  BY DEF Units
  <1>2. name \in Receipts /\ name \notin Phases  BY <1>1, ReceiptNames DEF Checked
  <1>3. /\ receipt' = [receipt EXCEPT ![u[1]][name] = clock]
        /\ UNCHANGED <<clock, active, proof>>
        /\ at' = [at EXCEPT ![u] = 0] /\ evidence' = [evidence EXCEPT ![u] = {}]
    BY DEF Finish, End, backup_world
  <1>4. receipt' \in [Destinations -> [Receipts -> Nat]]
    BY <1>1, <1>2, <1>3 DEF ProofInv
  <1>5. \A d \in Destinations, p \in Phases : proof'[d][p] = receipt'[d][p]
    <2> HIDE DEF name
    <2> QED  BY <1>1, <1>2, <1>3 DEF ProofInv, Receipts, Checked
  <1>6. \A v \in Units : Done(v)'
    <2>1. Done(u)'  BY <1>3 DEF ProofInv, Done
    <2>2. \A v \in Units : v # u => (Done(v)' <=> Done(v))  BY <1>3 DEF ProofInv, Done
    <2> QED  BY <2>1, <2>2 DEF ProofInv
  <1>7. at' \in [Units -> Nat] /\ evidence' \in [Units -> SUBSET Works]
    BY <1>3 DEF ProofInv
  <1> QED  BY <1>3, <1>4, <1>5, <1>6, <1>7 DEF ProofInv

\* Whoever starts a VM disturbs the backups that rely on quiescence until it stops.
LEMMA WorldProves ==
  ASSUME ProofInv, Tick \/ SetBack \/ Disturb \/ Rescue \/ UNCHANGED backup_vars PROVE ProofInv'
  <1>1. CASE Tick \/ UNCHANGED backup_vars
    BY <1>1 DEF Tick, ProofInv, Done, backup_vars, backup_world, backup_disk, backup_history
  <1>2. CASE SetBack
    BY <1>2 DEF SetBack, ProofInv, Done, backup_disk
  <1>3. CASE Disturb
    <2>1. UNCHANGED <<clock, at, receipt, proof>> /\ active'
      BY <1>3 DEF Disturb, backup_disk
    <2>2. evidence' = [u \in Units |-> evidence[u] \cup (IF Relying(u) THEN {"disturbed"} ELSE {})]
      BY <1>3 DEF Disturb
    <2>3. evidence' \in [Units -> SUBSET Works]  BY <2>2 DEF ProofInv, Works
    <2>4. ASSUME NEW u \in Units PROVE Done(u)'
      <3>1. Done(u) /\ at'[u] = at[u] /\ at[u] \in Nat  BY <2>1 DEF ProofInv
      <3>2. evidence'[u] = evidence[u] \cup (IF Relying(u) THEN {"disturbed"} ELSE {})  BY <2>2
      <3> QED  BY <2>1, <3>1, <3>2 DEF Done, Relying
    <2> QED  BY <2>1, <2>3, <2>4 DEF ProofInv
  <1>4. CASE Rescue
    <2>1. UNCHANGED <<clock, at, receipt, proof>>
          /\ evidence' = [u \in Units |-> evidence[u] \ {"disturbed"}]
      BY <1>4 DEF Rescue, backup_disk
    <2>2. \A u \in Units : evidence[u] \in SUBSET Works  BY DEF ProofInv
    <2>3. evidence' \in [Units -> SUBSET Works]  BY <2>1, <2>2
    <2>4. ASSUME NEW u \in Units PROVE Done(u)'
      <3>1. evidence'[u] = evidence[u] \ {"disturbed"} /\ at'[u] = at[u] /\ Done(u)  BY <2>1 DEF ProofInv
      <3>2. "disturbed" \notin evidence'[u]
            /\ ("saved" \in evidence[u] => "saved" \in evidence'[u])
            /\ ("checked" \in evidence[u] => "checked" \in evidence'[u])
            /\ ("matched" \in evidence[u] => "matched" \in evidence'[u])
        BY <3>1
      <3> QED  BY <3>1, <3>2 DEF Done
    <2> QED  BY <2>1, <2>3, <2>4 DEF ProofInv
  <1> QED  BY <1>1, <1>2, <1>3, <1>4

\* Every step of every unit, of the operator and of the world.
LEMMA ProofCarried == ASSUME ProofInv, [BackupNext]_backup_vars PROVE ProofInv'
  <1>1. ASSUME NEW u \in Units, UnitStep(u) PROVE ProofInv'
    BY <1>1, ScriptRuns, StampEarned, FinishProves DEF UnitStep
  <1>2. ASSUME NEW d \in Destinations, RecordDrill(d) PROVE ProofInv'
    <2>1. /\ receipt' = [receipt EXCEPT ![d]["recovery-drill"] = clock]
          /\ UNCHANGED <<clock, active, at, evidence, proof>>
      BY <1>2 DEF RecordDrill, backup_world, backup_history
    <2>2. "recovery-drill" \in Receipts \ Phases  BY DEF Receipts, Checked, Phases
    <2>3. receipt' \in [Destinations -> [Receipts -> Nat]]  BY <2>1 DEF ProofInv
    <2>4. \A e \in Destinations, p \in Phases : proof'[e][p] = receipt'[e][p]
      BY <2>1, <2>2 DEF ProofInv, Receipts, Checked
    <2> QED  BY <2>1, <2>3, <2>4 DEF ProofInv, Done
  <1> QED  BY <1>1, <1>2, WorldProves DEF BackupNext

\* A destination that status does not warn about is backed up, checked, probed and
\* cold-backed up within the declared ages, for any number of destinations.
THEOREM CurrentBackupsProven == BackupSpec => []CurrentMeansProven
  <1>1. BackupInit => ProofInv  BY ProofStarts
  <1>2. ProofInv /\ [BackupNext]_backup_vars => ProofInv'  BY ProofCarried
  <1>3. ProofInv => CurrentMeansProven
    <2> SUFFICES ASSUME ProofInv, NEW d \in Destinations, Missing(d) = {}, NEW p \in Phases
                 PROVE  proof[d][p] # 0 /\ proof[d][p] + MaxAge[p] >= clock
      BY DEF CurrentMeansProven
    <2>1. p \in Checked  BY DEF Checked
    <2>2. ReadStamp(d, p) # 0 /\ ~(ReadStamp(d, p) + MaxAge[p] < clock)
      BY <2>1 DEF Missing
    <2>3. ReadStamp(d, p) = receipt[d][p] /\ receipt[d][p] = proof[d][p]
      BY <2>2 DEF ReadStamp, ProofInv
    <2>4. proof[d][p] \in Nat /\ MaxAge[p] \in Nat /\ clock \in Nat
      BY <2>1, BackupAssumption DEF ProofInv
    <2> QED  BY <2>2, <2>3, <2>4
  <1> QED  BY <1>1, <1>2, <1>3, PTL DEF BackupSpec
-----------------------------------------------------------------------------
(* The backup receipts: types. *)

\* Every phase and every outcome has a receipt of its own.
LEMMA BackupNames ==
  /\ \A u \in Units : u[1] \in Destinations /\ u[2] \in Operations
  /\ \A o \in Operations : Success[o] \in Receipts /\ Failure[o] \in Receipts
  /\ \A p \in Phases : p \in Receipts
  /\ "recovery-drill" \in Receipts
  BY ReceiptNames DEF Units, Receipts, Checked

\* A script of at most nine steps is left behind its end, also where the canary lets it
\* skip a step.
LEMMA StepsTyped ==
  ASSUME BackupTypeOK, NEW u \in Units, UnitStep(u)
  PROVE  at' \in [Units -> 0..Longest + 1]
  <1>1. at \in [Units -> 0..10] /\ Longest + 1 = 10  BY DEF BackupTypeOK, Longest
  <1>2. CASE OpenCanary(u)
    <2>1. at[u] \in {2, 3, 4}  BY <1>2, ScriptSteps DEF OpenCanary
    <2>2. at' = [at EXCEPT ![u] = at[u] + 1] \/ at' = [at EXCEPT ![u] = at[u] + 2]
      BY <1>2 DEF OpenCanary, Move
    <2> QED  BY <1>1, <2>1, <2>2
  <1>3. CASE Start(u) \/ Guard(u) \/ Quiesce(u) \/ FillCanary(u) \/ Save(u) \/ Check(u) \/ Probe(u)
             \/ Stamp(u)
    <2>1. at' = [at EXCEPT ![u] = at[u] + 1]
      BY <1>3 DEF Start, Guard, Quiesce, FillCanary, Save, Check, Probe, Stamp, Move
    <2>2. at[u] \in 0..9
      <3>1. at[u] = 0 \/ at[u] \in 1..Len(Script(u))
        BY <1>3 DEF Start, Guard, Quiesce, FillCanary, Save, Check, Probe, Stamp, AtStep
      <3>2. Len(Script(u)) \in {5, 7, 9}
        <4>1. u[2] \in Operations  BY BackupNames
        <4>2. CASE u[2] = "cold"
          <5>1. Len(Script(u)) = 9  BY <4>2 DEF Script
          <5> QED  BY <5>1
        <4>3. CASE u[2] = "backup"
          <5>1. Len(Script(u)) = 5  BY <4>3 DEF Script, HotScript
          <5> QED  BY <5>1
        <4>4. CASE u[2] = "verification"
          <5>1. Len(Script(u)) = 7  BY <4>4 DEF Script, HotScript
          <5> QED  BY <5>1
        <4> QED  BY <4>1, <4>2, <4>3, <4>4 DEF Operations
      <3>3. PICK n \in {5, 7, 9} : n = Len(Script(u))  BY <3>2
      <3>4. at[u] = 0 \/ at[u] \in 1..n  BY <3>1, <3>3
      <3> QED  BY <3>4
    <2> QED  BY <1>1, <2>1, <2>2
  <1>4. CASE Fail(u)
    <2>1. at' = [at EXCEPT ![u] = Ended(u)]  BY <1>4 DEF Fail
    <2>2. Ended(u) \in 0..10  BY EndOfScript
    <2> QED  BY <1>1, <2>1, <2>2
  <1>5. CASE Finish(u) \/ Lose(u)
    <2>1. at' = [at EXCEPT ![u] = 0]  BY <1>5 DEF Finish, Lose, End
    <2> QED  BY <1>1, <2>1
  <1> QED  BY <1>2, <1>3, <1>4, <1>5 DEF UnitStep

\* A unit writes its receipts, its snapshot and what it has done.
LEMMA UnitTyped == ASSUME BackupTypeOK, NEW u \in Units, UnitStep(u) PROVE BackupTypeOK'
  <1>1. at' \in [Units -> 0..Longest + 1]  BY StepsTyped
  <1>2. u[1] \in Destinations /\ u[2] \in Operations  BY BackupNames
  <1>3. clock \in 1..MaxClock /\ clock \in 0..MaxClock /\ 0 \in 0..MaxClock
    BY BackupAssumption DEF BackupTypeOK
  <1>4. CASE Start(u)
    <2>1. starts' \in 0..MaxStarts  BY <1>4, BackupAssumption DEF Start, BackupTypeOK
    <2> QED  BY <1>1, <1>4, <2>1
             DEF Start, BackupTypeOK, backup_world, backup_disk, backup_history
  <1>5. CASE Guard(u) \/ Quiesce(u) \/ OpenCanary(u) \/ FillCanary(u)
    <2>1. canary' \in {canary, "empty", "random"}
      BY <1>5 DEF Guard, Quiesce, OpenCanary, FillCanary, backup_disk
    <2>2. UNCHANGED <<backup_world, receipt, saved, backup_history, result, starts>>
      BY <1>5 DEF Guard, Quiesce, OpenCanary, FillCanary, backup_disk
    <2> QED  BY <1>1, <2>1, <2>2 DEF BackupTypeOK, Contents, backup_world, backup_history
  <1>6. CASE Save(u)
    <2>1. Tag(u) \in {"desktop-files", "desktop-cold"}  BY DEF Tag
    <2>2. saved' \in [Destinations -> [{"desktop-files", "desktop-cold"} -> Contents]]
      BY <1>2, <1>6, <2>1 DEF Save, BackupTypeOK
    <2>3. evidence' \in [Units -> SUBSET Works]  BY <1>6 DEF Save, BackupTypeOK, Works
    <2> QED  BY <1>1, <1>6, <2>2, <2>3 DEF Save, BackupTypeOK, backup_world
  <1>7. CASE Check(u) \/ Probe(u)
    <2>1. evidence' \in [Units -> SUBSET Works]  BY <1>7 DEF Check, Probe, BackupTypeOK, Works
    <2> QED  BY <1>1, <1>7, <2>1 DEF Check, Probe, BackupTypeOK, backup_world, backup_disk
  <1>8. CASE Stamp(u)
    <2>1. PICK stage \in Phases :
            /\ receipt' = [receipt EXCEPT ![u[1]][stage] = clock]
            /\ proof' = [proof EXCEPT ![u[1]][stage] = IF Earned(u, stage) THEN clock ELSE 0]
      BY <1>8 DEF Stamp
    <2>2. receipt' \in [Destinations -> [Receipts -> 0..MaxClock]]
      BY <1>2, <1>3, <2>1, BackupNames DEF BackupTypeOK
    <2>3. proof' \in [Destinations -> [Phases -> 0..MaxClock]]
      BY <1>2, <1>3, <2>1 DEF BackupTypeOK
    <2> QED  BY <1>1, <1>8, <2>2, <2>3 DEF Stamp, BackupTypeOK, backup_world
  <1>9. CASE Fail(u)
    <2>1. result' \in [Units -> {"success", "exit-code", "signal"}]  BY <1>9 DEF Fail, BackupTypeOK
    <2> QED  BY <1>1, <1>9, <2>1 DEF Fail, BackupTypeOK, backup_world, backup_disk, backup_history
  <1>10. CASE Finish(u)
    <2> DEFINE name == IF Failed(u) THEN Failure[u[2]] ELSE Success[u[2]]
    <2>1. receipt' = [receipt EXCEPT ![u[1]][name] = clock] /\ name \in Receipts
      BY <1>2, <1>10, BackupNames DEF Finish
    <2>2. receipt' \in [Destinations -> [Receipts -> 0..MaxClock]]
      <3> HIDE DEF name
      <3> QED  BY <1>2, <1>3, <2>1 DEF BackupTypeOK
    <2>3. latest' \in [Units -> {"none", "success", "failure"}]
      BY <1>10 DEF Finish, BackupTypeOK
    <2>4. steady' \in [Units -> BOOLEAN]
      <3>1. steady' = [steady EXCEPT ![u] = steady[u] \/ result[u] = "success"
                                              \/ receipt[u[1]][Success[u[2]]] = 0]
        BY <1>10 DEF Finish
      <3>2. (steady[u] \/ result[u] = "success" \/ receipt[u[1]][Success[u[2]]] = 0) \in BOOLEAN
        OBVIOUS
      <3> QED  BY <3>1, <3>2 DEF BackupTypeOK
    <2>5. /\ result' \in [Units -> {"success", "exit-code", "signal"}]
          /\ evidence' \in [Units -> SUBSET Works]
      BY <1>10 DEF Finish, End, BackupTypeOK
    <2> QED  BY <1>1, <1>10, <2>2, <2>3, <2>4, <2>5 DEF Finish, BackupTypeOK, backup_world
  <1>11. CASE Lose(u)
    <2>1. /\ result' \in [Units -> {"success", "exit-code", "signal"}]
          /\ evidence' \in [Units -> SUBSET Works]
      BY <1>11 DEF Lose, End, BackupTypeOK
    <2> QED  BY <1>1, <1>11, <2>1 DEF Lose, BackupTypeOK, backup_world, backup_disk
  <1> QED  BY <1>4, <1>5, <1>6, <1>7, <1>8, <1>9, <1>10, <1>11 DEF UnitStep

\* So does everybody else.
LEMMA BackupTyped == ASSUME BackupTypeOK, [BackupNext]_backup_vars PROVE BackupTypeOK'
  <1>1. ASSUME NEW u \in Units, UnitStep(u) PROVE BackupTypeOK'  BY <1>1, UnitTyped
  <1>2. ASSUME NEW d \in Destinations, RecordDrill(d) PROVE BackupTypeOK'
    <2>1. receipt' = [receipt EXCEPT ![d]["recovery-drill"] = clock] /\ clock \in 0..MaxClock
      BY <1>2, BackupAssumption DEF RecordDrill, BackupTypeOK
    <2>2. receipt' \in [Destinations -> [Receipts -> 0..MaxClock]]
      BY <2>1, BackupNames DEF BackupTypeOK
    <2> QED  BY <1>2, <2>2 DEF RecordDrill, BackupTypeOK, backup_world, backup_history
  <1>3. CASE Tick \/ SetBack
    <2>1. clock' \in 1..MaxClock
      BY <1>3, BackupAssumption DEF Tick, SetBack, BackupTypeOK
    <2>2. steady' \in [Units -> BOOLEAN]
      BY <1>3 DEF Tick, SetBack, BackupTypeOK, backup_history
    <2>3. UNCHANGED <<active, backup_disk, evidence, proof, latest, at, result, starts>>
      BY <1>3 DEF Tick, SetBack, backup_history
    <2> QED  BY <2>1, <2>2, <2>3 DEF BackupTypeOK, backup_disk
  <1>4. CASE Disturb \/ Rescue
    <2>1. active' \in BOOLEAN /\ evidence' \in [Units -> SUBSET Works]
      <3>1. CASE Disturb
        <4>1. active' = TRUE  BY <3>1 DEF Disturb
        <4>2. evidence' = [u \in Units |-> evidence[u] \cup (IF Relying(u) THEN {"disturbed"} ELSE {})]
          BY <3>1 DEF Disturb
        <4>3. \A u \in Units : evidence[u] \cup (IF Relying(u) THEN {"disturbed"} ELSE {}) \in SUBSET Works
          BY DEF BackupTypeOK, Works
        <4> QED  BY <4>1, <4>2, <4>3
      <3>2. CASE Rescue
        <4>1. active' = FALSE /\ evidence' = [u \in Units |-> evidence[u] \ {"disturbed"}]
          BY <3>2 DEF Rescue
        <4>2. \A u \in Units : evidence[u] \in SUBSET Works  BY DEF BackupTypeOK
        <4> QED  BY <4>1, <4>2
      <3> QED  BY <1>4, <3>1, <3>2
    <2>2. UNCHANGED <<clock, backup_disk, proof, latest, steady, at, result, starts>>
      BY <1>4 DEF Disturb, Rescue, backup_history
    <2> QED  BY <2>1, <2>2 DEF BackupTypeOK, backup_disk
  <1>5. CASE UNCHANGED backup_vars
    BY <1>5 DEF backup_vars, backup_world, backup_disk, backup_history, BackupTypeOK
  <1> QED  BY <1>1, <1>2, <1>3, <1>4, <1>5 DEF BackupNext

LEMMA BackupStarts == BackupInit => BackupTypeOK
  <1> SUFFICES ASSUME BackupInit PROVE BackupTypeOK  OBVIOUS
  <1>1. 0 \in 0..MaxClock /\ 1 \in 0..MaxClock /\ 1 \in 1..MaxClock /\ 0 \in 0..MaxStarts
        /\ 0 \in 0..Longest + 1
    BY BackupAssumption DEF Longest
  <1>2. PICK done \in BOOLEAN :
          /\ receipt = [d \in Destinations |-> [r \in Receipts |->
                          IF done /\ r \notin {Failure[o] : o \in Operations} THEN 1 ELSE 0]]
          /\ canary = IF done THEN "random" ELSE "absent"
          /\ saved = [d \in Destinations |-> [t \in {"desktop-files", "desktop-cold"} |-> canary]]
          /\ proof = [d \in Destinations |-> [p \in Phases |-> IF done THEN 1 ELSE 0]]
          /\ latest = [u \in Units |-> IF done THEN "success" ELSE "none"]
    BY DEF BackupInit
  <1>3. /\ receipt \in [Destinations -> [Receipts -> 0..MaxClock]]
        /\ proof \in [Destinations -> [Phases -> 0..MaxClock]]
    BY <1>1, <1>2
  <1>4. /\ canary \in Contents
        /\ saved \in [Destinations -> [{"desktop-files", "desktop-cold"} -> Contents]]
        /\ latest \in [Units -> {"none", "success", "failure"}]
    BY <1>2 DEF Contents
  <1>5. /\ clock = 1 /\ at = [u \in Units |-> 0] /\ result = [u \in Units |-> "success"]
        /\ active = FALSE /\ starts = 0 /\ evidence = [u \in Units |-> {}]
        /\ steady = [u \in Units |-> TRUE]
    BY DEF BackupInit
  <1> QED  BY <1>1, <1>3, <1>4, <1>5 DEF BackupTypeOK

\* The receipts, the units and the canary stay within their types: no script runs past its
\* end, for any number of destinations.
THEOREM BackupTypeCorrect == BackupSpec => []BackupTypeOK
  BY BackupStarts, BackupTyped, PTL DEF BackupSpec

-----------------------------------------------------------------------------
(* The six programs side by side. *)

ProgramsInv ==
  /\ BackupTypeOK /\ PairingInv /\ EvidenceInv /\ PolicyInv /\ CollectionInv /\ HookInv

\* Whatever program a behaviour is of, all of them stay within their types.
THEOREM ProgramsTypeCorrect == Spec => []TypeOK
  <1>1. Init => ProgramsInv
    BY BackupStarts, PairingStarts, EvidenceStarts, PolicyStarts, CollectionStarts, HookStarts
    DEF Init, ProgramsInv
  <1>2. ASSUME ProgramsInv,
               [Next]_<<program, backup_vars, bt_vars, ev_vars, wp_vars, wc_vars, ph_vars>>
        PROVE  ProgramsInv'
    <2>1. /\ [BackupNext]_backup_vars /\ [PairingNext]_bt_vars /\ [EvidenceNext]_ev_vars
          /\ [PolicyNext]_wp_vars /\ [CollectionNext]_wc_vars /\ [PrivacyNext]_ph_vars
      BY <1>2 DEF Next, Runs
    <2> QED
      BY <1>2, <2>1, BackupTyped, PairingCarried, EvidenceCarried, PolicyCarried, CollectionCarried,
         HookCarried
      DEF ProgramsInv
  <1>3. ProgramsInv => TypeOK
    BY CollectionFits, HookFits
    DEF ProgramsInv, PairingInv, EvidenceInv, PolicyInv, TypeOK
  <1> QED  BY <1>1, <1>2, <1>3, PTL DEF Spec
=============================================================================

------------------------------ MODULE MCPrograms ------------------------------
(* Six programs that share no state, on one instance: each behaviour is one of them,
   while the others stay where they started. *)
EXTENDS BackupReceipts, BluetoothPairing, Evidence, WallpaperPolicy, WallpaperCollection,
        PrivacyHook

CONSTANTS disk, forking

VARIABLE program

MCTopology == [d \in Destinations |->
  [medium |-> "hdd", offsite |-> FALSE, protection |-> "offline", failureDomain |-> d]]
MCMaxAge   == [p \in Checked |-> IF p = "backup" THEN 0 ELSE 1]

\* Each state of the tree builds something else.
MCOutput == [t \in 1..MaxTree |-> <<"output", t>>]
\* A capture of two trials whose command forks, also for another user, beside a build
\* that is a single process.
MCCast    == [c \in Captures |-> IF c = forking THEN Own \cup {"foreign child"} ELSE {"leader"}]
MCRepeats == [c \in Captures |-> IF c = forking THEN {2} ELSE {1}]
MCPhases  == [c \in Captures |-> {"build"} \cup IF c = forking THEN {"runtime", "dry-activation"} ELSE {}]

MCParent == [galaxies |-> "space"]
MCRoutes ==
  {[connection |-> "commons", leaf |-> "galaxies", collection |-> "panoramas", require |-> {}, exclude |-> {"night"}],
   [connection |-> "esa", leaf |-> "galaxies", collection |-> "none", require |-> {}, exclude |-> {}]}
MCDefaults == [k \in Switches |-> IF k[1] = "source" THEN "absent" ELSE "on"]

Image(prefix, sidecar, groups, collections) ==
  [prefix |-> prefix, sidecar |-> sidecar, groups |-> groups, collections |-> collections,
   rejected |-> FALSE, fits |-> TRUE]
MCImages == {Image("none", "missing", {}, {}), Image("esa", "esa", {"galaxies"}, {}),
             Image("commons", "unnamed", {}, {"panoramas"})}

Large == [observed |-> TRUE, large |-> TRUE, own |-> TRUE, bounded |-> TRUE, width |-> 7, height |-> 4]
Tall  == [Large EXCEPT !.width = 3]
Item(id, resources) ==
  [id |-> id, licensed |-> TRUE, priority |-> 80, own |-> TRUE, unwanted |-> FALSE, resources |-> resources]
MCItems  == {Item("i1", {Large}), Item("i2", {Tall, Large}), Item("i3", {Tall})}
MCFiles == {<<"i1", 1>>, <<"i1", 2>>, <<"i2", 1>>}
MCTarget == [width |-> 3, height |-> 2]

MCKind  == [o \in Objects |-> IF o = "first" THEN "blob" ELSE "commit"]
MCReach == [o \in Objects |-> CASE o = "old" -> {"old", "first"}
                                [] o = "new" -> {"new", "old", "first"}
                                [] OTHER     -> {o}]
\* One commit or blob takes every content of three symbols.
MCSamples  == {[o \in Objects |-> IF o = varied THEN data ELSE <<"%">>] :
                 varied \in {"old", "first"}, data \in [1..3 -> {"a", "%", "@"}]}
MCPatterns == {<<"a", "@">>, <<"a", "%", "@">>}

Programs == {"backup", "pairing", "evidence", "policy", "collection", "privacy"}

\* The captures start where the other state of the tree is built, as MaxMoves is too few to
\* get there, and on the present one if it is built.
Init ==
  /\ program \in Programs
  /\ BackupInit /\ PairingInit /\ EvidenceInit /\ PolicyInit /\ CollectionInit /\ PrivacyInit
  /\ program # "backup" => canary = "absent"
  /\ (program = "evidence") = (realised # {Output[1]})
  /\ Output[1] \in realised => generation = Output[1]
  /\ program # "privacy" => advertised = {} /\ content = CHOOSE sample \in Samples : TRUE

Runs(name, next, others) == program = name /\ UNCHANGED <<program, others>> /\ next

Next ==
  \/ Runs("backup", BackupNext, <<bt_vars, ev_vars, wp_vars, wc_vars, ph_vars>>)
  \/ Runs("pairing", PairingNext, <<backup_vars, ev_vars, wp_vars, wc_vars, ph_vars>>)
  \/ Runs("evidence", EvidenceNext, <<backup_vars, bt_vars, wp_vars, wc_vars, ph_vars>>)
  \/ Runs("policy", PolicyNext, <<backup_vars, bt_vars, ev_vars, wc_vars, ph_vars>>)
  \/ Runs("collection", CollectionNext, <<backup_vars, bt_vars, ev_vars, wp_vars, ph_vars>>)
  \/ Runs("privacy", PrivacyNext, <<backup_vars, bt_vars, ev_vars, wp_vars, wc_vars>>)

Spec == Init /\ [][Next]_<<program, backup_vars, bt_vars, ev_vars, wp_vars, wc_vars, ph_vars>>

TypeOK ==
  /\ BackupTypeOK /\ PairingTypeOK /\ EvidenceTypeOK
  /\ PolicyTypeOK /\ CollectionTypeOK /\ PrivacyTypeOK
=============================================================================

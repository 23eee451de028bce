---------------------------- MODULE WallpaperPolicy ----------------------------
(***************************************************************************)
(* The wallpaper preferences (wallpaper-policy.py) and the rotation that   *)
(* obeys them (wallpaper-next.sh.in).  Operators change one switch at a    *)
(* time in a file that overlays the declared defaults; a rotation reads    *)
(* the file once, filters the library by it and shows one of what is left. *)
(* Commands, rotations and whoever removes files run beside each other,    *)
(* and any of them may be killed between two steps.                        *)
(*                                                                         *)
(* The nested settings objects are functions from the switches to their    *)
(* values: _merge overlays them switch by switch.  The file that records   *)
(* what is shown is modelled in WallpaperCollection.                       *)
(***************************************************************************)
EXTENDS Naturals, Sequences

CONSTANTS
  Connections, \* the catalog's connections
  Commons,     \* the one whose images are classified by their source metadata
  Parent,      \* the catalog's categories: the parent of each subcategory
  Routes,      \* the catalog's routes, with the collections that select an image
  Defaults,    \* the declarative settings: a value for each switch
  Images,      \* the files that may be in the library
  Operators,   \* processes that run preference commands
  MaxEdits,    \* bound: commands in all
  NoImage      \* nothing is shown

Leaves     == DOMAIN Parent
Nodes      == Leaves \cup {Parent[l] : l \in Leaves}
Switches   == {<<"personal">>} \cup {<<"connection", c>> : c \in Connections}
              \cup {<<"enable", n>> : n \in Nodes} \cup {<<"source", n, c>> : n \in Nodes, c \in Connections}
Positions  == {"absent", "on", "off", "inherit"}

\* _validate: only a source may inherit, and the declared values name every switch.
ValidSettings ==
  {s \in [Switches -> Positions] : \A k \in Switches : s[k] = "inherit" => k[1] = "source"}

ASSUME PolicyAssumption ==
  /\ MaxEdits \in Nat /\ NoImage \notin Images
  /\ Commons \in Connections
  /\ Connections \cap {"none", "retired", "missing", "corrupt", "unnamed"} = {}

VARIABLES
  overrides, \* the preferences file
  lock,      \* the holder of its lock, a set of at most one operator
  editor,    \* what each operator's command is doing
  edits,     \* commands so far
  library,   \* the files in the directory
  rotation,  \* what the rotation is doing, the settings it read and what it may show
  shown,     \* the image on the outputs
  wanted,    \* the switches as the completed commands set them (a history)
  fresh,     \* no command has completed since the rotation read the file (a history)
  settled    \* nor since the rotation whose choice is shown did (a history)

preferences == <<overrides, lock, editor, edits, wanted>>
wp_vars == <<preferences, library, rotation, shown, fresh, settled>>

Idle    == [at |-> "idle", copy |-> {}]
Resting == [at |-> "idle", settings |-> {}, candidates |-> {}]

PolicyTypeOK ==
  /\ overrides \in [Switches -> Positions] /\ wanted \in [Switches -> Positions]
  /\ lock \in SUBSET Operators
  /\ \A p \in Operators : editor[p].at \in {"idle", "waiting", "locked", "read"}
  /\ edits \in 0..MaxEdits
  /\ library \in SUBSET Images
  /\ rotation.at \in {"idle", "reading", "listed"} /\ rotation.candidates \in SUBSET Images
  /\ shown \in Images \cup {NoImage}
  /\ fresh \in BOOLEAN /\ settled \in BOOLEAN

PolicyInit ==
  /\ overrides = [k \in Switches |-> "absent"]
  /\ wanted = overrides
  /\ lock = {}
  /\ editor = [p \in Operators |-> Idle]
  /\ edits = 0
  /\ library = Images
  /\ rotation = Resting
  /\ shown = NoImage
  /\ fresh = TRUE
  /\ settled = TRUE

-----------------------------------------------------------------------------
(* What the settings allow. *)

Merge(base, over) == [k \in Switches |-> IF over[k] = "absent" THEN base[k] ELSE over[k]]

\* Variant: an override opens its category again.
AllowedNearest(s, c, leaf) ==
  LET scopes == <<s[<<"source", leaf, c>>], s[<<"source", Parent[leaf], c>>],
                  s[<<"enable", leaf>>], s[<<"enable", Parent[leaf]>>]>>
  IN  /\ s[<<"connection", c>>] = "on"
      /\ \A i \in 1..4 : scopes[i] = "off" => \E j \in 1..(i - 1) : scopes[j] = "on"

\* Global gates first, then the nearest explicit source override.
Allowed(s, c, leaf) ==
  /\ s[<<"connection", c>>] = "on"
  /\ s[<<"enable", Parent[leaf]>>] # "off" /\ s[<<"enable", leaf>>] # "off"
  /\ \/ s[<<"source", leaf, c>>] = "on"
     \/ s[<<"source", leaf, c>>] # "off" /\ s[<<"source", Parent[leaf], c>>] # "off"

Plan(s) == {r \in Routes : Allowed(s, r.connection, r.leaf)}

\* Reviewed collection membership; rejected subjects belong nowhere.
Assignments(image) ==
  {r.leaf : r \in {q \in Routes : /\ ~image.rejected /\ q.connection = Commons
                                  /\ q.collection \in image.collections
                                  /\ q.require \subseteq image.collections
                                  /\ q.exclude \cap image.collections = {}}}

Groups(image, c) == IF c = Commons THEN Assignments(image) ELSE image.groups

\* image.prefix is the connection its name shows, "retired" or "none"; image.sidecar
\* "missing", "corrupt", or what it says of the connection, "unnamed" if nothing.
Eligible(image, s) ==
  LET supported == {<<r.connection, r.leaf>> : r \in Plan(s)}
      named     == IF image.sidecar = "unnamed" THEN image.prefix ELSE image.sidecar
  IN  /\ image.prefix # "retired"
      /\ image.sidecar # "corrupt"
      /\ \/ /\ image.prefix = "none" /\ image.sidecar \in {"missing", "unnamed"}
            /\ s[<<"personal">>] # "off"
         \/ /\ image.sidecar # "missing" /\ named \in Connections
            /\ image.prefix \in {"none", named}
            /\ \E leaf \in Groups(image, named) : <<named, leaf>> \in supported

-----------------------------------------------------------------------------
(* A preference command. *)

BeginEdit(p) ==
  /\ editor[p].at = "idle" /\ edits < MaxEdits
  /\ edits' = edits + 1
  /\ editor' = [editor EXCEPT ![p].at = "waiting"]
  /\ UNCHANGED <<overrides, lock, wanted, library, rotation, shown, fresh, settled>>

\* Variant: readers share the lock, and so do writers.
LockShared(p) ==
  /\ editor[p].at = "waiting"
  /\ lock' = lock \cup {p}
  /\ editor' = [editor EXCEPT ![p].at = "locked"]
  /\ UNCHANGED <<overrides, edits, wanted, library, rotation, shown, fresh, settled>>

Lock(p) ==
  /\ editor[p].at = "waiting" /\ lock = {}
  /\ lock' = {p}
  /\ editor' = [editor EXCEPT ![p].at = "locked"]
  /\ UNCHANGED <<overrides, edits, wanted, library, rotation, shown, fresh, settled>>

ReadOverrides(p) ==
  /\ editor[p].at = "locked"
  /\ editor' = [editor EXCEPT ![p].at = "read", ![p].copy = overrides]
  /\ UNCHANGED <<overrides, lock, edits, wanted, library, rotation, shown, fresh, settled>>

\* _change sets the switch the command names, and _write_settings replaces the file
\* whole; the lock goes.
Publish(p) ==
  /\ editor[p].at = "read"
  /\ \E k \in Switches, v \in Positions :
       /\ v = "inherit" => k[1] = "source"
       /\ overrides' = [editor[p].copy EXCEPT ![k] = v]
       /\ wanted' = [wanted EXCEPT ![k] = v]
  /\ lock' = lock \ {p}
  /\ editor' = [editor EXCEPT ![p] = Idle]
  /\ fresh' = FALSE
  /\ settled' = FALSE
  /\ UNCHANGED <<edits, library, rotation, shown>>

\* Killed, or refused by the file system: the kernel drops the lock.
AbandonEdit(p) ==
  /\ editor[p].at # "idle"
  /\ editor' = [editor EXCEPT ![p] = Idle]
  /\ lock' = lock \ {p}
  /\ UNCHANGED <<overrides, edits, wanted, library, rotation, shown, fresh, settled>>

-----------------------------------------------------------------------------
(* The rotation: by its timer, or started after a command.  systemd starts no second
   one while it runs. *)

BeginRotation ==
  /\ rotation.at = "idle"
  /\ rotation' = [Resting EXCEPT !.at = "reading", !.settings = Merge(Defaults, overrides)]
  /\ fresh' = TRUE
  /\ UNCHANGED <<preferences, library, shown, settled>>

\* find | filter: the library is read after the preferences.
FilterLibrary ==
  /\ rotation.at = "reading"
  /\ rotation' = [rotation EXCEPT
       !.at = "listed", !.candidates = {i \in library : Eligible(i, rotation.settings)}]
  /\ UNCHANGED <<preferences, library, shown, fresh, settled>>

\* "Do not leave a now-disabled wallpaper visible when nothing else qualifies."
Clear ==
  /\ rotation.at = "listed" /\ ~\E i \in rotation.candidates : i.fits
  /\ rotation' = Resting
  /\ shown' = NoImage
  /\ settled' = fresh
  /\ UNCHANGED <<preferences, library, fresh>>

\* A candidate of the right size and shape that is still there.
Show ==
  /\ rotation.at = "listed"
  /\ \E i \in rotation.candidates \cap library : i.fits /\ shown' = i
  /\ rotation' = Resting
  /\ settled' = fresh
  /\ UNCHANGED <<preferences, library, fresh>>

\* The file is gone, the renderer refuses, the service is stopped.
RotationFails ==
  /\ rotation.at # "idle"
  /\ rotation' = Resting
  /\ UNCHANGED <<preferences, library, shown, fresh, settled>>

RemoveImage ==
  /\ \E i \in library : library' = library \ {i}
  /\ UNCHANGED <<preferences, rotation, shown, fresh, settled>>

-----------------------------------------------------------------------------
PolicyNext ==
  \/ \E p \in Operators :
       BeginEdit(p) \/ Lock(p) \/ ReadOverrides(p) \/ Publish(p) \/ AbandonEdit(p)
  \/ BeginRotation \/ FilterLibrary \/ Clear \/ Show \/ RotationFails \/ RemoveImage

PolicySpec == PolicyInit /\ [][PolicyNext]_wp_vars

-----------------------------------------------------------------------------
(* Properties. *)

\* "Edit one explicit preference, keeping all other choices intact": the file holds
\* what every completed command chose, whoever else was editing or was killed.
ChoicesKept == overrides = wanted

Choice(k) == Merge(Defaults, wanted)[k]

\* What an operator has closed: a connection that is off, a category or a subcategory
\* that is off whatever its sources say, a source that is off where nothing nearer is
\* on; and personal files.
Closed(c, leaf) ==
  \/ Choice(<<"connection", c>>) # "on"
  \/ "off" \in {Choice(<<"enable", n>>) : n \in {leaf, Parent[leaf]}}
  \/ Choice(<<"source", leaf, c>>) = "off"
  \/ Choice(<<"source", Parent[leaf], c>>) = "off" /\ Choice(<<"source", leaf, c>>) # "on"

\* Once a rotation that read the present preferences has chosen, nothing is on the
\* outputs that they close: an image of a connection belongs to an open category, and
\* a personal one is shown only if those are wanted.
DisabledLeaves ==
  settled /\ shown # NoImage =>
    IF shown.prefix \in Connections \/ shown.sidecar \in Connections
    THEN \E c \in {shown.prefix, shown.sidecar} \cap Connections :
           \E leaf \in Groups(shown, c) : ~Closed(c, leaf)
    ELSE Choice(<<"personal">>) # "off"
=============================================================================

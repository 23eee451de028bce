------------------------------ MODULE PrivacyHook ------------------------------
(***************************************************************************)
(* The Git privacy hook (git-privacy-hook.py): before a commit it inspects *)
(* what is staged, before a push every object the destination has not been *)
(* given yet, for private addresses.  Objects are immutable and are read   *)
(* in chunks; meanwhile others move the destination's branches.            *)
(*                                                                         *)
(* An object is a sequence of symbols and a pattern a spelling of a        *)
(* private address, in lower case.  Git's object graph is external: Reach  *)
(* says what an object reaches.                                            *)
(***************************************************************************)
EXTENDS Naturals, Sequences

CONSTANTS
  Objects,    \* the Git objects, here or at the destination
  Local,      \* those in the local repository
  Kind,       \* "commit", "tag" or "blob"
  Reach,      \* what each object reaches, itself included
  Symbols,    \* what contents and spellings are made of
  Samples,    \* the assignments of contents to objects that are considered
  Patterns,   \* the spellings of the blocked addresses
  Chunk,      \* symbols read at a time
  AllowsPrivate \* the policy lists this destination as a private repository

ASSUME HookAssumption ==
  /\ Chunk \in Nat \ {0}
  /\ Local \subseteq Objects
  /\ Reach \in [Objects -> SUBSET Objects]
  /\ \A o \in Objects : o \in Reach[o] /\ \A q \in Reach[o] : Reach[q] \subseteq Reach[o]
  /\ \A o \in Local : Reach[o] \subseteq Local
  /\ Samples \subseteq [Objects -> Seq(Symbols)]
  /\ Patterns \subseteq Seq(Symbols) \ {<<>>}
  /\ \E longest \in Patterns : \A p \in Patterns : Len(p) <= Len(longest)
  /\ AllowsPrivate \in BOOLEAN

VARIABLES
  content,    \* what is in each object
  advertised, \* the objects the destination's branches and tags point to
  given,      \* all that its branches and tags ever reached (a history)
  hook,       \* what the hook is doing
  queue,      \* the objects it has yet to inspect
  reading     \* the object being read, how much of it was, and the tail it kept

ph_vars == <<content, advertised, given, hook, queue, reading>>

Nothing == [object |-> "none", read |-> 0, tail |-> <<>>]
Quiet   == [phase |-> "idle", tips |-> {}, allow |-> FALSE]

ReachOf(S) == UNION {Reach[o] : o \in S}

PrivacyTypeOK ==
  /\ advertised \in SUBSET Objects /\ given \in SUBSET Objects
  /\ hook.phase \in {"idle", "staged", "listing", "listed", "scanning-commit", "scanning-push",
                     "committed", "pushed", "refused"}
  /\ hook.tips \in SUBSET Local /\ hook.allow \in BOOLEAN
  /\ queue \in SUBSET Local
  /\ reading.object \in Local \cup {"none"}
  /\ reading.object # "none" => reading.read \in 0..Len(content[reading.object])

PrivacyInit ==
  /\ content \in Samples
  /\ advertised \in SUBSET {o \in Objects : Kind[o] # "blob"}
  /\ given = ReachOf(advertised)
  /\ hook = Quiet
  /\ queue = {}
  /\ reading = Nothing

-----------------------------------------------------------------------------
(* inspect *)

Occurs(pattern, data) ==
  \E i \in 0..(Len(data) - Len(pattern)) :
    Len(pattern) <= Len(data) /\ SubSeq(data, i + 1, i + Len(pattern)) = pattern

Blocked(data) == \E p \in Patterns : Occurs(p, data)

\* Variant: the shortest spelling decides how much of a chunk is kept.
OverlapShort == (CHOOSE n \in {Len(p) : p \in Patterns} : \A p \in Patterns : n <= Len(p)) - 1

Overlap == (CHOOSE n \in {Len(p) : p \in Patterns} : \A p \in Patterns : n >= Len(p)) - 1

LastOf(n, s) == IF Len(s) <= n THEN s ELSE SubSeq(s, Len(s) - n + 1, Len(s))

-----------------------------------------------------------------------------
(* before_commit and before_push. *)

\* The identities, the paths and the message are inspected, and what is staged is
\* listed.  Private content is allowed if every remote is an allowed one.
BeforeCommit ==
  /\ hook = Quiet
  /\ \E staged \in SUBSET {o \in Local : Kind[o] = "blob"}, allow \in {FALSE, AllowsPrivate} :
       /\ hook' = [phase |-> "scanning-commit", tips |-> staged, allow |-> allow]
       /\ queue' = staged
  /\ UNCHANGED <<content, advertised, given, reading>>

\* The refs that are updated; a deletion publishes nothing.
BeforePush ==
  /\ hook = Quiet
  /\ \E tips \in SUBSET Local \ {{}} : hook' = [Quiet EXCEPT !.phase = "listing", !.tips = tips]
  /\ UNCHANGED <<content, advertised, given, queue, reading>>

\* "Only exclude current branch/tag objects actually advertised by this destination",
\* as far as they are known here and are commits or tags.
ListDestination ==
  /\ hook.phase = "listing"
  /\ LET bases == {o \in advertised \cap Local : Kind[o] \in {"commit", "tag"}}
     IN  queue' = hook.tips \cup (ReachOf(hook.tips) \ ReachOf(bases))
  /\ hook' = [hook EXCEPT !.phase = "listed"]
  /\ UNCHANGED <<content, advertised, given, reading>>

\* private_content: an allowed destination is exempt if GitHub says that it is private.
CheckVisibility ==
  /\ hook.phase = "listed"
  /\ \E allow \in {FALSE, AllowsPrivate} :
       hook' = [hook EXCEPT !.phase = "scanning-push", !.allow = allow]
  /\ UNCHANGED <<content, advertised, given, queue, reading>>

Scanning == hook.phase \in {"scanning-commit", "scanning-push"}

\* One object after the other.
OpenObject ==
  /\ Scanning /\ reading = Nothing
  /\ queue # {}
  /\ reading' = [Nothing EXCEPT !.object = CHOOSE o \in queue : TRUE]
  /\ UNCHANGED <<content, advertised, given, hook, queue>>

\* An allowed blob is read without being inspected.
ReadChunk ==
  /\ Scanning /\ reading # Nothing
  /\ LET data  == content[reading.object]
         end   == IF reading.read + Chunk < Len(data) THEN reading.read + Chunk ELSE Len(data)
         seen  == reading.tail \o SubSeq(data, reading.read + 1, end)
         exempt == hook.allow /\ Kind[reading.object] = "blob"
     IN  /\ reading.read < Len(data)
         /\ \/ /\ exempt
               /\ reading' = [reading EXCEPT !.read = end]
               /\ UNCHANGED hook
            \/ /\ ~exempt /\ ~Blocked(seen)
               /\ reading' = [reading EXCEPT !.read = end, !.tail = LastOf(Overlap, seen)]
               /\ UNCHANGED hook
            \/ /\ ~exempt /\ Blocked(seen)
               /\ hook' = [hook EXCEPT !.phase = "refused"]
               /\ UNCHANGED reading
  /\ UNCHANGED <<content, advertised, given, queue>>

CloseObject ==
  /\ Scanning /\ reading # Nothing /\ reading.read = Len(content[reading.object])
  /\ queue' = queue \ {reading.object}
  /\ reading' = Nothing
  /\ UNCHANGED <<content, advertised, given, hook>>

\* A command fails or times out, or Git's answer makes no sense.
FailClosed ==
  /\ hook.phase \notin {"idle", "committed", "pushed", "refused"}
  /\ hook' = [hook EXCEPT !.phase = "refused"]
  /\ UNCHANGED <<content, advertised, given, queue, reading>>

Permit ==
  /\ Scanning /\ queue = {} /\ reading = Nothing
  /\ hook' = [hook EXCEPT !.phase = IF @ = "scanning-push" THEN "pushed" ELSE "committed"]
  /\ UNCHANGED <<content, advertised, given, queue, reading>>

-----------------------------------------------------------------------------
(* The destination, in the hands of others. *)

Advertise(tips) ==
  /\ advertised' = tips
  /\ given' = given \cup ReachOf(tips)
  /\ UNCHANGED <<content, hook, queue, reading>>

OthersPush  == \E o \in Objects \ advertised : Advertise(advertised \cup {o})
OthersDrop  == \E o \in advertised : Advertise(advertised \ {o})

-----------------------------------------------------------------------------
PrivacyNext ==
  \/ BeforeCommit \/ BeforePush \/ ListDestination \/ CheckVisibility
  \/ OpenObject \/ ReadChunk \/ CloseObject \/ FailClosed \/ Permit
  \/ OthersPush \/ OthersDrop

PrivacySpec == PrivacyInit /\ [][PrivacyNext]_ph_vars

-----------------------------------------------------------------------------
(* Properties. *)

\* What the hook lets pass is clean: no spelling of a private address occurs anywhere
\* in an object that is staged, or that a push reaches and the destination was never
\* given before, except in blobs for a destination that was private when it looked.
NothingLeaks ==
  \A o \in Local :
    LET passed == \/ hook.phase = "committed" /\ o \in hook.tips
                  \/ hook.phase = "pushed" /\ o \in ReachOf(hook.tips) \ given
    IN  passed => ~Blocked(content[o]) \/ (hook.allow /\ Kind[o] = "blob")
=============================================================================

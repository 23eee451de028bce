------------------------ MODULE SessionPrograms_proofs ------------------------
(***************************************************************************)
(* What the programs of the user's session promise: the pairing guard, for *)
(* any adapters and any number of restarts of BlueZ; the privacy hook, for *)
(* any objects, contents, spellings and size of a chunk; the wallpaper     *)
(* preferences, for any catalog and operators; and the collection, for any *)
(* feed and any number of runs.                                            *)
(***************************************************************************)
EXTENDS BluetoothPairing, PrivacyHook, WallpaperPolicy, WallpaperCollection, SequenceTheorems,
        WellFoundedInduction, TLAPS

-----------------------------------------------------------------------------
(* The pairing guard. *)

\* Wherever BlueZ acknowledged the guard's write, pairing is off or something else
\* has changed it since; and a guard is done only when every write was acknowledged.
WritesHold ==
  /\ \A a \in Adapters : setting[a] = "handled" =>
       a \in touched \/ (a \in registered /\ a \notin pairable)
  /\ phase = "done" => \A a \in Adapters : setting[a] = "handled"

PairingInv == PairingTypeOK /\ NoneMissed /\ WritesHold

\* The guard and BlueZ start within the types.
LEMMA PairingStarts == PairingInit => PairingInv
  BY PairingAssumption DEF PairingInit, PairingInv, PairingTypeOK, NoneMissed, WritesHold

\* No step leaves the types: only a new generation of BlueZ counts up, to its bound.
LEMMA PairingTyped == ASSUME PairingTypeOK, [PairingNext]_bt_vars PROVE PairingTypeOK'
  <1> USE PairingAssumption DEF PairingTypeOK, bt_vars, bluez, guard
  <1>1. CASE AskOwner  BY <1>1 DEF AskOwner
  <1>2. CASE AddMatch  BY <1>2 DEF AddMatch
  <1>3. CASE Snapshot  BY <1>3 DEF Snapshot
  <1>4. CASE ReadSnapshot  BY <1>4 DEF ReadSnapshot
  <1>5. CASE Finished  BY <1>5 DEF Finished
  <1>6. ASSUME NEW a \in Adapters, ReadSignal(a) PROVE PairingTypeOK'
    BY <1>6 DEF ReadSignal
  <1>7. ASSUME NEW a \in Adapters, SendSet(a) PROVE PairingTypeOK'
    BY <1>7 DEF SendSet
  <1>8. ASSUME NEW a \in Adapters, HandleSet(a) PROVE PairingTypeOK'
    BY <1>8 DEF HandleSet
  <1>9. CASE GiveUp  BY <1>9 DEF GiveUp
  <1>10. CASE Crash  BY <1>10 DEF Crash, NextGeneration, Touch
  <1>11. CASE RestartService  BY <1>11 DEF RestartService, NextGeneration, GuardStarts
  <1>12. ASSUME NEW a \in Adapters, Register(a) \/ Unregister(a) \/ UserPairs(a)
         PROVE PairingTypeOK'
    BY <1>12 DEF Register, Unregister, UserPairs, Touch
  <1>13. CASE UNCHANGED bt_vars  BY <1>13
  <1> QED
    BY <1>1, <1>2, <1>3, <1>4, <1>5, <1>6, <1>7, <1>8, <1>9, <1>10, <1>11, <1>12, <1>13
    DEF PairingNext, GuardStep

\* An adapter registers before the snapshot, which lists it, or after the match was
\* acknowledged, and then its signal is on its way.
LEMMA PairingMisses ==
  ASSUME PairingTypeOK, NoneMissed, [PairingNext]_bt_vars PROVE NoneMissed'
  <1> USE DEF NoneMissed, bt_vars, bluez, guard, Matching
  <1>1. CASE AskOwner \/ AddMatch \/ Finished \/ GiveUp
    BY <1>1 DEF AskOwner, AddMatch, Finished, GiveUp
  <1>2. CASE Snapshot  BY <1>2 DEF Snapshot
  <1>3. CASE ReadSnapshot  BY <1>3 DEF ReadSnapshot
  <1>4. ASSUME NEW a \in Adapters, ReadSignal(a) PROVE NoneMissed'
    BY <1>4 DEF ReadSignal
  <1>5. ASSUME NEW a \in Adapters, SendSet(a) \/ HandleSet(a) PROVE NoneMissed'
    BY <1>5 DEF SendSet, HandleSet
  <1>6. CASE Crash  BY <1>6 DEF Crash, NextGeneration
  <1>7. CASE RestartService  BY <1>7 DEF RestartService, NextGeneration, GuardStarts
  <1>8. ASSUME NEW a \in Adapters, Register(a) PROVE NoneMissed'
    BY <1>8 DEF Register
  <1>9. ASSUME NEW a \in Adapters, Unregister(a) \/ UserPairs(a) PROVE NoneMissed'
    BY <1>9 DEF Unregister, UserPairs
  <1>10. CASE UNCHANGED bt_vars  BY <1>10
  <1> QED
    BY <1>1, <1>2, <1>3, <1>4, <1>5, <1>6, <1>7, <1>8, <1>9, <1>10 DEF PairingNext, GuardStep

\* Whoever changes an adapter after the acknowledged write touches it.
LEMMA PairingWrites ==
  ASSUME PairingTypeOK, WritesHold, [PairingNext]_bt_vars PROVE WritesHold'
  <1> USE DEF WritesHold, PairingTypeOK, bt_vars, bluez, guard
  <1>1. CASE AskOwner \/ AddMatch \/ Snapshot \/ ReadSnapshot \/ GiveUp
    BY <1>1 DEF AskOwner, AddMatch, Snapshot, ReadSnapshot, GiveUp
  <1>2. CASE Finished  BY <1>2 DEF Finished
  <1>3. ASSUME NEW a \in Adapters, ReadSignal(a) PROVE WritesHold'
    BY <1>3 DEF ReadSignal
  <1>4. ASSUME NEW a \in Adapters, SendSet(a) PROVE WritesHold'
    BY <1>4 DEF SendSet
  <1>5. ASSUME NEW a \in Adapters, HandleSet(a) PROVE WritesHold'
    BY <1>5 DEF HandleSet
  <1>6. CASE Crash  BY <1>6 DEF Crash, NextGeneration, Touch
  <1>7. CASE RestartService  BY <1>7 DEF RestartService, NextGeneration, GuardStarts
  <1>8. ASSUME NEW a \in Adapters, Register(a) \/ Unregister(a) \/ UserPairs(a) PROVE WritesHold'
    BY <1>8 DEF Register, Unregister, UserPairs, Touch
  <1>9. CASE UNCHANGED bt_vars  BY <1>9
  <1> QED
    BY <1>1, <1>2, <1>3, <1>4, <1>5, <1>6, <1>7, <1>8, <1>9 DEF PairingNext, GuardStep

\* The three parts are inductive together.
LEMMA PairingCarried == ASSUME PairingInv, [PairingNext]_bt_vars PROVE PairingInv'
  BY PairingTyped, PairingMisses, PairingWrites DEF PairingInv

LEMMA PairingInvariant == PairingSpec => []PairingInv
  BY PairingStarts, PairingCarried, PTL DEF PairingSpec

\* The guard's and BlueZ's state stays within its types, whatever crashes and returns.
THEOREM PairingTypeCorrect == PairingSpec => []PairingTypeOK
  <1>1. PairingInv => PairingTypeOK  BY DEF PairingInv
  <1> QED  BY <1>1, PairingInvariant, PTL

\* "Subscribe before inspecting current adapters" misses no adapter of the BlueZ it asks.
THEOREM NoAdapterMissed == PairingSpec => []NoneMissed
  <1>1. PairingInv => NoneMissed  BY DEF PairingInv
  <1> QED  BY <1>1, PairingInvariant, PTL

\* A guard that reports success has turned pairing off on every adapter.
THEOREM PairingIsOff == PairingSpec => []SuccessMeansOff
  <1>1. PairingInv => SuccessMeansOff  BY DEF PairingInv, WritesHold, SuccessMeansOff
  <1> QED  BY <1>1, PairingInvariant, PTL
-----------------------------------------------------------------------------
(* The privacy hook: spellings that straddle chunks. *)

\* The longest spelling leaves one symbol to the next chunk.
LEMMA OverlapCovers ==
  /\ Overlap \in Nat
  /\ \A p \in Patterns : p \in Seq(Symbols) /\ Len(p) \in 1..(Overlap + 1)
  <1> DEFINE Lens == {Len(p) : p \in Patterns}
             Longest(n) == \A p \in Patterns : n >= Len(p)
  <1>1. \A p \in Patterns : p \in Seq(Symbols) /\ Len(p) \in Nat \ {0}
    BY HookAssumption, EmptySeq
  <1>2. \E n \in Lens : Longest(n)
    BY <1>1, HookAssumption
  <1>3. (CHOOSE n \in Lens : Longest(n)) \in Lens /\ Longest(CHOOSE n \in Lens : Longest(n))
    <2> HIDE DEF Lens, Longest
    <2> QED  BY <1>2
  <1>4. PICK m : m = (CHOOSE n \in Lens : Longest(n))
    OBVIOUS
  <1>5. Overlap = m - 1  BY <1>4 DEF Overlap
  <1>6. m \in Nat \ {0} /\ \A p \in Patterns : m >= Len(p)
    BY <1>1, <1>3, <1>4
  <1> QED  BY <1>1, <1>5, <1>6

\* A spelling occurs in a part of an object where it occurs in the object.
LEMMA OccursInPart ==
  ASSUME NEW data \in Seq(Symbols), NEW m \in 0..Len(data), NEW a \in 0..m, NEW p \in Patterns
  PROVE  Occurs(p, SubSeq(data, a + 1, m)) <=>
           \E i \in a..(m - Len(p)) : SubSeq(data, i + 1, i + Len(p)) = p
  <1> DEFINE part == SubSeq(data, a + 1, m)
  <1>1. Len(p) \in Nat \ {0} /\ p \in Seq(Symbols)  BY OverlapCovers
  <1>2. Len(data) \in Nat /\ \A i \in 1..Len(data) : data[i] \in Symbols  BY LenProperties, ElementOfSeq
  <1>3. part \in Seq(Symbols) /\ Len(part) = m - a
    BY <1>2, SubSeqProperties
  <1>4. ASSUME NEW i \in Int, 0 <= i, i + Len(p) <= m - a
        PROVE  SubSeq(part, i + 1, i + Len(p)) = SubSeq(data, a + i + 1, a + i + Len(p))
    <2>1. a + 1 \in 1..Len(data) /\ m \in 1..Len(data)  BY <1>1, <1>2, <1>4
    <2>2. i + 1 \in 1..(m - (a + 1) + 1) /\ i + Len(p) \in 1..(m - (a + 1) + 1)
      BY <1>1, <1>2, <1>4
    <2>3. SubSeq(part, i + 1, i + Len(p))
            = SubSeq(data, (a + 1) + (i + 1) - 1, (a + 1) + (i + Len(p)) - 1)
      BY <2>1, <2>2, SubSeqOfSubSeq
    <2>4. (a + 1) + (i + 1) - 1 = a + i + 1 /\ (a + 1) + (i + Len(p)) - 1 = a + i + Len(p)
      BY <1>1
    <2> QED  BY <2>3, <2>4
  <1>5. ASSUME Occurs(p, part)
        PROVE  \E i \in a..(m - Len(p)) : SubSeq(data, i + 1, i + Len(p)) = p
    <2>1. PICK i \in 0..(Len(part) - Len(p)) : SubSeq(part, i + 1, i + Len(p)) = p
      BY <1>5 DEF Occurs
    <2>2. i \in Int /\ 0 <= i /\ i + Len(p) <= m - a /\ a + i \in a..(m - Len(p))
      BY <1>1, <1>2, <1>3, <2>1
    <2>3. SubSeq(data, a + i + 1, a + i + Len(p)) = p
      BY <1>4, <2>1, <2>2
    <2> QED  BY <2>2, <2>3
  <1>6. ASSUME NEW i \in a..(m - Len(p)), SubSeq(data, i + 1, i + Len(p)) = p
        PROVE  Occurs(p, part)
    <2>1. i - a \in 0..(Len(part) - Len(p))  BY <1>1, <1>2, <1>3
    <2>2. SubSeq(part, (i - a) + 1, (i - a) + Len(p)) = p
      <3>1. SubSeq(part, (i - a) + 1, (i - a) + Len(p)) = SubSeq(data, a + (i - a) + 1, a + (i - a) + Len(p))
        BY <1>1, <1>3, <1>4, <2>1
      <3>2. a + (i - a) + 1 = i + 1 /\ a + (i - a) + Len(p) = i + Len(p)  BY <1>1
      <3> QED  BY <1>6, <3>1, <3>2
    <2>3. Len(p) <= Len(part)  BY <1>1, <1>3, <2>1
    <2> QED  BY <2>1, <2>2, <2>3 DEF Occurs
  <1> QED  BY <1>5, <1>6

\* Where the tail begins after n symbols.
ChunkStart(n) == IF n <= Overlap THEN 0 ELSE n - Overlap

\* A chunk inspected behind the tail of what was clean leaves nothing unseen: a spelling
\* that ends in the chunk begins in the tail or later.
LEMMA ChunkCovers ==
  ASSUME NEW data \in Seq(Symbols), NEW m \in 0..Len(data), NEW n \in 0..m,
         ~Blocked(SubSeq(data, 1, n)), ~Blocked(SubSeq(data, ChunkStart(n) + 1, m))
  PROVE  ~Blocked(SubSeq(data, 1, m))
  <1>1. SUFFICES ASSUME NEW p \in Patterns, Occurs(p, SubSeq(data, 1, m)) PROVE FALSE
    BY DEF Blocked
  <1>2. Len(data) \in Nat  BY LenProperties
  <1>3. Overlap \in Nat /\ Len(p) \in 1..(Overlap + 1)  BY OverlapCovers
  <1>4. ChunkStart(n) \in 0..n  BY <1>2, <1>3 DEF ChunkStart
  <1>5. PICK i \in 0..(m - Len(p)) : SubSeq(data, i + 1, i + Len(p)) = p
    <2>1. 0 \in 0..m /\ 0 + 1 = 1  BY <1>2
    <2> QED  BY <1>1, <1>2, <2>1, OccursInPart
  <1>6. CASE i + Len(p) <= n
    <2>1. i \in 0..(n - Len(p)) /\ n \in 0..Len(data) /\ 0 \in 0..n /\ 0 + 1 = 1
      BY <1>2, <1>3, <1>6
    <2>2. Occurs(p, SubSeq(data, 1, n))  BY <1>5, <2>1, OccursInPart
    <2> QED  BY <2>2 DEF Blocked
  <1>7. CASE i + Len(p) > n
    <2>1. i >= ChunkStart(n)  BY <1>2, <1>3, <1>7 DEF ChunkStart
    <2>2. ChunkStart(n) \in 0..m /\ i \in ChunkStart(n)..(m - Len(p))
      BY <1>2, <1>3, <1>4, <2>1
    <2>3. Occurs(p, SubSeq(data, ChunkStart(n) + 1, m))  BY <1>5, <2>2, OccursInPart
    <2> QED  BY <2>3 DEF Blocked
  <1> QED  BY <1>2, <1>3, <1>6, <1>7

\* The tail and the chunk are a part of the object, and what is kept of them is its tail.
LEMMA TailMoves ==
  ASSUME NEW data \in Seq(Symbols), NEW m \in 0..Len(data), NEW n \in 0..m
  PROVE  /\ SubSeq(data, ChunkStart(n) + 1, n) \o SubSeq(data, n + 1, m) = SubSeq(data, ChunkStart(n) + 1, m)
         /\ LastOf(Overlap, SubSeq(data, ChunkStart(n) + 1, m)) = SubSeq(data, ChunkStart(m) + 1, m)
  <1> DEFINE part == SubSeq(data, ChunkStart(n) + 1, m)
  <1>1. Len(data) \in Nat /\ \A i \in 1..Len(data) : data[i] \in Symbols
    BY LenProperties, ElementOfSeq
  <1>2. Overlap \in Nat  BY OverlapCovers
  <1>3. ChunkStart(n) \in 0..n /\ ChunkStart(m) \in 0..m /\ ChunkStart(n) <= ChunkStart(m)
    BY <1>1, <1>2 DEF ChunkStart
  <1>4. SubSeq(data, ChunkStart(n) + 1, n) \o SubSeq(data, n + 1, m) = part
    <2>1. /\ ChunkStart(n) + 1 \in 1..(Len(data) + 1) /\ n \in ((ChunkStart(n) + 1) - 1)..Len(data)
          /\ m \in n..Len(data)
      BY <1>1, <1>3
    <2> QED  BY <2>1, ConcatAdjacentSubSeq
  <1>5. Len(part) = m - ChunkStart(n)
    BY <1>1, <1>3, SubSeqProperties
  <1>6. ASSUME Len(part) <= Overlap PROVE LastOf(Overlap, part) = SubSeq(data, ChunkStart(m) + 1, m)
    <2>1. ChunkStart(m) = ChunkStart(n)  BY <1>1, <1>2, <1>3, <1>5, <1>6 DEF ChunkStart
    <2> QED  BY <1>6, <2>1 DEF LastOf
  <1>7. ASSUME ~(Len(part) <= Overlap)
        PROVE  LastOf(Overlap, part) = SubSeq(data, ChunkStart(m) + 1, m)
    <2>1. PICK s \in 0..n : s = ChunkStart(n)  BY <1>3
    <2>2. Overlap < m - s /\ m \in Nat /\ s \in Nat /\ m <= Len(data)
      BY <1>1, <1>2, <1>5, <1>7, <2>1
    <2>3. ChunkStart(m) = m - Overlap  BY <1>2, <2>2 DEF ChunkStart
    <2>4. LastOf(Overlap, part) = SubSeq(part, (m - s) - Overlap + 1, m - s)
      <3> HIDE DEF part
      <3> QED  BY <1>5, <1>7, <2>1 DEF LastOf
    <2>5. SubSeq(part, (m - s) - Overlap + 1, m - s) = SubSeq(data, (m - Overlap) + 1, m)
      <3>1. CASE Overlap = 0
        BY <2>2, <3>1, SubSeqEmpty
      <3>2. CASE Overlap > 0
        <4>1. /\ s + 1 \in 1..Len(data) /\ m \in 1..Len(data)
              /\ (m - s) - Overlap + 1 \in 1..(m - (s + 1) + 1)
              /\ m - s \in 1..(m - (s + 1) + 1)
          BY <1>1, <1>2, <2>2, <3>2
        <4>2. SubSeq(SubSeq(data, s + 1, m), (m - s) - Overlap + 1, m - s)
                = SubSeq(data, (s + 1) + ((m - s) - Overlap + 1) - 1, (s + 1) + (m - s) - 1)
          <5> DEFINE k == (m - s) - Overlap + 1
                     l == m - s
          <5>1. k \in 1..(m - (s + 1) + 1) /\ l \in 1..(m - (s + 1) + 1)  BY <4>1
          <5> HIDE DEF k, l
          <5>2. SubSeq(SubSeq(data, s + 1, m), k, l) = SubSeq(data, (s + 1) + k - 1, (s + 1) + l - 1)
            BY <4>1, <5>1, SubSeqOfSubSeq
          <5> QED  BY <5>2 DEF k, l
        <4>3. (s + 1) + ((m - s) - Overlap + 1) - 1 = (m - Overlap) + 1 /\ (s + 1) + (m - s) - 1 = m
          BY <1>2, <2>2
        <4> QED  BY <2>1, <4>2, <4>3
      <3>3. Overlap = 0 \/ Overlap > 0  BY <1>2
      <3> QED  BY <3>1, <3>2, <3>3
    <2> QED  BY <2>3, <2>4, <2>5
  <1>8. LastOf(Overlap, part) = SubSeq(data, ChunkStart(m) + 1, m)  BY <1>6, <1>7
  <1> QED  BY <1>4, <1>8
-----------------------------------------------------------------------------
(* The privacy hook: what it has inspected. *)

HookTyped ==
  /\ content \in [Objects -> Seq(Symbols)]
  /\ hook \in [phase : {"idle", "staged", "listing", "listed", "scanning-commit", "scanning-push",
                        "committed", "pushed", "refused"},
               tips : SUBSET Local, allow : BOOLEAN]
  /\ queue \in SUBSET Local
  /\ advertised \in SUBSET Objects /\ given \in SUBSET Objects
  /\ ReachOf(advertised) \subseteq given
  /\ reading \in [object : Local \cup {"none"}, read : Nat, tail : Seq(Symbols)]

\* An object is being read only in a scan; what was read of it is clean, and its tail is
\* kept, unless it is exempt.
ReadInv == reading # Nothing =>
  LET data == content[reading.object]
  IN  /\ reading.object \in queue
      /\ reading.read \in 0..Len(data)
      /\ hook.phase \in {"scanning-commit", "scanning-push", "refused"}
      /\ \/ hook.allow /\ Kind[reading.object] = "blob"
         \/ /\ reading.tail = SubSeq(data, ChunkStart(reading.read) + 1, reading.read)
            /\ ~Blocked(SubSeq(data, 1, reading.read))

Clean(o) == ~Blocked(content[o]) \/ (hook.allow /\ Kind[o] = "blob")

\* Whatever has to be inspected waits or is clean, and nothing waits in the end.
ScanInv ==
  /\ hook.phase \in {"scanning-commit", "committed"} => \A o \in hook.tips : o \in queue \/ Clean(o)
  /\ hook.phase = "listed" => ReachOf(hook.tips) \ given \subseteq queue
  /\ hook.phase \in {"scanning-push", "pushed"} =>
       \A o \in ReachOf(hook.tips) \ given : o \in queue \/ Clean(o)
  /\ hook.phase \in {"committed", "pushed"} => queue = {}

HookInv == HookTyped /\ ReadInv /\ ScanInv

\* Nothing is inspected yet.
LEMMA HookStarts == PrivacyInit => HookInv
  <1>1. ASSUME PrivacyInit PROVE HookTyped
    <2>1. \A S \in SUBSET Objects : ReachOf(S) \subseteq Objects  BY HookAssumption DEF ReachOf
    <2>2. advertised \in SUBSET Objects  BY <1>1 DEF PrivacyInit
    <2>3. <<>> \in Seq(Symbols)  BY EmptySeq
    <2> QED  BY <1>1, <2>1, <2>2, <2>3, HookAssumption DEF PrivacyInit, HookTyped, Quiet, Nothing
  <1> QED  BY <1>1 DEF PrivacyInit, HookInv, ReadInv, ScanInv, Quiet

\* No step leaves the types, and what the destination reaches was given to it.
LEMMA HookKeepsTypes == ASSUME HookTyped, ReadInv, [PrivacyNext]_ph_vars PROVE HookTyped'
  <1> USE DEF HookTyped
  <1>0. <<>> \in Seq(Symbols)  BY EmptySeq
  <1>1. CASE BeforeCommit
    <2>1. PICK staged \in SUBSET Local, allow \in BOOLEAN :
            /\ hook' = [phase |-> "scanning-commit", tips |-> staged, allow |-> allow]
            /\ queue' = staged
      BY <1>1, HookAssumption DEF BeforeCommit
    <2> QED  BY <1>1, <2>1 DEF BeforeCommit, ReachOf
  <1>2. CASE BeforePush  BY <1>2, HookAssumption DEF BeforePush, Quiet, ReachOf
  <1>3. CASE ListDestination
    <2>1. ReachOf(hook.tips) \subseteq Local  BY HookAssumption DEF ReachOf
    <2> QED  BY <1>3, <2>1 DEF ListDestination, ReachOf
  <1>4. CASE CheckVisibility  BY <1>4, HookAssumption DEF CheckVisibility, ReachOf
  <1>5. CASE OpenObject  BY <1>0, <1>5 DEF OpenObject, Nothing, ReachOf
  <1>6. CASE ReadChunk
    <2> DEFINE data == content[reading.object]
               end  == IF reading.read + Chunk < Len(data) THEN reading.read + Chunk ELSE Len(data)
               seen == reading.tail \o SubSeq(data, reading.read + 1, end)
    <2>1. reading.object \in queue /\ reading.read \in 0..Len(data) /\ data \in Seq(Symbols)
      BY <1>6, HookAssumption DEF ReadChunk, ReadInv
    <2>2. Len(data) \in Nat /\ \A i \in 1..Len(data) : data[i] \in Symbols
      BY <2>1, LenProperties, ElementOfSeq
    <2>3. end \in reading.read..Len(data)  BY <2>1, <2>2, HookAssumption
    <2>4. seen \in Seq(Symbols)
      <3>1. SubSeq(data, reading.read + 1, end) \in Seq(Symbols)
        BY <2>1, <2>2, <2>3, SubSeqProperties
      <3>2. reading.tail \in Seq(Symbols)  OBVIOUS
      <3> QED  BY <3>1, <3>2, ConcatProperties
    <2>5. LastOf(Overlap, seen) \in Seq(Symbols)
      <3> HIDE DEF seen
      <3>1. Len(seen) \in Nat /\ \A i \in 1..Len(seen) : seen[i] \in Symbols
        BY <2>4, LenProperties, ElementOfSeq
      <3> QED  BY <2>4, <3>1, OverlapCovers, SubSeqProperties DEF LastOf
    <2>6. /\ reading' \in {reading, [reading EXCEPT !.read = end],
                          [reading EXCEPT !.read = end, !.tail = LastOf(Overlap, seen)]}
          /\ hook' \in {hook, [hook EXCEPT !.phase = "refused"]}
          /\ UNCHANGED <<content, advertised, given, queue>>
      BY <1>6 DEF ReadChunk
    <2>7. end \in Nat  BY <2>1, <2>2, <2>3
    <2> HIDE DEF end, seen
    <2> QED  BY <2>5, <2>6, <2>7 DEF ReachOf
  <1>7. CASE CloseObject  BY <1>0, <1>7 DEF CloseObject, Nothing, ReachOf
  <1>8. CASE FailClosed  BY <1>8 DEF FailClosed, ReachOf
  <1>9. CASE Permit  BY <1>9 DEF Permit, ReachOf
  <1>10. ASSUME NEW tips \in SUBSET Objects, Advertise(tips) PROVE HookTyped'
    <2>1. ReachOf(tips) \subseteq Objects  BY HookAssumption DEF ReachOf
    <2> QED  BY <1>10, <2>1 DEF Advertise, ReachOf
  <1>11. CASE OthersPush \/ OthersDrop
    <2>1. PICK tips \in SUBSET Objects : Advertise(tips)  BY <1>11 DEF OthersPush, OthersDrop
    <2> QED  BY <1>10, <2>1
  <1>12. CASE UNCHANGED ph_vars  BY <1>12 DEF ph_vars, ReachOf
  <1> QED
    BY <1>1, <1>2, <1>3, <1>4, <1>5, <1>6, <1>7, <1>8, <1>9, <1>11, <1>12 DEF PrivacyNext

\* A chunk that was let pass leaves the invariant of reading intact.
LEMMA ChunkRead == ASSUME HookTyped, ReadInv, ReadChunk PROVE ReadInv'
  <1> DEFINE data == content[reading.object]
             n    == reading.read
             end  == IF n + Chunk < Len(data) THEN n + Chunk ELSE Len(data)
             seen == reading.tail \o SubSeq(data, n + 1, end)
             exempt == hook.allow /\ Kind[reading.object] = "blob"
  <1>1. /\ reading.object \in queue /\ n \in 0..Len(data) /\ data \in Seq(Symbols)
        /\ hook.phase \in {"scanning-commit", "scanning-push"} /\ reading # Nothing
    BY HookAssumption DEF ReadChunk, ReadInv, HookTyped, Scanning
  <1>2. Len(data) \in Nat  BY <1>1, LenProperties
  <1>3. end \in 0..Len(data) /\ n \in 0..end  BY <1>1, <1>2, HookAssumption
  <1>4. CASE exempt /\ reading' = [reading EXCEPT !.read = end] /\ UNCHANGED hook
    <2>1. /\ reading'.object = reading.object /\ reading'.read = end
          /\ UNCHANGED <<content, queue, hook>>
      BY <1>4 DEF ReadChunk, HookTyped
    <2> HIDE DEF end
    <2> QED  BY <1>1, <1>3, <1>4, <2>1 DEF ReadInv
  <1>5. CASE /\ ~exempt /\ ~Blocked(seen) /\ UNCHANGED hook
             /\ reading' = [reading EXCEPT !.read = end, !.tail = LastOf(Overlap, seen)]
    <2>1. reading.tail = SubSeq(data, ChunkStart(n) + 1, n) /\ ~Blocked(SubSeq(data, 1, n))
      BY <1>1, <1>5 DEF ReadInv
    <2>2. /\ seen = SubSeq(data, ChunkStart(n) + 1, end)
          /\ LastOf(Overlap, seen) = SubSeq(data, ChunkStart(end) + 1, end)
      <3> HIDE DEF data, n, end
      <3> QED  BY <1>1, <1>3, <2>1, TailMoves
    <2>3. ~Blocked(SubSeq(data, 1, end))
      <3> HIDE DEF data, n, end
      <3> QED  BY <1>1, <1>3, <1>5, <2>1, <2>2, ChunkCovers
    <2>4. /\ reading'.object = reading.object /\ reading'.read = end
          /\ reading'.tail = LastOf(Overlap, seen) /\ UNCHANGED <<content, queue, hook>>
      BY <1>5 DEF ReadChunk, HookTyped
    <2> HIDE DEF end, seen
    <2> QED  BY <1>1, <1>3, <2>2, <2>3, <2>4 DEF ReadInv
  <1>6. CASE hook' = [hook EXCEPT !.phase = "refused"] /\ UNCHANGED reading
    BY <1>1, <1>6 DEF ReadChunk, ReadInv, HookTyped
  <1> QED  BY <1>4, <1>5, <1>6 DEF ReadChunk

\* Only a scan reads, and it reads what waits.
LEMMA HookReads == ASSUME HookTyped, ReadInv, [PrivacyNext]_ph_vars PROVE ReadInv'
  <1>1. CASE BeforeCommit \/ BeforePush \/ ListDestination \/ CheckVisibility
    <2>1. hook.phase \in {"idle", "listing", "listed"} /\ UNCHANGED reading
      <3>1. ASSUME BeforeCommit \/ BeforePush PROVE hook.phase = "idle" /\ UNCHANGED reading
        <4>1. hook = Quiet /\ UNCHANGED reading  BY <3>1 DEF BeforeCommit, BeforePush
        <4> QED  BY <4>1 DEF Quiet
      <3> QED  BY <1>1, <3>1 DEF ListDestination, CheckVisibility
    <2> QED  BY <2>1 DEF ReadInv
  <1>2. CASE OpenObject
    <2>1. reading'.object \in queue /\ reading'.read = 0 /\ reading'.tail = <<>>
      BY <1>2 DEF OpenObject, Nothing
    <2> DEFINE data == content[reading'.object]
    <2>2. data \in Seq(Symbols)  BY <2>1, HookAssumption DEF HookTyped
    <2>3. Len(data) \in Nat  BY <2>2, LenProperties
    <2>4. ChunkStart(0) = 0  BY OverlapCovers DEF ChunkStart
    <2>5. <<>> = SubSeq(data, ChunkStart(0) + 1, 0)  BY <2>4, SubSeqEmpty
    <2>6. ~Blocked(SubSeq(data, 1, 0))
      <3>1. ASSUME NEW p \in Patterns PROVE ~Occurs(p, SubSeq(data, 1, 0))
        <4>1. 0 \in 0..Len(data) /\ 0 \in 0..0 /\ 0 + 1 = 1  BY <2>3
        <4>2. 0..(0 - Len(p)) = {}  BY OverlapCovers
        <4> HIDE DEF data
        <4> QED  BY <2>2, <4>1, <4>2, OccursInPart
      <3> QED  BY <3>1 DEF Blocked
    <2>7. UNCHANGED <<content, queue, hook>> /\ hook.phase \in {"scanning-commit", "scanning-push"}
      BY <1>2 DEF OpenObject, Scanning
    <2> QED  BY <2>1, <2>3, <2>5, <2>6, <2>7 DEF ReadInv
  <1>3. CASE ReadChunk  BY <1>3, ChunkRead
  <1>4. CASE CloseObject  BY <1>4 DEF CloseObject, ReadInv
  <1>5. CASE FailClosed  BY <1>5 DEF FailClosed, ReadInv, HookTyped
  <1>6. CASE Permit  BY <1>6 DEF Permit, ReadInv
  <1>7. CASE OthersPush \/ OthersDrop
    <2>1. UNCHANGED <<content, hook, queue, reading>>
      BY <1>7 DEF OthersPush, OthersDrop, Advertise
    <2> QED  BY <2>1 DEF ReadInv
  <1>8. CASE UNCHANGED ph_vars  BY <1>8 DEF ph_vars, ReadInv
  <1> QED  BY <1>1, <1>2, <1>3, <1>4, <1>5, <1>6, <1>7, <1>8 DEF PrivacyNext

\* An object leaves the queue once all of it was read.
LEMMA HookScans == ASSUME HookInv, [PrivacyNext]_ph_vars PROVE ScanInv'
  <1> USE DEF HookInv, HookTyped, ScanInv
  <1>1. CASE BeforeCommit  BY <1>1 DEF BeforeCommit
  <1>2. CASE BeforePush  BY <1>2 DEF BeforePush, Quiet
  <1>3. CASE ListDestination
    <2>1. ReachOf({o \in advertised \cap Local : Kind[o] \in {"commit", "tag"}}) \subseteq given
      BY DEF ReachOf
    <2> QED  BY <1>3, <2>1 DEF ListDestination
  <1>4. CASE CheckVisibility  BY <1>4 DEF CheckVisibility
  <1>5. CASE OpenObject  BY <1>5 DEF OpenObject, Clean
  <1>6. CASE ReadChunk
    <2>1. UNCHANGED <<content, given, queue>> /\ hook' \in {hook, [hook EXCEPT !.phase = "refused"]}
      BY <1>6 DEF ReadChunk
    <2> QED  BY <2>1 DEF Clean
  <1>7. CASE CloseObject
    <2> DEFINE data == content[reading.object]
    <2>1. /\ reading.object \in queue /\ reading.read = Len(data) /\ data \in Seq(Symbols)
          /\ \/ hook.allow /\ Kind[reading.object] = "blob"
             \/ ~Blocked(SubSeq(data, 1, reading.read))
      BY <1>7, HookAssumption DEF CloseObject, ReadInv
    <2>2. Clean(reading.object)  BY <2>1, SubSeqFull DEF Clean
    <2>3. UNCHANGED <<content, given, hook>> /\ queue' = queue \ {reading.object} /\ Scanning
      BY <1>7 DEF CloseObject
    <2> QED  BY <2>2, <2>3 DEF Clean, Scanning
  <1>8. CASE FailClosed  BY <1>8 DEF FailClosed
  <1>9. CASE Permit
    <2>1. /\ UNCHANGED <<content, given, queue>> /\ queue = {} /\ Scanning
          /\ hook' = [hook EXCEPT !.phase = IF @ = "scanning-push" THEN "pushed" ELSE "committed"]
      BY <1>9 DEF Permit
    <2> QED  BY <2>1 DEF Clean, Scanning
  <1>10. CASE OthersPush \/ OthersDrop
    <2>1. UNCHANGED <<content, hook, queue>> /\ given \subseteq given'
      BY <1>10 DEF OthersPush, OthersDrop, Advertise
    <2> QED  BY <2>1 DEF Clean
  <1>11. CASE UNCHANGED ph_vars  BY <1>11 DEF ph_vars, Clean
  <1> QED
    BY <1>1, <1>2, <1>3, <1>4, <1>5, <1>6, <1>7, <1>8, <1>9, <1>10, <1>11 DEF PrivacyNext

\* The three parts are inductive together.
LEMMA HookCarried == ASSUME HookInv, [PrivacyNext]_ph_vars PROVE HookInv'
  BY HookKeepsTypes, HookReads, HookScans DEF HookInv

LEMMA HookFits == ASSUME HookInv PROVE PrivacyTypeOK
  BY DEF HookInv, HookTyped, ReadInv, PrivacyTypeOK, Nothing

LEMMA HookInvariant == PrivacySpec => []HookInv
  BY HookStarts, HookCarried, PTL DEF PrivacySpec

\* What the hook keeps in memory stays within its types: it never reads past an object.
THEOREM PrivacyTypeCorrect == PrivacySpec => []PrivacyTypeOK
  BY HookFits, HookInvariant, PTL

\* For any objects, any spellings and any size of a chunk: what a commit stages or a push
\* brings to the destination holds no blocked address, however it straddles the chunks and
\* whatever others push or delete in between, except in blobs of an allowed destination.
THEOREM NoAddressPasses == PrivacySpec => []NothingLeaks
  <1>1. HookInv => NothingLeaks
    BY DEF HookInv, ScanInv, NothingLeaks, Clean
  <1> QED  BY <1>1, HookInvariant, PTL

-----------------------------------------------------------------------------
(* The wallpaper preferences. *)

Holds(p) == editor[p].at \in {"locked", "read"}

\* Whoever is past the lock is alone there, and what it has read is what the file
\* still holds.
EditInv ==
  /\ overrides \in [Switches -> Positions]
  /\ overrides = wanted
  /\ editor \in [Operators -> [at : {"idle", "waiting", "locked", "read"},
                               copy : {{}} \cup [Switches -> Positions]]]
  /\ \A p \in Operators : Holds(p) => lock = {p}
  /\ \A p \in Operators : editor[p].at = "read" => editor[p].copy = overrides

\* A file nobody has written holds no choice.
LEMMA EditStarts == PolicyInit => EditInv
  BY DEF PolicyInit, EditInv, Holds, Idle, Positions

\* Only the holder of the lock reads and replaces the file.
LEMMA EditCarried == ASSUME EditInv, [PolicyNext]_wp_vars PROVE EditInv'
  <1> USE DEF EditInv, Holds
  <1>1. ASSUME NEW p \in Operators, BeginEdit(p) PROVE EditInv'
    BY <1>1 DEF BeginEdit
  <1>2. ASSUME NEW p \in Operators, Lock(p) PROVE EditInv'
    BY <1>2 DEF Lock
  <1>3. ASSUME NEW p \in Operators, ReadOverrides(p) PROVE EditInv'
    <2> DEFINE r == [editor[p] EXCEPT !.at = "read", !.copy = overrides]
               Edits == [at : {"idle", "waiting", "locked", "read"},
                         copy : {{}} \cup [Switches -> Positions]]
    <2>1. r \in Edits /\ r.at = "read" /\ r.copy = overrides
      <3>1. editor[p] \in Edits /\ overrides \in {{}} \cup [Switches -> Positions]  OBVIOUS
      <3> QED  BY <3>1
    <2>2. editor' = [editor EXCEPT ![p] = r]  BY <1>3 DEF ReadOverrides
    <2> HIDE DEF r
    <2>3. editor' \in [Operators -> Edits] /\ editor'[p] = r /\ \A q \in Operators : q # p => editor'[q] = editor[q]
      BY <2>1, <2>2
    <2>4. UNCHANGED <<overrides, lock, wanted>> /\ lock = {p}  BY <1>3 DEF ReadOverrides
    <2> QED  BY <2>1, <2>3, <2>4
  <1>4. ASSUME NEW p \in Operators, Publish(p) PROVE EditInv'
    <2>1. PICK k \in Switches, v \in Positions :
            /\ overrides' = [editor[p].copy EXCEPT ![k] = v]
            /\ wanted' = [wanted EXCEPT ![k] = v]
      BY <1>4 DEF Publish
    <2>2. editor[p].copy = overrides
      BY <1>4 DEF Publish
    <2>3. overrides' \in [Switches -> Positions] /\ overrides' = wanted'
      <3>1. overrides' = [overrides EXCEPT ![k] = v]  BY <2>1, <2>2
      <3>2. wanted' = overrides'  BY <2>1, <3>1
      <3>3. [overrides EXCEPT ![k] = v] \in [Switches -> Positions]  BY <2>1
      <3> QED  BY <3>1, <3>2, <3>3
    <2>4. editor' = [editor EXCEPT ![p] = Idle] /\ lock' = lock \ {p}
      BY <1>4 DEF Publish
    <2>5. \A q \in Operators : ~Holds(q)'
      <3>1. \A q \in Operators : Holds(q) => q = p
        BY <1>4 DEF Publish
      <3> QED  BY <2>4, <3>1 DEF Idle
    <2>6. editor' \in [Operators -> [at : {"idle", "waiting", "locked", "read"},
                                     copy : {{}} \cup [Switches -> Positions]]]
      BY <2>4 DEF Idle
    <2> QED  BY <2>3, <2>5, <2>6
  <1>5. ASSUME NEW p \in Operators, AbandonEdit(p) PROVE EditInv'
    BY <1>5 DEF AbandonEdit, Idle
  <1>6. CASE UNCHANGED preferences
    BY <1>6 DEF preferences
  <1> QED
    BY <1>1, <1>2, <1>3, <1>4, <1>5, <1>6
    DEF PolicyNext, BeginRotation, FilterLibrary, Clear, Show, RotationFails, RemoveImage, wp_vars

\* "Edit one explicit preference, keeping all other choices intact": no completed
\* command's choice is lost to another that edits or dies beside it.
THEOREM NoChoiceLost == PolicySpec => []ChoicesKept
  <1>1. PolicyInit => EditInv  BY EditStarts
  <1>2. EditInv /\ [PolicyNext]_wp_vars => EditInv'  BY EditCarried
  <1>3. EditInv => ChoicesKept  BY DEF EditInv, ChoicesKept
  <1> QED  BY <1>1, <1>2, <1>3, PTL DEF PolicySpec

Present == Merge(Defaults, wanted)

\* What a rotation may show fits the settings it read; those are the present ones if no
\* command has completed since, and so is what has been shown on their account.
ShownInv ==
  /\ rotation = [at |-> rotation.at, settings |-> rotation.settings,
                 candidates |-> rotation.candidates]
  /\ rotation.at # "idle" /\ fresh => rotation.settings = Present
  /\ rotation.at = "listed" => \A i \in rotation.candidates : Eligible(i, rotation.settings)
  /\ settled /\ shown # NoImage => Eligible(shown, Present)

\* A rotation starts from the choices made so far; a completed command takes back the
\* claim that what is shown follows them.
LEMMA ShownCarried == ASSUME EditInv, ShownInv, [PolicyNext]_wp_vars PROVE ShownInv'
  <1>1. CASE \E p \in Operators : BeginEdit(p) \/ Lock(p) \/ ReadOverrides(p) \/ AbandonEdit(p)
    <2>1. UNCHANGED <<wanted, rotation, shown, fresh, settled>>
      BY <1>1 DEF BeginEdit, Lock, ReadOverrides, AbandonEdit
    <2> QED  BY <2>1 DEF ShownInv, Present
  <1>2. CASE \E p \in Operators : Publish(p)
    <2>1. rotation' = rotation /\ fresh' = FALSE /\ settled' = FALSE  BY <1>2 DEF Publish
    <2> QED  BY <2>1 DEF ShownInv
  <1>3. CASE BeginRotation
    <2>1. /\ rotation' = [at |-> "reading", settings |-> Merge(Defaults, overrides), candidates |-> {}]
          /\ UNCHANGED <<wanted, shown, settled>> /\ overrides = wanted
      BY <1>3 DEF BeginRotation, Resting, preferences, EditInv
    <2> QED  BY <2>1 DEF ShownInv, Present
  <1>4. CASE FilterLibrary
    <2>1. /\ rotation' = [at |-> "listed", settings |-> rotation.settings,
                          candidates |-> {i \in library : Eligible(i, rotation.settings)}]
          /\ rotation.at # "idle"
          /\ UNCHANGED <<wanted, shown, fresh, settled>>
      BY <1>4 DEF FilterLibrary, preferences, ShownInv
    <2> QED  BY <2>1 DEF ShownInv, Present
  <1>5. CASE Clear
    <2>1. rotation' = Resting /\ shown' = NoImage  BY <1>5 DEF Clear
    <2> QED  BY <2>1 DEF ShownInv, Resting
  <1>6. CASE Show
    <2>1. /\ rotation' = Resting /\ shown' \in rotation.candidates /\ rotation.at = "listed"
          /\ settled' = fresh /\ wanted' = wanted
      BY <1>6 DEF Show, preferences
    <2> QED  BY <2>1 DEF ShownInv, Resting, Present
  <1>7. CASE RotationFails
    <2>1. rotation' = Resting /\ UNCHANGED <<wanted, shown, settled>>
      BY <1>7 DEF RotationFails, preferences
    <2> QED  BY <2>1 DEF ShownInv, Resting, Present
  <1>8. CASE RemoveImage \/ UNCHANGED wp_vars
    <2>1. UNCHANGED <<wanted, rotation, shown, fresh, settled>>
      BY <1>8 DEF RemoveImage, wp_vars, preferences
    <2> QED  BY <2>1 DEF ShownInv, Present
  <1> QED  BY <1>1, <1>2, <1>3, <1>4, <1>5, <1>6, <1>7, <1>8 DEF PolicyNext

PolicyInv == PolicyTypeOK /\ EditInv /\ ShownInv

\* Commands, rotations and removals stay within their types; the operators' part is in
\* EditInv, a rotation offers only what is in the library.
LEMMA PolicyTyped == ASSUME PolicyInv, [PolicyNext]_wp_vars PROVE PolicyTypeOK'
  <1>1. EditInv'  BY EditCarried DEF PolicyInv
  <1>2. ASSUME NEW p \in Operators,
               BeginEdit(p) \/ Lock(p) \/ ReadOverrides(p) \/ Publish(p) \/ AbandonEdit(p)
        PROVE  /\ lock' \in SUBSET Operators /\ edits' \in 0..MaxEdits
               /\ UNCHANGED <<library, rotation, shown>>
               /\ fresh' \in BOOLEAN /\ settled' \in BOOLEAN
    <2>1. lock \in SUBSET Operators /\ edits \in 0..MaxEdits /\ fresh \in BOOLEAN /\ settled \in BOOLEAN
      BY DEF PolicyInv, PolicyTypeOK
    <2>2. lock' \in {lock, {p}, lock \ {p}} /\ fresh' \in {fresh, FALSE} /\ settled' \in {settled, FALSE}
          /\ UNCHANGED <<library, rotation, shown>>
      BY <1>2 DEF BeginEdit, Lock, ReadOverrides, Publish, AbandonEdit
    <2>3. edits' = edits \/ (edits < MaxEdits /\ edits' = edits + 1)
      BY <1>2 DEF BeginEdit, Lock, ReadOverrides, Publish, AbandonEdit
    <2>4. edits' \in 0..MaxEdits  BY <2>1, <2>3, PolicyAssumption
    <2>5. lock' \in SUBSET Operators  BY <2>1, <2>2
    <2> QED  BY <2>1, <2>2, <2>4, <2>5
  <1>3. CASE BeginRotation \/ FilterLibrary \/ Clear \/ Show \/ RotationFails \/ RemoveImage
    <2>1. UNCHANGED preferences
      BY <1>3 DEF BeginRotation, FilterLibrary, Clear, Show, RotationFails, RemoveImage
    <2>2. /\ library' \in SUBSET Images /\ shown' \in Images \cup {NoImage}
          /\ fresh' \in BOOLEAN /\ settled' \in BOOLEAN
      BY <1>3 DEF BeginRotation, FilterLibrary, Clear, Show, RotationFails, RemoveImage, PolicyInv,
                  PolicyTypeOK
    <2>3. rotation'.at \in {"idle", "reading", "listed"} /\ rotation'.candidates \in SUBSET Images
      <3>1. CASE BeginRotation
        <4>1. rotation' = [at |-> "reading", settings |-> Merge(Defaults, overrides), candidates |-> {}]
          BY <3>1 DEF BeginRotation, Resting
        <4> QED  BY <4>1
      <3>2. CASE FilterLibrary
        <4>1. rotation' = [at |-> "listed", settings |-> rotation.settings,
                           candidates |-> {i \in library : Eligible(i, rotation.settings)}]
          BY <3>2 DEF FilterLibrary, PolicyInv, ShownInv
        <4>2. {i \in library : Eligible(i, rotation.settings)} \in SUBSET Images
          BY DEF PolicyInv, PolicyTypeOK
        <4> QED  BY <4>1, <4>2
      <3>3. CASE Clear \/ Show \/ RotationFails
        BY <3>3 DEF Clear, Show, RotationFails, Resting
      <3>4. CASE RemoveImage
        BY <3>4 DEF RemoveImage, PolicyInv, PolicyTypeOK
      <3> QED  BY <1>3, <3>1, <3>2, <3>3, <3>4
    <2> QED  BY <1>1, <2>1, <2>2, <2>3 DEF PolicyInv, PolicyTypeOK, EditInv, preferences
  <1>4. CASE \E p \in Operators :
               BeginEdit(p) \/ Lock(p) \/ ReadOverrides(p) \/ Publish(p) \/ AbandonEdit(p)
    BY <1>1, <1>2, <1>4 DEF PolicyInv, PolicyTypeOK, EditInv
  <1>5. CASE UNCHANGED wp_vars
    BY <1>5 DEF wp_vars, preferences, PolicyInv, PolicyTypeOK
  <1> QED  BY <1>3, <1>4, <1>5 DEF PolicyNext

\* The three parts are inductive together.
LEMMA PolicyStarts == PolicyInit => PolicyInv
  <1>1. PolicyInit => ShownInv  BY DEF PolicyInit, ShownInv, Resting
  <1>2. PolicyInit => PolicyTypeOK
    BY PolicyAssumption DEF PolicyInit, PolicyTypeOK, Resting, Idle, Positions
  <1> QED  BY <1>1, <1>2, EditStarts DEF PolicyInv

LEMMA PolicyCarried == ASSUME PolicyInv, [PolicyNext]_wp_vars PROVE PolicyInv'
  BY PolicyTyped, EditCarried, ShownCarried DEF PolicyInv

LEMMA PolicyInvariant == PolicySpec => []PolicyInv
  BY PolicyStarts, PolicyCarried, PTL DEF PolicySpec

\* The preferences, the commands and the rotation stay within their types, for any catalog.
THEOREM PolicyTypeCorrect == PolicySpec => []PolicyTypeOK
  <1>1. PolicyInv => PolicyTypeOK  BY DEF PolicyInv
  <1> QED  BY <1>1, PolicyInvariant, PTL

\* What is eligible lies in something the choices leave open.
LEMMA EligibleIsOpen == ASSUME ShownInv PROVE DisabledLeaves
  <1> SUFFICES ASSUME settled, shown # NoImage
               PROVE  IF shown.prefix \in Connections \/ shown.sidecar \in Connections
                      THEN \E c \in {shown.prefix, shown.sidecar} \cap Connections :
                             \E leaf \in Groups(shown, c) : ~Closed(c, leaf)
                      ELSE Choice(<<"personal">>) # "off"
    BY DEF DisabledLeaves
  <1>1. Eligible(shown, Present)  BY DEF ShownInv
  <1>2. ASSUME NEW c, NEW leaf, Allowed(Present, c, leaf) PROVE ~Closed(c, leaf)
    BY <1>2 DEF Allowed, Closed, Choice, Present
  <1> DEFINE named == IF shown.sidecar = "unnamed" THEN shown.prefix ELSE shown.sidecar
  <1>3. CASE shown.prefix = "none" /\ shown.sidecar \in {"missing", "unnamed"}
             /\ Present[<<"personal">>] # "off"
    BY <1>3, PolicyAssumption DEF Choice, Present
  <1>4. CASE /\ named \in Connections
             /\ \E leaf \in Groups(shown, named) :
                  <<named, leaf>> \in {<<r.connection, r.leaf>> : r \in Plan(Present)}
    <2>1. PICK leaf \in Groups(shown, named), r \in Plan(Present) :
            <<named, leaf>> = <<r.connection, r.leaf>>
      BY <1>4
    <2>2. Allowed(Present, named, leaf)  BY <2>1 DEF Plan
    <2>3. ~Closed(named, leaf)  BY <1>2, <2>2
    <2>4. named \in {shown.prefix, shown.sidecar} \cap Connections  BY <1>4
    <2> HIDE DEF named
    <2> QED  BY <2>1, <2>3, <2>4
  <1> QED  BY <1>1, <1>3, <1>4 DEF Eligible

\* "Do not leave a now-disabled wallpaper visible": once a rotation that read the present
\* preferences has chosen, the choices close nothing that is shown, for every catalog.
THEOREM NothingClosedIsShown == PolicySpec => []DisabledLeaves
  <1>1. PolicyInv => DisabledLeaves  BY EligibleIsOpen DEF PolicyInv
  <1> QED  BY <1>1, PolicyInvariant, PTL

-----------------------------------------------------------------------------
(* The wallpaper collection: listings and what is remembered. *)

\* Every set of positions has a first.
LEMMA FirstPosition ==
  ASSUME NEW P \in SUBSET Nat, P # {}
  PROVE  Min(P) \in P /\ \A n \in P : Min(P) <= n
  <1> DEFINE R == OpToRel(<, Nat)
  <1>1. \A x, y \in Nat : <<x, y>> \in R <=> x < y  BY DEF OpToRel
  <1>2. \E x \in P : \A y \in P : <<y, x>> \notin R
    <2>1. IsWellFoundedOn(R, Nat)  BY NatLessThanWellFounded
    <2> HIDE DEF R
    <2> QED  BY <2>1, WFMin
  <1>3. \E x \in P : \A y \in P : x <= y
    <2> HIDE DEF R
    <2>1. PICK x \in P : \A y \in P : <<y, x>> \notin R  BY <1>2
    <2>2. \A y \in P : ~(y < x)  BY <1>1, <2>1
    <2> QED  BY <2>2
  <1> QED  BY <1>3 DEF Min

\* A name that is removed from a listing, in which no name is twice, is gone, and it
\* alone; the order of the others stays.
LEMMA RemoveName ==
  ASSUME NEW S, NEW s \in Seq(S), IsInjective(s), NEW e
  PROVE  /\ RemoveFirst(s, e) \in Seq(S) /\ IsInjective(RemoveFirst(s, e))
         /\ ToSet(RemoveFirst(s, e)) = ToSet(s) \ {e}
  <1>1. Len(s) \in Nat /\ DOMAIN s = 1..Len(s) /\ \A i \in 1..Len(s) : s[i] \in S
    BY LenProperties, ElementOfSeq
  <1>2. CASE \E i \in 1..Len(s) : s[i] = e
    <2> DEFINE P == {i \in 1..Len(s) : s[i] = e}
    <2>1. SelectInSeq(s, LAMBDA v : v = e) = Min(P)  BY <1>2 DEF SelectInSeq
    <2>2. PICK k \in 1..Len(s) : k = Min(P) /\ s[k] = e
      <3>1. P \in SUBSET Nat /\ P # {}  BY <1>1, <1>2
      <3>2. Min(P) \in P
        <4> HIDE DEF P
        <4> QED  BY <3>1, FirstPosition
      <3> QED  BY <3>2
    <2>3. RemoveFirst(s, e) = SubSeq(s, 1, k - 1) \o SubSeq(s, k + 1, Len(s))
      BY <1>2, <2>1, <2>2 DEF RemoveFirst, RemoveAt
    <2>4. PICK a, b : a = SubSeq(s, 1, k - 1) /\ b = SubSeq(s, k + 1, Len(s))  OBVIOUS
    <2>5. a \in Seq(S) /\ Len(a) = k - 1 /\ \A i \in 1..(k - 1) : a[i] = s[i]
      <3>1. /\ SubSeq(s, 1, k - 1) \in Seq(S)
            /\ Len(SubSeq(s, 1, k - 1)) = IF 1 <= k - 1 THEN (k - 1) - 1 + 1 ELSE 0
            /\ \A i \in 1..((k - 1) - 1 + 1) : SubSeq(s, 1, k - 1)[i] = s[1 + i - 1]
        BY <1>1, SubSeqProperties
      <3> QED  BY <1>1, <2>4, <3>1
    <2>6. b \in Seq(S) /\ Len(b) = Len(s) - k /\ \A i \in 1..(Len(s) - k) : b[i] = s[k + i]
      <3>1. /\ SubSeq(s, k + 1, Len(s)) \in Seq(S)
            /\ Len(SubSeq(s, k + 1, Len(s))) = IF k + 1 <= Len(s) THEN Len(s) - (k + 1) + 1 ELSE 0
            /\ \A i \in 1..(Len(s) - (k + 1) + 1) : SubSeq(s, k + 1, Len(s))[i] = s[(k + 1) + i - 1]
        BY <1>1, SubSeqProperties
      <3>2. ASSUME NEW i \in 1..(Len(s) - k) PROVE b[i] = s[k + i]
        <4>1. i \in 1..(Len(s) - (k + 1) + 1) /\ (k + 1) + i - 1 = k + i  BY <1>1
        <4> QED  BY <2>4, <3>1, <4>1
      <3>3. Len(b) = Len(s) - k
        <4>1. CASE k + 1 <= Len(s)  BY <1>1, <2>4, <3>1, <4>1
        <4>2. CASE k = Len(s)
          <5>1. Len(b) = 0  BY <1>1, <2>4, <3>1, <4>2
          <5> QED  BY <1>1, <4>2, <5>1
        <4>3. k + 1 <= Len(s) \/ k = Len(s)  BY <1>1, <2>2
        <4> QED  BY <4>1, <4>2, <4>3
      <3> QED  BY <2>4, <3>1, <3>2, <3>3
    <2>7. PICK r : r = RemoveFirst(s, e)  OBVIOUS
    <2>8. /\ r \in Seq(S) /\ Len(r) = Len(s) - 1
          /\ \A i \in 1..(Len(s) - 1) : r[i] = IF i < k THEN s[i] ELSE s[i + 1]
      <3>1. r = a \o b  BY <2>3, <2>4, <2>7
      <3>2. /\ r \in Seq(S) /\ Len(r) = Len(a) + Len(b)
            /\ \A i \in 1..(Len(a) + Len(b)) : r[i] = IF i <= Len(a) THEN a[i] ELSE b[i - Len(a)]
        BY <2>5, <2>6, <3>1, ConcatProperties
      <3>3. Len(a) + Len(b) = Len(s) - 1 /\ Len(a) = k - 1  BY <1>1, <2>5, <2>6
      <3>4. ASSUME NEW i \in 1..(Len(s) - 1) PROVE r[i] = IF i < k THEN s[i] ELSE s[i + 1]
        <4>1. CASE i < k
          <5>1. i \in 1..(k - 1) /\ i <= Len(a)  BY <1>1, <3>3, <4>1
          <5>2. r[i] = a[i]  BY <3>2, <3>3, <5>1
          <5> QED  BY <2>5, <4>1, <5>1, <5>2
        <4>2. CASE ~(i < k)
          <5>1. i - (k - 1) \in 1..(Len(s) - k) /\ k + (i - (k - 1)) = i + 1  BY <1>1, <4>2
          <5>2. r[i] = b[i - (k - 1)]
            <6>1. ~(i <= Len(a))  BY <1>1, <3>3, <4>2
            <6> QED  BY <3>2, <3>3, <6>1
          <5> QED  BY <2>6, <4>2, <5>1, <5>2
        <4> QED  BY <4>1, <4>2
      <3> QED  BY <3>2, <3>4, <3>3
    <2>9. DOMAIN r = 1..(Len(s) - 1)  BY <2>8, LenProperties
    <2>10. IsInjective(r)
      <3>1. SUFFICES ASSUME NEW i \in 1..(Len(s) - 1), NEW j \in 1..(Len(s) - 1), r[i] = r[j] PROVE i = j
        BY <2>9 DEF IsInjective
      <3> DEFINE pos(n) == IF n < k THEN n ELSE n + 1
      <3>2. \A n \in 1..(Len(s) - 1) : pos(n) \in 1..Len(s) /\ r[n] = s[pos(n)]
        BY <1>1, <2>8
      <3>3. pos(i) = pos(j)
        <4> HIDE DEF pos
        <4> QED  BY <1>1, <3>1, <3>2 DEF IsInjective
      <3> QED  BY <1>1, <3>3
    <2>11. ToSet(r) \subseteq ToSet(s) \ {e}
      <3>1. SUFFICES ASSUME NEW i \in 1..(Len(s) - 1) PROVE r[i] \in ToSet(s) \ {e}
        BY <2>9 DEF ToSet
      <3>2. PICK j \in 1..Len(s) : j # k /\ r[i] = s[j]
        <4>1. CASE i < k  BY <1>1, <2>8, <4>1
        <4>2. CASE ~(i < k)
          <5>1. i + 1 \in 1..Len(s) /\ i + 1 # k  BY <1>1, <4>2
          <5> QED  BY <2>8, <4>2, <5>1
        <4> QED  BY <4>1, <4>2
      <3>3. s[j] # e  BY <1>1, <2>2, <3>2 DEF IsInjective
      <3> QED  BY <1>1, <3>2, <3>3 DEF ToSet
    <2>12. ToSet(s) \ {e} \subseteq ToSet(r)
      <3>1. SUFFICES ASSUME NEW i \in 1..Len(s), s[i] # e PROVE s[i] \in ToSet(r)
        BY <1>1 DEF ToSet
      <3>2. CASE i < k
        <4>1. i \in 1..(Len(s) - 1) /\ r[i] = s[i]  BY <1>1, <2>8, <3>2
        <4> QED  BY <2>9, <4>1 DEF ToSet
      <3>3. CASE i > k
        <4>1. i - 1 \in 1..(Len(s) - 1) /\ r[i - 1] = s[i]  BY <1>1, <2>8, <3>3
        <4> QED  BY <2>9, <4>1 DEF ToSet
      <3> QED  BY <1>1, <2>2, <3>1, <3>2, <3>3
    <2> QED  BY <2>7, <2>8, <2>10, <2>11, <2>12
  <1>3. CASE ~\E i \in 1..Len(s) : s[i] = e
    <2>1. RemoveFirst(s, e) = s  BY <1>3 DEF RemoveFirst
    <2> QED  BY <1>1, <1>3, <2>1 DEF ToSet
  <1> QED  BY <1>2, <1>3

\* A name that is appended to a listing without it.
LEMMA AppendName ==
  ASSUME NEW S, NEW s \in Seq(S), IsInjective(s), NEW e \in S, e \notin ToSet(s)
  PROVE  /\ Append(s, e) \in Seq(S) /\ IsInjective(Append(s, e))
         /\ ToSet(Append(s, e)) = ToSet(s) \cup {e}
  <1>1. Len(s) \in Nat /\ DOMAIN s = 1..Len(s)  BY LenProperties
  <1>2. PICK r : r = Append(s, e)  OBVIOUS
  <1>3. /\ r \in Seq(S) /\ Len(r) = Len(s) + 1 /\ r[Len(s) + 1] = e
        /\ \A i \in 1..Len(s) : r[i] = s[i]
    BY <1>2, AppendProperties
  <1>4. DOMAIN r = 1..(Len(s) + 1)  BY <1>3, LenProperties
  <1>5. IsInjective(r)  BY <1>1, <1>3, <1>4 DEF IsInjective, ToSet
  <1>6. ToSet(r) = ToSet(s) \cup {e}
    <2>1. ToSet(r) \subseteq ToSet(s) \cup {e}  BY <1>1, <1>3, <1>4 DEF ToSet
    <2>2. ASSUME NEW i \in 1..Len(s) PROVE s[i] \in ToSet(r)
      BY <1>1, <1>3, <1>4 DEF ToSet
    <2>3. e \in ToSet(r)
      <3>1. Len(s) + 1 \in DOMAIN r  BY <1>1, <1>4
      <3> QED  BY <1>3, <3>1 DEF ToSet
    <2> QED  BY <1>1, <2>1, <2>2, <2>3 DEF ToSet
  <1> QED  BY <1>2, <1>3, <1>5, <1>6

\* What is remembered is bounded.
LEMMA RememberBounded ==
  ASSUME NEW S, NEW seen \in Seq(S), NEW id \in S, Len(seen) <= MaxSeen
  PROVE  Remember(seen, id) \in Seq(S) /\ Len(Remember(seen, id)) <= MaxSeen
  <1>1. PICK all : all = Append(seen, id)  OBVIOUS
  <1>2. all \in Seq(S) /\ Len(all) = Len(seen) + 1 /\ Len(seen) \in Nat
    BY <1>1, AppendProperties, LenProperties
  <1>3. \A i \in 1..Len(all) : all[i] \in S  BY <1>2, ElementOfSeq
  <1>4. CASE Len(all) > MaxSeen
    <2>1. Remember(seen, id) = SubSeq(all, Len(all) - MaxSeen + 1, Len(all))
      BY <1>1, <1>4 DEF Remember
    <2>2. Len(all) = MaxSeen + 1  BY <1>2, <1>4, CollectionAssumption
    <2>3. /\ SubSeq(all, Len(all) - MaxSeen + 1, Len(all)) \in Seq(S)
          /\ Len(SubSeq(all, Len(all) - MaxSeen + 1, Len(all))) = MaxSeen
      <3> DEFINE m == Len(all) - MaxSeen + 1
      <3>1. m \in Int /\ m = 2 /\ Len(all) \in Int /\ Len(all) - m + 1 = MaxSeen
        BY <1>2, <2>2, CollectionAssumption
      <3> HIDE DEF m
      <3>2. /\ SubSeq(all, m, Len(all)) \in Seq(S)
            /\ Len(SubSeq(all, m, Len(all))) = IF m <= Len(all) THEN Len(all) - m + 1 ELSE 0
        BY <1>3, <3>1, SubSeqProperties
      <3>3. m <= Len(all)  BY <1>2, <2>2, <3>1, CollectionAssumption
      <3> QED  BY <3>1, <3>2, <3>3 DEF m
    <2> QED  BY <2>1, <2>3, CollectionAssumption
  <1>5. CASE ~(Len(all) > MaxSeen)
    BY <1>1, <1>2, <1>5, CollectionAssumption DEF Remember
  <1> QED  BY <1>4, <1>5

-----------------------------------------------------------------------------
(* The wallpaper collection. *)

FetchSteps == {"idle", "paging", "scanning", "turning", "rendered", "described", "placed",
          "saved", "undo", "undone"} \cup Evicting

FetchJobs == [at : FetchSteps, cursor : 1..LastPage, seen : Seq(Identifiers), next : 1..LastPage,
         left : SUBSET Items, pages : 0..MaxPages, inspections : 0..MaxDownloads,
         file : Files \cup {NoFile}, listing : Seq(Files), keep : Files \cup {NoFile}]

CollectionTyped ==
  /\ progress \in [cursor : 1..LastPage, seen : Seq(Identifiers)] /\ Len(progress.seen) <= MaxSeen
  /\ images \in Seq(Files) /\ IsInjective(images)
  /\ sidecars \subseteq Files /\ holder \subseteq Fetchers
  /\ fetch \in [Fetchers -> FetchJobs]
  /\ display \in Files \cup {NoFile} /\ current \in Files \cup {NoFile} /\ exposed \in BOOLEAN

\* A run at work is alone.  What it is about to place is the only image of its item; what
\* it placed has its sidecar; a sidecar is removed only behind its image; and what it
\* spares is what is on the outputs, unless that could change behind its back.
JobInv(f) ==
  LET job == fetch[f]
  IN  /\ Len(job.seen) <= MaxSeen /\ IsInjective(job.listing)
      /\ job.at # "idle" => holder = {f}
      /\ job.at = "paging" => job.pages < MaxPages
      /\ job.at \in {"rendered", "described", "placed"} =>
           /\ job.file \in Files /\ job.file[1] \in Identifiers
           /\ \A image \in ToSet(images) : image[1] = job.file[1] => image = job.file
      /\ job.at \in {"described", "placed"} => job.file \in sidecars
      /\ job.at \in {"undone", "unlinked"} => job.file \notin ToSet(images)
      /\ job.at \in Evicting /\ ~exposed => job.keep = display

CollectionInv ==
  CollectionTyped /\ LibrarySound /\ ShownKept /\ \A f \in Fetchers : JobInv(f)

LEMMA WaitingTyped == Waiting \in FetchJobs /\ Len(Waiting.seen) <= MaxSeen /\ IsInjective(Waiting.listing)
  <1>1. Waiting \in FetchJobs
    <2>1. <<>> \in Seq(Identifiers) /\ <<>> \in Seq(Files)  BY EmptySeq
    <2> QED  BY <2>1, CollectionAssumption DEF Waiting, FetchJobs, FetchSteps
  <1>2. Len(Waiting.seen) <= MaxSeen  BY CollectionAssumption DEF Waiting
  <1>3. IsInjective(Waiting.listing)  BY DEF Waiting, IsInjective
  <1> QED  BY <1>1, <1>2, <1>3

\* The collection starts empty.
LEMMA CollectionStarts == CollectionInit => CollectionInv
  <1> SUFFICES ASSUME CollectionInit PROVE CollectionInv  OBVIOUS
  <1>1. images = <<>> /\ ToSet(images) = {} /\ IsInjective(images) /\ images \in Seq(Files)
    BY EmptySeq DEF CollectionInit, ToSet, IsInjective
  <1>2. progress \in [cursor : 1..LastPage, seen : Seq(Identifiers)] /\ Len(progress.seen) <= MaxSeen
    BY EmptySeq, CollectionAssumption DEF CollectionInit
  <1>3. ASSUME NEW f \in Fetchers PROVE JobInv(f)
    <2>1. fetch[f] = Waiting /\ Waiting.at = "idle"  BY DEF CollectionInit, Waiting
    <2> QED  BY <2>1, WaitingTyped DEF JobInv, Evicting
  <1> QED  BY <1>1, <1>2, <1>3, WaitingTyped
      DEF CollectionInit, CollectionInv, CollectionTyped, LibrarySound, ShownKept

\* While a run takes a step, the others wait.
LEMMA OthersWait ==
  ASSUME CollectionInv, NEW f \in Fetchers, fetch[f].at # "idle" \/ holder = {},
         NEW job \in FetchJobs, Become(f, job)
  PROVE  fetch' \in [Fetchers -> FetchJobs] /\ fetch'[f] = job /\ \A g \in Fetchers \ {f} : JobInv(g)'
  <1>1. fetch' \in [Fetchers -> FetchJobs] /\ fetch'[f] = job /\ \A g \in Fetchers \ {f} : fetch'[g] = fetch[g]
    BY DEF Become, CollectionInv, CollectionTyped
  <1>2. ASSUME NEW g \in Fetchers \ {f} PROVE JobInv(g)'
    <2>1. fetch[g].at = "idle"  BY DEF CollectionInv, JobInv
    <2>2. Len(fetch[g].seen) <= MaxSeen /\ IsInjective(fetch[g].listing)  BY DEF CollectionInv, JobInv
    <2> QED  BY <1>1, <2>1, <2>2 DEF JobInv, Evicting
  <1> QED  BY <1>1, <1>2

\* A run that reads pages touches no image; what it turns out to render is new.
LEMMA DiscoveryKeeps ==
  ASSUME CollectionInv, NEW f \in Fetchers, Acquire(f) \/ FetchPage(f) \/ Scan(f) \/ TurnPage(f)
  PROVE  CollectionInv'
  <1> DEFINE was == fetch[f]
  <1>0. was \in FetchJobs /\ Len(was.seen) <= MaxSeen /\ IsInjective(was.listing)
    BY DEF CollectionInv, CollectionTyped, JobInv
  <1>a. /\ UNCHANGED <<images, sidecars, display, current, exposed>>
        /\ was.at # "idle" \/ holder = {}
    BY DEF Acquire, FetchPage, Scan, TurnPage, Doing, collection
  <1>b. ASSUME NEW job \in FetchJobs, Become(f, job), Len(job.seen) <= MaxSeen, IsInjective(job.listing),
               holder' \subseteq Fetchers, job.at # "idle" => holder' = {f},
               job.at \in {"idle", "paging", "scanning", "turning", "rendered"},
               job.at = "paging" => job.pages < MaxPages,
               job.at = "rendered" =>
                 job.file \in Files /\ job.file[1] \in Identifiers /\ ~Published(job.file[1]),
               progress' \in [cursor : 1..LastPage, seen : Seq(Identifiers)], Len(progress'.seen) <= MaxSeen
        PROVE  CollectionInv'
    <2>1. fetch' \in [Fetchers -> FetchJobs] /\ fetch'[f] = job /\ \A g \in Fetchers \ {f} : JobInv(g)'
      BY <1>a, <1>b, OthersWait
    <2>2. JobInv(f)'
      BY <1>a, <1>b, <2>1 DEF JobInv, Published, Evicting
    <2>3. LibrarySound' /\ ShownKept'  BY <1>a DEF CollectionInv, LibrarySound, ShownKept
    <2>4. CollectionTyped'  BY <1>a, <1>b, <2>1 DEF CollectionInv, CollectionTyped
    <2> QED  BY <2>1, <2>2, <2>3, <2>4 DEF CollectionInv
  <1>c. progress \in [cursor : 1..LastPage, seen : Seq(Identifiers)] /\ Len(progress.seen) <= MaxSeen
    BY DEF CollectionInv, CollectionTyped
  <1>d. was.at # "idle" => holder = {f}  BY DEF CollectionInv, JobInv
  <1>1. CASE Acquire(f)
    <2> DEFINE job == [Waiting EXCEPT !.at = "paging", !.cursor = progress.cursor, !.seen = progress.seen]
    <2>1. job \in FetchJobs /\ job.at = "paging" /\ job.seen = progress.seen
          /\ job.pages = 0 /\ job.listing = Waiting.listing
      BY <1>c, WaitingTyped DEF FetchJobs, Waiting, FetchSteps
    <2>2. Become(f, job) /\ holder' = {f} /\ UNCHANGED progress
      BY <1>1 DEF Acquire, collection
    <2> HIDE DEF job
    <2>3. 0 < MaxPages  BY CollectionAssumption
    <2> QED  BY <1>b, <1>c, <2>1, <2>2, <2>3, WaitingTyped
  <1>2. CASE FetchPage(f)
    <2>1. PICK page \in SUBSET Items, next \in {1} \cup ({was.cursor + 1} \cap 1..LastPage) :
            Become(f, [was EXCEPT !.at = "scanning", !.left = {i \in page : Admissible(i)},
                                  !.next = next, !.pages = @ + 1])
      BY <1>2 DEF FetchPage
    <2> DEFINE job == [was EXCEPT !.at = "scanning", !.left = {i \in page : Admissible(i)},
                                  !.next = next, !.pages = @ + 1]
    <2>2. was.at = "paging" /\ was.pages < MaxPages /\ UNCHANGED <<progress, holder>>
      BY <1>2 DEF FetchPage, Doing, CollectionInv, JobInv, collection
    <2>3. next \in 1..LastPage  BY CollectionAssumption
    <2>4. job \in FetchJobs /\ job.at = "scanning" /\ job.seen = was.seen /\ job.listing = was.listing
      <3>1. was.pages + 1 \in 0..MaxPages
        <4>1. was.pages \in 0..MaxPages  BY <1>0 DEF FetchJobs
        <4> QED  BY <2>2, <4>1, CollectionAssumption
      <3>2. {i \in page : Admissible(i)} \in SUBSET Items  OBVIOUS
      <3> QED  BY <1>0, <2>3, <3>1, <3>2 DEF FetchJobs, FetchSteps
    <2>5. Become(f, job)  BY <2>1
    <2>6. holder \subseteq Fetchers  BY DEF CollectionInv, CollectionTyped
    <2> HIDE DEF job
    <2> QED  BY <1>0, <1>b, <1>c, <1>d, <2>2, <2>4, <2>5, <2>6
  <1>3. CASE Scan(f)
    <2>0. was.at = "scanning" /\ UNCHANGED <<progress, holder>> /\ holder \subseteq Fetchers
      BY <1>3 DEF Scan, Doing, collection, CollectionInv, CollectionTyped
    <2>1. ASSUME NEW job \in FetchJobs, Become(f, job), Len(job.seen) <= MaxSeen, job.listing = was.listing,
                 job.at \in {"scanning", "turning"}
          PROVE  CollectionInv'
      BY <1>0, <1>b, <1>c, <1>d, <2>0, <2>1
    <2>2. CASE was.left = {}
      <3> DEFINE job == [was EXCEPT !.at = "turning"]
      <3>1. job \in FetchJobs /\ job.at = "turning" /\ job.seen = was.seen /\ job.listing = was.listing
        BY <1>0 DEF FetchJobs, FetchSteps
      <3>2. Become(f, job)  BY <1>3, <2>2 DEF Scan
      <3> HIDE DEF job
      <3> QED  BY <1>0, <2>1, <3>1, <3>2
    <2>3. ASSUME NEW item \in was.left, PassOver(f, item) PROVE CollectionInv'
      <3> DEFINE job == Drop(f, item)
      <3>1. job \in FetchJobs /\ job.at = "scanning" /\ job.seen = was.seen /\ job.listing = was.listing
        BY <1>0, <2>0 DEF FetchJobs, FetchSteps, Drop
      <3>2. Become(f, job)  BY <2>3 DEF PassOver
      <3> HIDE DEF job
      <3> QED  BY <1>0, <2>1, <3>1, <3>2
    <2>4. ASSUME NEW item \in was.left, NoteExisting(f, item) PROVE CollectionInv'
      <3> DEFINE job == [Drop(f, item) EXCEPT !.seen = Remember(@, item.id)]
      <3>1. item.id \in Identifiers  BY <1>0 DEF FetchJobs, Identifiers
      <3>2. Remember(was.seen, item.id) \in Seq(Identifiers) /\ Len(Remember(was.seen, item.id)) <= MaxSeen
        <4>1. was.seen \in Seq(Identifiers)  BY <1>0 DEF FetchJobs
        <4> QED  BY <1>0, <3>1, <4>1, RememberBounded
      <3>3. /\ job \in FetchJobs /\ job.at = "scanning" /\ job.seen = Remember(was.seen, item.id)
            /\ job.listing = was.listing
        BY <1>0, <2>0, <3>2 DEF FetchJobs, FetchSteps, Drop
      <3>4. Become(f, job)  BY <2>4 DEF NoteExisting
      <3> HIDE DEF job
      <3> QED  BY <1>0, <2>1, <3>2, <3>3, <3>4
    <2>5. ASSUME NEW item \in was.left, Inspect(f, item) PROVE CollectionInv'
      <3>1. CASE Become(f, [was EXCEPT !.at = "turning"])
        <4> DEFINE job == [was EXCEPT !.at = "turning"]
        <4>1. job \in FetchJobs /\ job.at = "turning" /\ job.seen = was.seen /\ job.listing = was.listing
          BY <1>0 DEF FetchJobs, FetchSteps
        <4>2. Become(f, job)  BY <3>1
        <4> HIDE DEF job
        <4> QED  BY <1>0, <2>1, <4>1, <4>2
      <3>2. CASE /\ was.inspections < MaxDownloads
                 /\ Become(f, [Drop(f, item) EXCEPT !.inspections = @ + 1])
        <4> DEFINE job == [Drop(f, item) EXCEPT !.inspections = @ + 1]
        <4>1. was.inspections + 1 \in 0..MaxDownloads
          <5>1. was.inspections \in 0..MaxDownloads  BY <1>0 DEF FetchJobs
          <5> QED  BY <3>2, <5>1, CollectionAssumption
        <4>2. job \in FetchJobs /\ job.at = "scanning" /\ job.seen = was.seen /\ job.listing = was.listing
          BY <1>0, <2>0, <4>1 DEF FetchJobs, FetchSteps, Drop
        <4>3. Become(f, job)  BY <3>2
        <4> HIDE DEF job
        <4> QED  BY <1>0, <2>1, <4>2, <4>3
      <3>3. CASE \E file \in Files :
                   /\ file[1] = item.id
                   /\ Become(f, [Waiting EXCEPT !.at = "rendered", !.file = file,
                                                !.next = was.next, !.seen = was.seen])
        <4>1. PICK file \in Files :
                /\ file[1] = item.id
                /\ Become(f, [Waiting EXCEPT !.at = "rendered", !.file = file,
                                             !.next = was.next, !.seen = was.seen])
          BY <3>3
        <4> DEFINE job == [Waiting EXCEPT !.at = "rendered", !.file = file,
                                          !.next = was.next, !.seen = was.seen]
        <4>2. /\ job \in FetchJobs /\ job.at = "rendered" /\ job.seen = was.seen
              /\ job.listing = Waiting.listing /\ job.file = file
          BY <1>0, WaitingTyped DEF FetchJobs, FetchSteps, Waiting
        <4>3. file[1] \in Identifiers /\ ~Published(file[1])
          BY <1>0, <2>5, <4>1 DEF FetchJobs, Identifiers, Inspect
        <4>4. Become(f, job)  BY <4>1
        <4> HIDE DEF job
        <4> QED  BY <1>0, <1>b, <1>c, <1>d, <2>0, <4>2, <4>3, <4>4, WaitingTyped
      <3> QED  BY <2>5, <3>1, <3>2, <3>3 DEF Inspect
    <2> QED  BY <1>3, <2>2, <2>3, <2>4, <2>5 DEF Scan
  <1>4. CASE TurnPage(f)
    <2>1. /\ was.at = "turning"
          /\ progress' = [cursor |-> was.next, seen |-> was.seen]
      BY <1>4 DEF TurnPage, Doing
    <2>2. progress' \in [cursor : 1..LastPage, seen : Seq(Identifiers)] /\ Len(progress'.seen) <= MaxSeen
      BY <1>0, <2>1 DEF FetchJobs
    <2>3. holder \subseteq Fetchers  BY DEF CollectionInv, CollectionTyped
    <2>4. CASE Release(f)
      <3>1. Become(f, Waiting) /\ holder' \subseteq Fetchers  BY <2>3, <2>4 DEF Release
      <3>2. Waiting.at = "idle"  BY DEF Waiting
      <3> QED  BY <1>b, <2>2, <3>1, <3>2, WaitingTyped
    <2>5. CASE /\ ~(was.pages >= MaxPages) /\ UNCHANGED holder
               /\ Become(f, [was EXCEPT !.at = "paging", !.cursor = was.next, !.left = {}])
      <3> DEFINE job == [was EXCEPT !.at = "paging", !.cursor = was.next, !.left = {}]
      <3>1. /\ job \in FetchJobs /\ job.at = "paging" /\ job.seen = was.seen /\ job.listing = was.listing
            /\ job.pages = was.pages
        BY <1>0 DEF FetchJobs, FetchSteps
      <3>2. was.pages < MaxPages  BY <1>0, <2>5, CollectionAssumption DEF FetchJobs
      <3>3. Become(f, job)  BY <2>5
      <3> HIDE DEF job
      <3> QED  BY <1>0, <1>b, <1>d, <2>1, <2>2, <2>3, <2>5, <3>1, <3>2, <3>3
    <2> QED  BY <1>4, <2>4, <2>5 DEF TurnPage
  <1> QED  BY <1>1, <1>2, <1>3, <1>4

\* What a step of a run that is past discovery has to show: the types and its own part.
LEMMA StepKeeps ==
  ASSUME CollectionInv, NEW f \in Fetchers, fetch[f].at # "idle", NEW job \in FetchJobs, Become(f, job),
         progress' \in [cursor : 1..LastPage, seen : Seq(Identifiers)], Len(progress'.seen) <= MaxSeen,
         images' \in Seq(Files), IsInjective(images'), sidecars' \subseteq Files,
         holder' \subseteq Fetchers, exposed' \in BOOLEAN, UNCHANGED <<display, current>>,
         LibrarySound', ShownKept', JobInv(f)'
  PROVE  CollectionInv'
  <1>1. fetch' \in [Fetchers -> FetchJobs] /\ \A g \in Fetchers \ {f} : JobInv(g)'  BY OthersWait
  <1> QED  BY <1>1 DEF CollectionInv, CollectionTyped

\* Publication and its undoing: the sidecar is there before the image and after it.
LEMMA PublicationKeeps ==
  ASSUME CollectionInv, NEW f \in Fetchers,
         \/ Describe(f) \/ Place(f) \/ SaveState(f)
         \/ PublicationFails(f) \/ WithdrawImage(f) \/ WithdrawSidecar(f)
  PROVE  CollectionInv'
  <1> DEFINE was == fetch[f]
  <1>0. /\ was \in FetchJobs /\ JobInv(f) /\ LibrarySound /\ ShownKept /\ CollectionTyped
        /\ images \in Seq(Files) /\ IsInjective(images)
    BY DEF CollectionInv, CollectionTyped
  <1>1. CASE Describe(f)
    <2> DEFINE job == [was EXCEPT !.at = "described"]
    <2>1. was.at = "rendered" /\ Become(f, job) /\ sidecars' = sidecars \cup {was.file}
          /\ UNCHANGED <<progress, images, holder, display, current, exposed>>
      BY <1>1 DEF Describe, Doing
    <2>2. was.file \in Files /\ was.file[1] \in Identifiers
          /\ \A image \in ToSet(images) : image[1] = was.file[1] => image = was.file
      BY <1>0, <2>1 DEF JobInv
    <2>3. /\ job \in FetchJobs /\ job.at = "described" /\ job.file = was.file
          /\ job.seen = was.seen /\ job.listing = was.listing
      BY <1>0 DEF FetchJobs, FetchSteps
    <2> HIDE DEF job
    <2>4. fetch'[f] = job  BY <2>1, <2>3, OthersWait
    <2>5. JobInv(f)'  BY <1>0, <2>1, <2>2, <2>3, <2>4 DEF JobInv, Evicting
    <2>6. LibrarySound' /\ ShownKept'  BY <1>0, <2>1 DEF LibrarySound, ShownKept
    <2> QED  BY <1>0, <2>1, <2>2, <2>3, <2>5, <2>6, StepKeeps DEF CollectionTyped
  <1>2. CASE Place(f)
    <2> DEFINE job == [was EXCEPT !.at = "placed"]
               rest == RemoveFirst(images, was.file)
    <2>1. was.at = "described" /\ Become(f, job) /\ images' = Append(rest, was.file)
          /\ UNCHANGED <<progress, sidecars, holder, display, current, exposed>>
      BY <1>2 DEF Place, Doing
    <2>2. was.file \in Files /\ was.file[1] \in Identifiers /\ was.file \in sidecars
          /\ \A image \in ToSet(images) : image[1] = was.file[1] => image = was.file
      BY <1>0, <2>1 DEF JobInv
    <2>3. rest \in Seq(Files) /\ IsInjective(rest) /\ ToSet(rest) = ToSet(images) \ {was.file}
      BY <1>0, RemoveName
    <2>4. /\ images' \in Seq(Files) /\ IsInjective(images')
          /\ ToSet(images') = ToSet(images) \cup {was.file}
      <3> HIDE DEF rest
      <3>1. was.file \notin ToSet(rest)  BY <2>3
      <3>2. ToSet(images') = ToSet(rest) \cup {was.file}  BY <2>1, <2>2, <2>3, <3>1, AppendName
      <3> QED  BY <2>1, <2>2, <2>3, <3>1, <3>2, AppendName
    <2>5. /\ job \in FetchJobs /\ job.at = "placed" /\ job.file = was.file
          /\ job.seen = was.seen /\ job.listing = was.listing
      BY <1>0 DEF FetchJobs, FetchSteps
    <2> HIDE DEF job, rest
    <2>6. fetch'[f] = job  BY <2>1, <2>5, OthersWait
    <2>7. JobInv(f)'  BY <1>0, <2>1, <2>2, <2>4, <2>5, <2>6 DEF JobInv, Evicting
    <2>8. LibrarySound' /\ ShownKept'  BY <1>0, <2>1, <2>2, <2>4 DEF LibrarySound, ShownKept
    <2> QED  BY <1>0, <2>1, <2>4, <2>5, <2>7, <2>8, StepKeeps DEF CollectionTyped
  <1>3. CASE SaveState(f)
    <2> DEFINE job == [Waiting EXCEPT !.at = "saved"]
    <2>1. was.at = "placed" /\ Become(f, job)
          /\ progress' = [cursor |-> was.next, seen |-> Remember(was.seen, was.file[1])]
          /\ UNCHANGED <<images, sidecars, holder, display, current, exposed>>
      BY <1>3 DEF SaveState, Doing
    <2>2. /\ was.seen \in Seq(Identifiers) /\ was.next \in 1..LastPage
          /\ Len(was.seen) <= MaxSeen /\ was.file[1] \in Identifiers
      BY <1>0, <2>1 DEF JobInv, FetchJobs
    <2>3. progress' \in [cursor : 1..LastPage, seen : Seq(Identifiers)] /\ Len(progress'.seen) <= MaxSeen
      BY <2>1, <2>2, RememberBounded
    <2>4. job \in FetchJobs /\ job.at = "saved" /\ job.seen = Waiting.seen /\ job.listing = Waiting.listing
      BY WaitingTyped DEF FetchJobs, FetchSteps, Waiting
    <2> HIDE DEF job
    <2>5. fetch'[f] = job  BY <2>1, <2>4, OthersWait
    <2>6. JobInv(f)'  BY <1>0, <2>1, <2>4, <2>5, WaitingTyped DEF JobInv, Evicting
    <2>7. LibrarySound' /\ ShownKept'  BY <1>0, <2>1 DEF LibrarySound, ShownKept
    <2> QED  BY <1>0, <2>1, <2>3, <2>4, <2>6, <2>7, StepKeeps DEF CollectionTyped
  <1>4. CASE PublicationFails(f)
    <2> DEFINE job == [Waiting EXCEPT !.at = "undo", !.file = was.file]
    <2>1. was.at # "idle" /\ Become(f, job)
          /\ UNCHANGED <<progress, images, sidecars, holder, display, current, exposed>>
      BY <1>4 DEF PublicationFails, collection
    <2>2. was.file \in Files \cup {NoFile}  BY <1>0 DEF FetchJobs
    <2>3. job \in FetchJobs /\ job.at = "undo" /\ job.seen = Waiting.seen /\ job.listing = Waiting.listing
      BY <2>2, WaitingTyped DEF FetchJobs, FetchSteps, Waiting
    <2> HIDE DEF job
    <2>4. fetch'[f] = job  BY <2>1, <2>3, OthersWait
    <2>5. JobInv(f)'  BY <1>0, <2>1, <2>3, <2>4, WaitingTyped DEF JobInv, Evicting
    <2>6. LibrarySound' /\ ShownKept'  BY <1>0, <2>1 DEF LibrarySound, ShownKept
    <2> QED  BY <1>0, <2>1, <2>3, <2>5, <2>6, StepKeeps DEF CollectionTyped
  <1>5. CASE WithdrawImage(f)
    <2> DEFINE job == [was EXCEPT !.at = "undone"]
    <2>1. was.at = "undo" /\ Become(f, job) /\ images' = RemoveFirst(images, was.file)
          /\ exposed' = (exposed \/ display = was.file)
          /\ UNCHANGED <<progress, sidecars, holder, display, current>>
      BY <1>5 DEF WithdrawImage, Doing
    <2>2. /\ images' \in Seq(Files) /\ IsInjective(images')
          /\ ToSet(images') = ToSet(images) \ {was.file}
      BY <1>0, <2>1, RemoveName
    <2>3. /\ job \in FetchJobs /\ job.at = "undone" /\ job.file = was.file
          /\ job.seen = was.seen /\ job.listing = was.listing
      BY <1>0 DEF FetchJobs, FetchSteps
    <2> HIDE DEF job
    <2>4. fetch'[f] = job  BY <2>1, <2>3, OthersWait
    <2>5. JobInv(f)'  BY <1>0, <2>1, <2>2, <2>3, <2>4 DEF JobInv, Evicting
    <2>6. LibrarySound' /\ ShownKept'  BY <1>0, <2>1, <2>2 DEF LibrarySound, ShownKept
    <2>7. exposed' \in BOOLEAN  BY <2>1
    <2> QED  BY <1>0, <2>1, <2>2, <2>3, <2>5, <2>6, <2>7, StepKeeps DEF CollectionTyped
  <1>6. CASE WithdrawSidecar(f)
    <2>1. was.at = "undone" /\ Become(f, Waiting) /\ sidecars' = sidecars \ {was.file}
          /\ holder' = holder \ {f} /\ UNCHANGED <<progress, images, display, current, exposed>>
      BY <1>6 DEF WithdrawSidecar, Doing, Release
    <2>2. was.file \notin ToSet(images)  BY <1>0, <2>1 DEF JobInv
    <2>3. fetch'[f] = Waiting /\ Waiting.at = "idle"  BY <2>1, WaitingTyped, OthersWait DEF Waiting
    <2>4. JobInv(f)'  BY <2>3, WaitingTyped DEF JobInv, Evicting
    <2>5. LibrarySound' /\ ShownKept'  BY <1>0, <2>1, <2>2 DEF LibrarySound, ShownKept
    <2> QED  BY <1>0, <2>1, <2>4, <2>5, WaitingTyped, StepKeeps DEF CollectionTyped
  <1> QED  BY <1>1, <1>2, <1>3, <1>4, <1>5, <1>6

\* Eviction removes what it lists and does not spare, the image before its sidecar; a run
\* that ends leaves everything as it is.
LEMMA EvictionKeeps ==
  ASSUME CollectionInv, NEW f \in Fetchers,
         ListImages(f) \/ Evict(f) \/ EvictSidecar(f) \/ FetchEnds(f)
  PROVE  CollectionInv'
  <1> DEFINE was == fetch[f]
  <1>0. /\ was \in FetchJobs /\ JobInv(f) /\ LibrarySound /\ ShownKept /\ CollectionTyped
        /\ images \in Seq(Files) /\ IsInjective(images)
        /\ was.listing \in Seq(Files) /\ IsInjective(was.listing)
    BY DEF CollectionInv, CollectionTyped, FetchJobs, JobInv
  <1>1. CASE ListImages(f)
    <2> DEFINE job == [was EXCEPT !.at = "evict", !.keep = current, !.listing = images]
    <2>1. was.at = "saved" /\ Become(f, job) /\ exposed' = (exposed \/ current # display)
          /\ UNCHANGED <<progress, images, sidecars, holder, display, current>>
      BY <1>1 DEF ListImages, Doing, collection
    <2>2. /\ job \in FetchJobs /\ job.at = "evict" /\ job.keep = current
          /\ job.seen = was.seen /\ job.listing = images
      BY <1>0 DEF FetchJobs, FetchSteps, Evicting, CollectionTyped
    <2> HIDE DEF job
    <2>3. fetch'[f] = job  BY <2>1, <2>2, OthersWait
    <2>4. JobInv(f)'  BY <1>0, <2>1, <2>2, <2>3 DEF JobInv, Evicting
    <2>5. LibrarySound' /\ ShownKept' /\ exposed' \in BOOLEAN  BY <1>0, <2>1 DEF LibrarySound, ShownKept
    <2> QED  BY <1>0, <2>1, <2>2, <2>4, <2>5, StepKeeps DEF CollectionTyped
  <1>2. ASSUME was.at # "idle", Release(f), UNCHANGED <<progress, images, sidecars, display, current, exposed>>
        PROVE  CollectionInv'
    <2>1. Become(f, Waiting) /\ holder' = holder \ {f}  BY <1>2 DEF Release
    <2>2. fetch'[f] = Waiting /\ Waiting.at = "idle"  BY <1>2, <2>1, WaitingTyped, OthersWait DEF Waiting
    <2>3. JobInv(f)'  BY <2>2, WaitingTyped DEF JobInv, Evicting
    <2>4. LibrarySound' /\ ShownKept'  BY <1>0, <1>2 DEF LibrarySound, ShownKept
    <2> QED  BY <1>0, <1>2, <2>1, <2>3, <2>4, WaitingTyped, StepKeeps DEF CollectionTyped
  <1>3. CASE Evict(f) /\ Len(was.listing) > MaxImages /\ Evictable(f) # {}
    <2> DEFINE oldest == was.listing[Min(Evictable(f))]
               job == [was EXCEPT !.at = "unlinked", !.file = oldest]
    <2>1. was.at = "evict" /\ Become(f, job) /\ images' = RemoveFirst(images, oldest)
          /\ UNCHANGED <<progress, sidecars, holder, display, current, exposed>>
      BY <1>3 DEF Evict, Doing
    <2>2. oldest \in Files /\ oldest # was.keep
      <3>1. DOMAIN was.listing = 1..Len(was.listing) /\ Len(was.listing) \in Nat
        BY <1>0, LenProperties
      <3>2. Evictable(f) \in SUBSET Nat  BY <3>1 DEF Evictable
      <3>3. Min(Evictable(f)) \in Evictable(f)  BY <1>3, <3>2, FirstPosition
      <3> QED  BY <1>0, <3>1, <3>3, ElementOfSeq DEF Evictable
    <2>3. /\ images' \in Seq(Files) /\ IsInjective(images')
          /\ ToSet(images') = ToSet(images) \ {oldest}
      BY <1>0, <2>1, RemoveName
    <2> HIDE DEF oldest
    <2>4. /\ job \in FetchJobs /\ job.at = "unlinked" /\ job.file = oldest /\ job.keep = was.keep
          /\ job.seen = was.seen /\ job.listing = was.listing
      BY <1>0, <2>2 DEF FetchJobs, FetchSteps, Evicting
    <2> HIDE DEF job
    <2>5. fetch'[f] = job  BY <2>1, <2>4, OthersWait
    <2>6. JobInv(f)'  BY <1>0, <2>1, <2>3, <2>4, <2>5 DEF JobInv, Evicting
    <2>7. ShownKept'
      <3>1. ~exposed => was.keep = display  BY <1>0, <2>1 DEF JobInv, Evicting
      <3> QED  BY <1>0, <2>1, <2>2, <2>3, <3>1 DEF ShownKept
    <2>8. LibrarySound'  BY <1>0, <2>1, <2>3 DEF LibrarySound
    <2> QED  BY <1>0, <2>1, <2>3, <2>4, <2>6, <2>7, <2>8, StepKeeps DEF CollectionTyped
  <1>4. CASE EvictSidecar(f)
    <2> DEFINE left == RemoveFirst(was.listing, was.file)
               job == [was EXCEPT !.at = "evict", !.listing = left, !.file = NoFile]
    <2>1. was.at = "unlinked" /\ Become(f, job) /\ sidecars' = sidecars \ {was.file}
          /\ UNCHANGED <<progress, images, holder, display, current, exposed>>
      BY <1>4 DEF EvictSidecar, Doing
    <2>2. left \in Seq(Files) /\ IsInjective(left)  BY <1>0, RemoveName
    <2> HIDE DEF left
    <2>3. /\ job \in FetchJobs /\ job.at = "evict" /\ job.keep = was.keep
          /\ job.seen = was.seen /\ job.listing = left
      BY <1>0, <2>2 DEF FetchJobs, FetchSteps, Evicting
    <2> HIDE DEF job
    <2>4. fetch'[f] = job  BY <2>1, <2>3, OthersWait
    <2>5. was.file \notin ToSet(images) /\ (~exposed => was.keep = display)
      BY <1>0, <2>1 DEF JobInv, Evicting
    <2>6. JobInv(f)'  BY <1>0, <2>1, <2>2, <2>3, <2>4, <2>5 DEF JobInv, Evicting
    <2>7. LibrarySound' /\ ShownKept'  BY <1>0, <2>1, <2>5 DEF LibrarySound, ShownKept
    <2> QED  BY <1>0, <2>1, <2>3, <2>6, <2>7, StepKeeps DEF CollectionTyped
  <1>5. CASE FetchEnds(f)  BY <1>2, <1>5 DEF FetchEnds, Doing, collection
  <1>6. CASE Evict(f) /\ ~(Len(was.listing) > MaxImages /\ Evictable(f) # {})
    BY <1>2, <1>6 DEF Evict, Doing
  <1> QED  BY <1>1, <1>3, <1>4, <1>5, <1>6

\* The rotation shows what is there; the record is no part of what is promised.
LEMMA RotationKeeps ==
  ASSUME CollectionInv, ShowImage \/ TruncateCurrent \/ RecordCurrent PROVE CollectionInv'
  <1>1. CASE ShowImage
    <2>1. /\ display' \in ToSet(images) \cup {NoFile} /\ exposed' = EvictionRuns
          /\ UNCHANGED <<progress, images, sidecars, fetch, holder, current>>
      BY <1>1 DEF ShowImage, collection
    <2>2. ToSet(images) \subseteq Files
      BY LenProperties, ElementOfSeq DEF CollectionInv, CollectionTyped, ToSet
    <2>3. CollectionTyped'
      BY <2>1, <2>2 DEF CollectionInv, CollectionTyped, EvictionRuns
    <2>4. LibrarySound' /\ ShownKept'  BY <2>1 DEF CollectionInv, LibrarySound, ShownKept
    <2>5. ASSUME NEW f \in Fetchers PROVE JobInv(f)'
      BY <2>1 DEF CollectionInv, JobInv, EvictionRuns
    <2> QED  BY <2>3, <2>4, <2>5 DEF CollectionInv
  <1>2. CASE TruncateCurrent \/ RecordCurrent
    <2>1. /\ current' \in {NoFile, display}
          /\ UNCHANGED <<progress, images, sidecars, fetch, holder, display, exposed>>
      BY <1>2 DEF TruncateCurrent, RecordCurrent, collection
    <2> QED
      BY <2>1 DEF CollectionInv, CollectionTyped, LibrarySound, ShownKept, JobInv
  <1> QED  BY <1>1, <1>2

\* The parts are inductive together.
LEMMA CollectionCarried == ASSUME CollectionInv, [CollectionNext]_wc_vars PROVE CollectionInv'
  <1>1. CASE UNCHANGED wc_vars
    BY <1>1 DEF wc_vars, collection, CollectionInv, CollectionTyped, LibrarySound, ShownKept, JobInv
  <1> QED  BY <1>1, DiscoveryKeeps, PublicationKeeps, EvictionKeeps, RotationKeeps
           DEF CollectionNext, Discover

\* What the parts say of the state, the type invariant says more briefly.
LEMMA CollectionFits == ASSUME CollectionInv PROVE CollectionTypeOK
  <1>1. CollectionTyped  BY DEF CollectionInv
  <1>2. ToSet(images) \subseteq Files /\ ToSet(progress.seen) \subseteq Identifiers
    BY <1>1, LenProperties, ElementOfSeq DEF CollectionTyped, ToSet
  <1>3. \A f \in Fetchers :
          /\ fetch[f].at \in FetchSteps /\ fetch[f].pages \in 0..MaxPages
          /\ fetch[f].inspections \in 0..MaxDownloads /\ fetch[f].file \in Files \cup {NoFile}
    BY <1>1 DEF CollectionTyped, FetchJobs
  <1> QED  BY <1>1, <1>2, <1>3 DEF CollectionTyped, CollectionTypeOK, FetchSteps

LEMMA CollectionInvariant == CollectionSpec => []CollectionInv
  BY CollectionStarts, CollectionCarried, PTL DEF CollectionSpec

\* The state file, the directory and every run stay within their types: a run reads and
\* inspects no more than its budget, and what is remembered is bounded.
THEOREM CollectionTypeCorrect == CollectionSpec => []CollectionTypeOK
  BY CollectionFits, CollectionInvariant, PTL

\* Whatever fails or is killed, and however the runs of the timer and of the operator
\* meet, every image has its sidecar and no item is there twice.
THEOREM LibraryStaysSound == CollectionSpec => []LibrarySound
  <1>1. CollectionInv => LibrarySound  BY DEF CollectionInv
  <1> QED  BY <1>1, CollectionInvariant, PTL

\* No eviction takes away what it knew to be on the outputs.
THEOREM ShownImagesStay == CollectionSpec => []ShownKept
  <1>1. CollectionInv => ShownKept  BY DEF CollectionInv
  <1> QED  BY <1>1, CollectionInvariant, PTL
=============================================================================

-------------------------- MODULE WallpaperCollection --------------------------
(***************************************************************************)
(* The collection of astronomy wallpapers (wallpaper-fetch-d2d.py): one    *)
(* bounded acquisition reads a few pages of the provider's feed, publishes *)
(* at most one image with its sidecar, saves its progress and evicts the   *)
(* oldest images.  The timer and manual runs start fetchers beside each    *)
(* other and beside the rotation (wallpaper-next.sh.in), file operations   *)
(* fail, and every program may be killed between two steps.                *)
(*                                                                         *)
(* One connection stands for both: they share neither lock, state nor      *)
(* prefix.  The feed answers anything it may; what the rotation may show   *)
(* is modelled in WallpaperPolicy.                                         *)
(***************************************************************************)
EXTENDS Naturals, SequencesExt

CONSTANTS
  Fetchers,     \* runs of the program
  Items,        \* the records of the feed
  Files,        \* what may be rendered from them in time: pairs of an item and a checksum
  Target,       \* the display's width and height
  MaxPixels,    \* the largest original, in pixels
  LastPage,     \* the pages of the feed; the first is the feed itself
  MaxPages,     \* pages a run reads
  MaxDownloads, \* items a run inspects
  MaxImages,    \* images kept
  MaxSeen,      \* identifiers remembered
  NoFile        \* no image of this connection

ASSUME CollectionAssumption ==
  /\ LastPage \in Nat \ {0} /\ MaxPages \in Nat \ {0} /\ MaxDownloads \in Nat \ {0}
  /\ MaxImages \in Nat \ {0} /\ MaxSeen \in Nat \ {0} /\ MaxPixels \in Nat
  /\ Target.width \in Nat \ {0} /\ Target.height \in Nat \ {0}

VARIABLES
  progress, \* the state file: the page to read next and the identifiers seen
  images,   \* the published images, oldest first
  sidecars, \* their metadata files
  fetch,    \* what each run is doing
  holder,   \* the runs that hold the lock, at most one
  display,  \* the image on the outputs
  current,  \* the one recorded in the file "current"
  exposed   \* an eviction may not have known what is on the outputs (a history)

collection == <<progress, images, sidecars>>
wc_vars == <<collection, fetch, holder, display, current, exposed>>

Identifiers == {i.id : i \in Items}

\* What a run has in memory, as long as it still matters.
Waiting ==
  [at |-> "idle", cursor |-> 1, seen |-> <<>>, next |-> 1, left |-> {}, pages |-> 0, inspections |-> 0,
   file |-> NoFile, listing |-> <<>>, keep |-> NoFile]

Doing(f, step) == fetch[f].at = step
Become(f, job) == fetch' = [fetch EXCEPT ![f] = job]
Evicting == {"evict", "unlinked"}

CollectionTypeOK ==
  /\ progress.cursor \in 1..LastPage /\ Len(progress.seen) <= MaxSeen
  /\ ToSet(progress.seen) \subseteq Identifiers
  /\ ToSet(images) \subseteq Files /\ sidecars \subseteq Files
  /\ holder \subseteq Fetchers
  /\ \A f \in Fetchers :
       /\ fetch[f].at \in {"idle", "paging", "scanning", "turning", "rendered", "described", "placed",
                           "saved", "undo", "undone"} \cup Evicting
       /\ fetch[f].pages \in 0..MaxPages /\ fetch[f].inspections \in 0..MaxDownloads
       /\ fetch[f].file \in Files \cup {NoFile}
  /\ display \in Files \cup {NoFile} /\ current \in Files \cup {NoFile}
  /\ exposed \in BOOLEAN

CollectionInit ==
  /\ progress = [cursor |-> 1, seen |-> <<>>]
  /\ images = <<>>
  /\ sidecars = {}
  /\ fetch = [f \in Fetchers |-> Waiting]
  /\ holder = {}
  /\ display = NoFile
  /\ current = NoFile
  /\ exposed = FALSE

-----------------------------------------------------------------------------
(* Admission. *)

\* Large enough, not too large, and within a fifth of the display's shape.
Geometry(w, h) ==
  /\ w >= Target.width /\ h >= Target.height /\ w * h <= MaxPixels
  /\ w * Target.height * 5 >= h * Target.width * 4
  /\ w * Target.height * 4 <= h * Target.width * 5

\* _resource: licensed and credited, of sufficient priority, on the provider's own
\* host, no artwork or annotation, with a large observation of the right geometry.
Admissible(item) ==
  /\ item.licensed /\ item.priority >= 80 /\ item.own /\ ~item.unwanted
  /\ \E r \in item.resources : r.observed /\ r.large /\ r.own /\ r.bounded /\ Geometry(r.width, r.height)

\* Variant: nothing is forgotten.
RememberAll(seen, id) == Append(seen, id)

Remember(seen, id) ==
  LET all == Append(seen, id)
  IN  IF Len(all) > MaxSeen THEN SubSeq(all, Len(all) - MaxSeen + 1, Len(all)) ELSE all

Published(id) == \E file \in ToSet(images) : file[1] = id

-----------------------------------------------------------------------------
(* Discovery. *)

\* Variant: a run that finds the lock taken goes on.
AcquireAlways(f) ==
  /\ Doing(f, "idle")
  /\ holder' = holder \cup {f}
  /\ Become(f, [Waiting EXCEPT !.at = "paging", !.cursor = progress.cursor, !.seen = progress.seen])
  /\ UNCHANGED <<collection, display, current, exposed>>

\* An enabled plan; a run that finds the lock taken ends at once.
Acquire(f) ==
  /\ Doing(f, "idle") /\ holder = {}
  /\ holder' = {f}
  /\ Become(f, [Waiting EXCEPT !.at = "paging", !.cursor = progress.cursor, !.seen = progress.seen])
  /\ UNCHANGED <<collection, display, current, exposed>>

\* The page's next page is the one after it, or the feed's first.  Records that are
\* malformed or not admissible leave no trace.
FetchPage(f) ==
  /\ Doing(f, "paging")
  /\ \E page \in SUBSET Items, next \in {1} \cup ({fetch[f].cursor + 1} \cap 1..LastPage) :
       Become(f, [fetch[f] EXCEPT !.at = "scanning", !.left = {i \in page : Admissible(i)},
                                  !.next = next, !.pages = @ + 1])
  /\ UNCHANGED <<collection, holder, display, current, exposed>>

Drop(f, item) == [fetch[f] EXCEPT !.left = @ \ {item}]

PassOver(f, item) ==
  /\ item.id \in ToSet(fetch[f].seen)
  /\ Become(f, Drop(f, item))

NoteExisting(f, item) ==
  /\ item.id \notin ToSet(fetch[f].seen) /\ Published(item.id)
  /\ Become(f, [Drop(f, item) EXCEPT !.seen = Remember(@, item.id)])

\* Its page is read and its original fetched, decoded and rendered: it may be of no
\* enabled category or unsuitable, or it has been rendered.
Inspect(f, item) ==
  /\ item.id \notin ToSet(fetch[f].seen) /\ ~Published(item.id)
  /\ \/ /\ fetch[f].inspections >= MaxDownloads
        /\ Become(f, [fetch[f] EXCEPT !.at = "turning"])
     \/ /\ fetch[f].inspections < MaxDownloads
        /\ Become(f, [Drop(f, item) EXCEPT !.inspections = @ + 1])
     \/ /\ fetch[f].inspections < MaxDownloads
        /\ \E file \in Files :
             /\ file[1] = item.id
             /\ Become(f, [Waiting EXCEPT !.at = "rendered", !.file = file,
                                          !.next = fetch[f].next, !.seen = fetch[f].seen])

\* The items of a page come in random order.
Scan(f) ==
  /\ Doing(f, "scanning")
  /\ IF fetch[f].left = {}
     THEN Become(f, [fetch[f] EXCEPT !.at = "turning"])
     ELSE \E item \in fetch[f].left : PassOver(f, item) \/ NoteExisting(f, item) \/ Inspect(f, item)
  /\ UNCHANGED <<collection, holder, display, current, exposed>>

Release(f) ==
  /\ Become(f, Waiting)
  /\ holder' = holder \ {f}

\* The page is done with, also when the budget ended it: progress is saved.
TurnPage(f) ==
  /\ Doing(f, "turning")
  /\ LET job == fetch[f]
     IN  /\ progress' = [cursor |-> job.next, seen |-> job.seen]
         /\ IF job.next = 1 \/ job.inspections >= MaxDownloads \/ job.pages >= MaxPages
            THEN Release(f)
            ELSE /\ Become(f, [job EXCEPT !.at = "paging", !.cursor = job.next, !.left = {}])
                 /\ UNCHANGED holder
  /\ UNCHANGED <<images, sidecars, display, current, exposed>>

-----------------------------------------------------------------------------
(* Publication: the sidecar, the image, the progress; undone in reverse. *)

Describe(f) ==
  /\ Doing(f, "rendered")
  /\ sidecars' = sidecars \cup {fetch[f].file}
  /\ Become(f, [fetch[f] EXCEPT !.at = "described"])
  /\ UNCHANGED <<progress, images, holder, display, current, exposed>>

Place(f) ==
  /\ Doing(f, "described")
  /\ images' = Append(RemoveFirst(images, fetch[f].file), fetch[f].file)
  /\ Become(f, [fetch[f] EXCEPT !.at = "placed"])
  /\ UNCHANGED <<progress, sidecars, holder, display, current, exposed>>

SaveState(f) ==
  /\ Doing(f, "placed")
  /\ LET job == fetch[f]
     IN  progress' = [cursor |-> job.next, seen |-> Remember(job.seen, job.file[1])]
  /\ Become(f, [Waiting EXCEPT !.at = "saved"])
  /\ UNCHANGED <<images, sidecars, holder, display, current, exposed>>

\* Any of the three is refused.
PublicationFails(f) ==
  /\ fetch[f].at \in {"rendered", "described", "placed"}
  /\ Become(f, [Waiting EXCEPT !.at = "undo", !.file = fetch[f].file])
  /\ UNCHANGED <<collection, holder, display, current, exposed>>

WithdrawImage(f) ==
  /\ Doing(f, "undo")
  /\ images' = RemoveFirst(images, fetch[f].file)
  /\ exposed' = (exposed \/ display = fetch[f].file)
  /\ Become(f, [fetch[f] EXCEPT !.at = "undone"])
  /\ UNCHANGED <<progress, sidecars, holder, display, current>>

WithdrawSidecar(f) ==
  /\ Doing(f, "undone")
  /\ sidecars' = sidecars \ {fetch[f].file}
  /\ Release(f)
  /\ UNCHANGED <<progress, images, display, current, exposed>>

-----------------------------------------------------------------------------
(* _prune *)

\* What is recorded as current, and the images by age.
ListImages(f) ==
  /\ Doing(f, "saved")
  /\ Become(f, [fetch[f] EXCEPT !.at = "evict", !.keep = current, !.listing = images])
  /\ exposed' = (exposed \/ current # display)
  /\ UNCHANGED <<collection, holder, display, current>>

\* Variant: the oldest go, whatever is shown.
EvictableAll(f) == DOMAIN fetch[f].listing

\* The positions of the images that may go.
Evictable(f) == {i \in DOMAIN fetch[f].listing : fetch[f].listing[i] # fetch[f].keep}

\* The oldest beyond the limit go, one by one.
Evict(f) ==
  /\ Doing(f, "evict")
  /\ IF Len(fetch[f].listing) > MaxImages /\ Evictable(f) # {}
     THEN LET oldest == fetch[f].listing[Min(Evictable(f))]
          IN  /\ images' = RemoveFirst(images, oldest)
              /\ Become(f, [fetch[f] EXCEPT !.at = "unlinked", !.file = oldest])
              /\ UNCHANGED holder
     ELSE Release(f) /\ UNCHANGED images
  /\ UNCHANGED <<progress, sidecars, display, current, exposed>>

EvictSidecar(f) ==
  /\ Doing(f, "unlinked")
  /\ sidecars' = sidecars \ {fetch[f].file}
  /\ Become(f, [fetch[f] EXCEPT !.at = "evict", !.listing = RemoveFirst(@, fetch[f].file), !.file = NoFile])
  /\ UNCHANGED <<progress, images, holder, display, current, exposed>>

\* The deadline, an error of the provider or the file system, or the service manager
\* ends the run; the kernel drops its lock.
FetchEnds(f) ==
  /\ ~Doing(f, "idle")
  /\ Release(f)
  /\ UNCHANGED <<collection, display, current, exposed>>

-----------------------------------------------------------------------------
(* The rotation: the renderer is told, then the record is truncated and written. *)

EvictionRuns == \E f \in Fetchers : fetch[f].at \in Evicting

\* An image of this connection, if it is there, or another.
ShowImage ==
  /\ display' \in ToSet(images) \cup {NoFile}
  /\ exposed' = EvictionRuns
  /\ UNCHANGED <<collection, fetch, holder, current>>

TruncateCurrent ==
  /\ current' = NoFile
  /\ UNCHANGED <<collection, fetch, holder, display, exposed>>

RecordCurrent ==
  /\ current' = display
  /\ UNCHANGED <<collection, fetch, holder, display, exposed>>

-----------------------------------------------------------------------------
Discover(f) ==
  \/ Acquire(f) \/ FetchPage(f) \/ Scan(f) \/ TurnPage(f)
  \/ Describe(f) \/ Place(f) \/ SaveState(f)
  \/ PublicationFails(f) \/ WithdrawImage(f) \/ WithdrawSidecar(f)
  \/ ListImages(f) \/ Evict(f) \/ EvictSidecar(f) \/ FetchEnds(f)

CollectionNext ==
  \/ \E f \in Fetchers : Discover(f)
  \/ ShowImage \/ TruncateCurrent \/ RecordCurrent

CollectionSpec == CollectionInit /\ [][CollectionNext]_wc_vars

-----------------------------------------------------------------------------
(* Properties. *)

\* The library makes sense to the rotation's filter at every instant, also after a
\* failed or killed publication or eviction: an image has the sidecar that says where
\* it comes from, and no item is there twice.
LibrarySound ==
  /\ ToSet(images) \subseteq sidecars
  /\ \A a, b \in ToSet(images) : a[1] = b[1] => a = b

\* Eviction spares what is on the outputs, unless it ran while the rotation had shown
\* an image and not yet recorded it, or was killed there; or the image was shown
\* before its publication was undone.
ShownKept == display # NoFile /\ ~exposed => display \in ToSet(images)
=============================================================================

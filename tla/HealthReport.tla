---------------------------- MODULE HealthReport ----------------------------
(***************************************************************************)
(* The storage health report (storage/health.py).  "refresh" collects the  *)
(* failing checks and saves them in health.json by way of health.tmp; the  *)
(* status and delivery commands read health.json.  A timer starts one      *)
(* refresh again and again; an operator may run another beside it.         *)
(***************************************************************************)
EXTENDS Naturals

CONSTANTS
  Checks,           \* what collect inspects, each one message when it fails
  Stale, Unchecked, \* the messages of read itself
  Nothing,          \* no file
  Refreshers, Timed,  \* refresh processes, and the timer's among them
  MaxManual, MaxDeaths, MaxOutages  \* bounds: runs by hand, kills, stale reports

ASSUME HealthReportAssumption ==
  /\ Stale \notin Checks /\ Unchecked \notin Checks /\ Stale # Unchecked
  /\ Timed \in Refreshers
  /\ {MaxManual, MaxDeaths, MaxOutages} \subseteq Nat

VARIABLES
  failing,   \* the checks that fail right now
  tmp, json, \* the files health.tmp and health.json
  refresh,   \* progress of each refresh: checks left, failures seen, the file
             \* its descriptor is on, whether it has saved alone so far
  sole,      \* the refresh that published health.json saved alone
  spent      \* uses of the bounds

vars == <<failing, tmp, json, refresh, sole, spent>>

Contents == [form : {"empty", "torn", "whole"}, messages : SUBSET Checks,
             recent : BOOLEAN]
Saving == {"opened", "written", "readable"}

TypeOK ==
  /\ failing \subseteq Checks
  /\ tmp \in Contents \cup {Nothing} /\ json \in Contents \cup {Nothing}
  /\ refresh \in [Refreshers -> [at : {"idle", "collect"} \cup Saving,
        left : SUBSET Checks, seen : SUBSET Checks,
        fd : {"none", "tmp", "json", "unlinked"}, sole : BOOLEAN]]
  /\ sole \in BOOLEAN
  /\ spent \in [manual : 0..MaxManual, deaths : 0..MaxDeaths,
                outages : 0..MaxOutages]

NoRefresh == [at |-> "idle", left |-> {}, seen |-> {}, fd |-> "none",
              sole |-> FALSE]
Blank == [form |-> "empty", messages |-> {}, recent |-> FALSE]

Init ==
  /\ failing \in SUBSET Checks
  /\ tmp = Nothing /\ json = Nothing /\ sole = FALSE
  /\ refresh = [r \in Refreshers |-> NoRefresh]
  /\ spent = [manual |-> 0, deaths |-> 0, outages |-> 0]

-----------------------------------------------------------------------------
(* The machine: checks start and stop failing, and a report outlives       *)
(* MAX_REPORT_AGE (or the clock is set back and dates it in the future).   *)

Change ==
  /\ failing' \in SUBSET Checks /\ failing' # failing
  /\ UNCHANGED <<tmp, json, refresh, sole, spent>>

Age ==
  /\ spent.outages < MaxOutages
  /\ json # Nothing /\ json.form = "whole" /\ json.recent
  /\ json' = [json EXCEPT !.recent = FALSE]
  /\ spent' = [spent EXCEPT !.outages = @ + 1]
  /\ UNCHANGED <<failing, tmp, refresh, sole>>

\* read: a report that is absent, unreadable or old is a warning itself.
Reported ==
  IF json = Nothing THEN {Unchecked}
  ELSE IF json.form # "whole" THEN {Unchecked}
  ELSE IF ~json.recent THEN {Stale}
  ELSE json.messages

-----------------------------------------------------------------------------
(* refresh: collect, then save through the one health.tmp *)

\* Only the timer starts refreshes without end.
Manual(r) ==
  IF r = Timed THEN UNCHANGED spent
  ELSE /\ spent.manual < MaxManual
       /\ spent' = [spent EXCEPT !.manual = @ + 1]

\* Variant: a report that is recent enough is left alone.
BeginWhenStale(r) ==
  /\ refresh[r].at = "idle" /\ Manual(r)
  /\ json = Nothing \/ Reported \in {{Stale}, {Unchecked}}
  /\ refresh' = [refresh EXCEPT ![r] = [NoRefresh EXCEPT !.at = "collect",
                                                         !.left = Checks]]
  /\ UNCHANGED <<failing, tmp, json, sole>>

Begin(r) ==
  /\ refresh[r].at = "idle" /\ Manual(r)
  /\ refresh' = [refresh EXCEPT ![r] = [NoRefresh EXCEPT !.at = "collect",
                                                         !.left = Checks]]
  /\ UNCHANGED <<failing, tmp, json, sole>>

\* Variant: a check that passes keeps what the last report held.
InspectOnTop(r, c) ==
  /\ refresh[r].at = "collect" /\ c \in refresh[r].left
  /\ refresh' = [refresh EXCEPT ![r].left = @ \ {c},
                                ![r].seen = @ \cup ({c} \cap failing) \cup Reported]
  /\ UNCHANGED <<failing, tmp, json, sole, spent>>

Inspect(r, c) ==
  /\ refresh[r].at = "collect" /\ c \in refresh[r].left
  /\ refresh' = [refresh EXCEPT ![r].left = @ \ {c},
                                ![r].seen = @ \cup ({c} \cap failing)]
  /\ UNCHANGED <<failing, tmp, json, sole, spent>>

InSave(r) == refresh[r].at \in Saving
Alone(r) == \A q \in Refreshers \ {r} : ~InSave(q)

\* Variant: the report is written over health.json itself.
OpenPublished(r) ==
  /\ refresh[r].at = "collect" /\ refresh[r].left = {}
  /\ json' = Blank /\ sole' = Alone(r)
  /\ refresh' = [refresh EXCEPT ![r].at = "opened", ![r].fd = "json"]
  /\ UNCHANGED <<failing, tmp, spent>>

\* open(health.tmp, "w"): truncates the file that is there, or creates one.
\* Nobody in save is alone any more once a second refresh gets here.
Open(r) ==
  /\ refresh[r].at = "collect" /\ refresh[r].left = {}
  /\ tmp' = Blank
  /\ refresh' = [q \in Refreshers |->
       IF q = r
       THEN [refresh[q] EXCEPT !.at = "opened", !.fd = "tmp", !.sole = Alone(r)]
       ELSE [refresh[q] EXCEPT !.sole = FALSE]]
  /\ UNCHANGED <<failing, json, sole, spent>>

\* One write at offset 0.  Over the report of another refresh it leaves the
\* tail of a longer one; with more messages it is longer whatever the times.
After(old, seen) ==
  LET whole == [form |-> "whole", messages |-> seen, recent |-> TRUE]
      covers == /\ old.form = "whole"
                /\ old.messages \subseteq seen /\ old.messages # seen
  IN IF old.form = "empty" \/ covers THEN {whole}
     ELSE {whole, [Blank EXCEPT !.form = "torn"]}

Write(r) ==
  /\ refresh[r].at = "opened"
  /\ IF refresh[r].fd = "tmp" THEN tmp' \in After(tmp, refresh[r].seen)
     ELSE UNCHANGED tmp
  /\ IF refresh[r].fd = "json" THEN json' \in After(json, refresh[r].seen)
     ELSE UNCHANGED json
  /\ refresh' = [refresh EXCEPT ![r].at = "written", ![r].fd = "none"]
  /\ UNCHANGED <<failing, sole, spent>>

Chmod(r) ==
  /\ refresh[r].at = "written" /\ tmp # Nothing
  /\ refresh' = [refresh EXCEPT ![r].at = "readable"]
  /\ UNCHANGED <<failing, tmp, json, sole, spent>>

\* A descriptor stays with its file: another refresh may yet write to it.
Moved(fd) ==
  CASE fd = "tmp" -> "json" [] fd = "json" -> "unlinked" [] OTHER -> fd

Replace(r) ==
  /\ refresh[r].at = "readable" /\ tmp # Nothing
  /\ json' = tmp /\ tmp' = Nothing /\ sole' = refresh[r].sole
  /\ refresh' = [q \in Refreshers |->
       IF q = r THEN NoRefresh
       ELSE [refresh[q] EXCEPT !.fd = Moved(@)]]
  /\ UNCHANGED <<failing, spent>>

\* FileNotFoundError: another refresh has renamed health.tmp away.
SaveFails(r) ==
  /\ refresh[r].at \in {"written", "readable"} /\ tmp = Nothing
  /\ refresh' = [refresh EXCEPT ![r] = NoRefresh]
  /\ UNCHANGED <<failing, tmp, json, sole, spent>>

RefreshStep(r) ==
  \/ \E c \in Checks : Inspect(r, c)
  \/ Open(r) \/ Write(r) \/ Chmod(r) \/ Replace(r) \/ SaveFails(r)

\* A kill, or an exception out of a check that outlived its 30 seconds.
RefreshDies(r) ==
  /\ refresh[r].at # "idle" /\ spent.deaths < MaxDeaths
  /\ refresh' = [refresh EXCEPT ![r] = NoRefresh]
  /\ spent' = [spent EXCEPT !.deaths = @ + 1]
  /\ UNCHANGED <<failing, tmp, json, sole>>

-----------------------------------------------------------------------------
Next ==
  \/ Change \/ Age
  \/ \E r \in Refreshers : Begin(r) \/ RefreshStep(r) \/ RefreshDies(r)

\* The timer fires again and again, and a refresh that runs goes on.
Fairness ==
  /\ WF_vars(Begin(Timed))
  /\ \A r \in Refreshers : WF_vars(RefreshStep(r))

Spec == Init /\ [][Next]_vars
FairSpec == Spec /\ Fairness

-----------------------------------------------------------------------------
(* Properties *)

\* save: "Atomically publish".  A refresh that had health.tmp to itself leaves
\* a whole report, whatever was killed before it or is killed in its middle.
ReportIsWhole == sole => json \in Contents /\ json.form = "whole"

\* A check that keeps failing ends up in what status and delivery read, and
\* stays there: no stale, torn or late report hides it for good.
FailureStaysReported ==
  \A c \in Checks : []([](c \in failing) => <>[](c \in Reported))
=============================================================================

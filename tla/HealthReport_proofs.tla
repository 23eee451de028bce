------------------------ MODULE HealthReport_proofs ------------------------
(***************************************************************************)
(* Proofs about HealthReport for every set of checks and any number of     *)
(* concurrent refreshes.  A refresh that saves alone works on a health.tmp *)
(* that nobody else has open, so what it renames is whole, and nobody is   *)
(* left with a descriptor on what it published.                            *)
(***************************************************************************)
EXTENDS HealthReport, TLAPS

\* A descriptor lasts from open to write, on a file that is there.
DescriptorInv ==
  \A r \in Refreshers :
    /\ refresh[r].fd # "none" => refresh[r].at = "opened"
    /\ refresh[r].fd = "tmp" => tmp \in Contents
    /\ refresh[r].fd = "json" => json \in Contents

\* What health.tmp holds while a refresh saves alone.
SoleInv ==
  \A r \in Refreshers : InSave(r) /\ refresh[r].sole =>
    /\ Alone(r)
    /\ refresh[r].at = "opened" => refresh[r].fd = "tmp" /\ tmp = Blank
    /\ refresh[r].at # "opened" => tmp \in Contents /\ tmp.form = "whole"

\* Nobody writes to a report that was saved alone.
PublishedInv ==
  sole => /\ json \in Contents /\ json.form = "whole"
          /\ \A r \in Refreshers : refresh[r].fd # "json"

IInv == TypeOK /\ DescriptorInv /\ SoleInv /\ PublishedInv

Progress == [at : {"idle", "collect"} \cup Saving,
             left : SUBSET Checks, seen : SUBSET Checks,
             fd : {"none", "tmp", "json", "unlinked"}, sole : BOOLEAN]

-----------------------------------------------------------------------------
LEMMA BlankType == Blank \in Contents /\ Blank.form = "empty"
  BY DEF Blank, Contents

LEMMA NoRefreshType == NoRefresh \in Progress
  BY DEF NoRefresh, Progress, Saving

\* Whatever a write leaves is a content, and over nothing it is whole.
LEMMA AfterType ==
  ASSUME NEW old \in Contents, NEW seen \in SUBSET Checks,
         NEW new \in After(old, seen)
  PROVE  new \in Contents /\ (old.form = "empty" => new.form = "whole")
<1> DEFINE whole == [form |-> "whole", messages |-> seen, recent |-> TRUE]
<1>1. whole \in Contents /\ whole.form = "whole"
  BY DEF Contents
<1>2. [Blank EXCEPT !.form = "torn"] \in Contents
  BY Zenon DEF Contents, Blank
<1> DEFINE torn == [Blank EXCEPT !.form = "torn"]
<1>3. new = whole \/ (old.form # "empty" /\ new = torn)
  BY DEF After
<1>4. torn \in Contents
  BY <1>2
<1> HIDE DEF whole, torn
<1> QED
  BY <1>1, <1>3, <1>4

\* Changing one field leaves the others.
LEMMA SoleCleared ==
  ASSUME NEW p \in Progress, NEW q, q = [p EXCEPT !.sole = FALSE]
  PROVE  q \in Progress /\ ~q.sole /\ q.fd = p.fd /\ q.at = p.at
<1>1. q \in Progress
  BY DEF Progress
<1>2. q.sole = FALSE
  BY Zenon DEF Progress
<1>3. q.fd = p.fd /\ q.at = p.at
  BY DEF Progress
<1> QED
  BY <1>1, <1>2, <1>3

LEMMA FdChanged ==
  ASSUME NEW p \in Progress, NEW fd \in {"none", "tmp", "json", "unlinked"},
         NEW q, q = [p EXCEPT !.fd = fd]
  PROVE  q \in Progress /\ q.fd = fd /\ q.at = p.at /\ q.sole = p.sole
<1>1. q \in Progress
  BY DEF Progress
<1>2. q.fd = fd /\ q.at = p.at
  BY DEF Progress
<1>3. q.sole = p.sole
  BY Zenon DEF Progress
<1> QED
  BY <1>1, <1>2, <1>3

LEMMA InitInv == Init => IInv
<1> SUFFICES ASSUME Init PROVE IInv
  OBVIOUS
<1>1. refresh \in [Refreshers -> Progress]
  BY NoRefreshType DEF Init
<1>2. spent \in [manual : 0..MaxManual, deaths : 0..MaxDeaths,
                 outages : 0..MaxOutages]
  BY HealthReportAssumption DEF Init
<1>3. ~sole
  BY Zenon DEF Init
<1>4. TypeOK
  <2>1. failing \subseteq Checks
    BY DEF Init
  <2>2. tmp = Nothing /\ json = Nothing
    BY DEF Init
  <2>3. sole \in BOOLEAN
    BY Zenon DEF Init
  <2> QED
    BY <1>1, <1>2, <2>1, <2>2, <2>3 DEF TypeOK, Progress
<1>5. \A r \in Refreshers : refresh[r].fd = "none" /\ refresh[r].at = "idle"
  BY DEF Init, NoRefresh
<1> QED
  BY <1>3, <1>4, <1>5 DEF IInv, DescriptorInv, SoleInv, PublishedInv, InSave, Saving

-----------------------------------------------------------------------------
\* A step of one refresh that leaves both files and everybody else alone, and
\* stays where it was in save or leaves it.
LEMMA OwnStep ==
  ASSUME IInv, NEW r \in Refreshers, NEW p \in Progress,
         refresh' = [refresh EXCEPT ![r] = p],
         p.fd = "none",
         p.at \in Saving
           => /\ refresh[r].at \in {"written", "readable"}
              /\ p.at \in {"written", "readable"} /\ p.sole = refresh[r].sole,
         UNCHANGED <<failing, tmp, json, sole>>,
         spent' \in [manual : 0..MaxManual, deaths : 0..MaxDeaths,
                     outages : 0..MaxOutages]
  PROVE  IInv'
<1> USE DEF IInv, TypeOK
<1>1. refresh' \in [Refreshers -> Progress]
  BY DEF Progress
<1>2. TypeOK'
  BY <1>1 DEF Progress
<1>3. \A q \in Refreshers : refresh'[q] = IF q = r THEN p ELSE refresh[q]
  OBVIOUS
<1>4. DescriptorInv'
  BY <1>3 DEF DescriptorInv
<1>5. SoleInv'
  <2> SUFFICES ASSUME NEW q \in Refreshers, InSave(q)', refresh'[q].sole
               PROVE  /\ Alone(q)'
                      /\ refresh'[q].at = "opened" => refresh'[q].fd = "tmp" /\ tmp' = Blank
                      /\ refresh'[q].at # "opened" => tmp' \in Contents /\ tmp'.form = "whole"
    BY DEF SoleInv
  <2>1. \A s \in Refreshers : InSave(s)' => InSave(s)
    BY <1>3 DEF InSave, Saving
  <2>2. InSave(q) /\ refresh[q].sole
    BY <1>3, <2>1 DEF InSave
  <2>3. Alone(q)'
    BY <2>1, <2>2 DEF SoleInv, Alone
  <2>4. (refresh'[q].at = "opened") <=> (refresh[q].at = "opened")
    BY <1>3 DEF InSave, Saving
  <2>5. refresh'[q].at = "opened" => refresh'[q].fd = refresh[q].fd
    BY <1>3 DEF InSave, Saving
  <2> QED
    BY <2>2, <2>3, <2>4, <2>5 DEF SoleInv
<1>6. PublishedInv'
  BY <1>3 DEF PublishedInv
<1> QED
  BY <1>2, <1>4, <1>5, <1>6

LEMMA BeginKeeps ==
  ASSUME IInv, NEW r \in Refreshers, Begin(r) PROVE IInv'
<1> DEFINE p == [NoRefresh EXCEPT !.at = "collect", !.left = Checks]
<1>1. p \in Progress /\ p.fd = "none" /\ p.at = "collect"
  BY DEF NoRefresh, Progress, Saving
<1>2. spent' \in [manual : 0..MaxManual, deaths : 0..MaxDeaths,
                  outages : 0..MaxOutages]
  <2>1. CASE r = Timed
    BY <2>1 DEF Begin, Manual, IInv, TypeOK
  <2>2. CASE r # Timed
    BY <2>2, HealthReportAssumption DEF Begin, Manual, IInv, TypeOK
  <2> QED
    BY <2>1, <2>2
<1> QED
  BY <1>1, <1>2, OwnStep DEF Begin, Saving

LEMMA InspectKeeps ==
  ASSUME IInv, NEW r \in Refreshers, NEW c \in Checks, Inspect(r, c)
  PROVE  IInv'
<1> DEFINE p == [refresh[r] EXCEPT !.left = @ \ {c},
                                   !.seen = @ \cup ({c} \cap failing)]
<1>1. refresh[r] \in Progress /\ failing \subseteq Checks
  BY DEF IInv, TypeOK, Progress
<1>2. p \in Progress /\ p.fd = refresh[r].fd /\ p.at = refresh[r].at
  BY <1>1 DEF Progress
<1>3. p.fd = "none" /\ p.at \notin Saving
  BY <1>2 DEF Inspect, IInv, DescriptorInv, Saving
<1>4. refresh' = [refresh EXCEPT ![r] = p]
  BY <1>1 DEF Inspect, Progress
<1>5. /\ UNCHANGED <<failing, tmp, json, sole, spent>>
      /\ spent \in [manual : 0..MaxManual, deaths : 0..MaxDeaths, outages : 0..MaxOutages]
  BY DEF Inspect, IInv, TypeOK
<1> HIDE DEF p
<1> QED
  BY <1>2, <1>3, <1>4, <1>5, OwnStep

LEMMA ChmodKeeps ==
  ASSUME IInv, NEW r \in Refreshers, Chmod(r) PROVE IInv'
<1> DEFINE p == [refresh[r] EXCEPT !.at = "readable"]
<1>1. refresh[r] \in Progress
  BY DEF IInv, TypeOK, Progress
<1>2. /\ p \in Progress /\ p.fd = refresh[r].fd
      /\ p.at = "readable" /\ p.sole = refresh[r].sole
  BY <1>1 DEF Progress, Saving
<1>3. p.fd = "none"
  BY <1>1, <1>2 DEF Chmod, IInv, DescriptorInv, Progress
<1>4. refresh' = [refresh EXCEPT ![r] = p]
  BY <1>1 DEF Chmod
<1> QED
  BY <1>2, <1>3, <1>4, OwnStep DEF Chmod, IInv, TypeOK

LEMMA EndKeeps ==
  ASSUME IInv, NEW r \in Refreshers, SaveFails(r) \/ RefreshDies(r)
  PROVE  IInv'
<1>1. NoRefresh.fd = "none" /\ NoRefresh.at \notin Saving
  BY DEF NoRefresh, Saving
<1>2. spent' \in [manual : 0..MaxManual, deaths : 0..MaxDeaths,
                  outages : 0..MaxOutages]
  BY HealthReportAssumption DEF SaveFails, RefreshDies, IInv, TypeOK
<1> QED
  BY <1>1, <1>2, NoRefreshType, OwnStep DEF SaveFails, RefreshDies

\* Opening takes the file from under whoever was in save, and marks them so.
LEMMA OpenKeeps ==
  ASSUME IInv, NEW r \in Refreshers, Open(r) PROVE IInv'
<1> USE DEF IInv, TypeOK
<1>1. \A q \in Refreshers \ {r} :
        refresh'[q] = [refresh[q] EXCEPT !.sole = FALSE]
  BY DEF Open
<1>2. refresh'[r] = [refresh[r] EXCEPT !.at = "opened", !.fd = "tmp", !.sole = Alone(r)]
  BY DEF Open
<1>3. Alone(r) \in BOOLEAN
  BY Zenon DEF Alone
<1>4. \A q \in Refreshers : refresh[q] \in Progress
  BY DEF Progress
<1>5. refresh'[r] \in Progress
  BY <1>2, <1>3, <1>4 DEF Progress, Saving
<1>6. \A q \in Refreshers \ {r} :
        /\ refresh'[q] \in Progress /\ ~refresh'[q].sole
        /\ refresh'[q].fd = refresh[q].fd /\ refresh'[q].at = refresh[q].at
  BY <1>1, <1>4, SoleCleared
<1>7. /\ refresh'[r].at = "opened" /\ refresh'[r].fd = "tmp"
      /\ refresh'[r].sole = Alone(r)
  BY <1>2, <1>4 DEF Progress
<1>8. TypeOK'
  <2>1. refresh' \in [Refreshers -> Progress]
    BY <1>5, <1>6 DEF Open
  <2>2. tmp' \in Contents /\ UNCHANGED <<failing, json, sole, spent>>
    BY BlankType DEF Open
  <2> QED
    BY <2>1, <2>2 DEF Progress
<1>9. DescriptorInv'
  <2>1. tmp' \in Contents /\ json' = json
    BY BlankType DEF Open
  <2>2. \A q \in Refreshers \ {r} : /\ refresh'[q].fd # "none" => refresh'[q].at = "opened"
                                    /\ refresh'[q].fd = "json" => json \in Contents
    BY <1>6 DEF DescriptorInv
  <2> QED
    BY <1>7, <2>1, <2>2 DEF DescriptorInv
<1>10. SoleInv'
  <2>1. Alone(r) => Alone(r)'
    BY <1>6 DEF Alone, InSave
  <2> QED
    BY <1>6, <1>7, <2>1 DEF Open, SoleInv
<1>11. PublishedInv'
  BY <1>6, <1>7 DEF Open, PublishedInv
<1> QED
  BY <1>8, <1>9, <1>10, <1>11

\* A write in save meets another refresh only if neither is alone.
LEMMA WriteKeeps ==
  ASSUME IInv, NEW r \in Refreshers, Write(r) PROVE IInv'
<1> USE DEF IInv, TypeOK
<1>1. \A q \in Refreshers : refresh[q] \in Progress
  BY DEF Progress
<1>2. \A q \in Refreshers \ {r} : refresh'[q] = refresh[q]
  BY DEF Write
<1>3. /\ refresh'[r] \in Progress
      /\ refresh'[r].at = "written" /\ refresh'[r].fd = "none"
      /\ refresh'[r].sole = refresh[r].sole
  BY <1>1 DEF Write, Progress, Saving
<1>4. refresh[r].seen \in SUBSET Checks /\ refresh[r].at = "opened" /\ InSave(r)
  BY <1>1 DEF Write, Progress, InSave, Saving
<1>5. tmp' = tmp \/ (refresh[r].fd = "tmp" /\ tmp' \in Contents)
  BY <1>4, AfterType DEF Write, DescriptorInv
<1>6. json' = json \/ (refresh[r].fd = "json" /\ json' \in Contents)
  BY <1>4, AfterType DEF Write, DescriptorInv
<1>7. TypeOK'
  <2>1. refresh' \in [Refreshers -> Progress]
    BY <1>1, <1>2, <1>3 DEF Write
  <2> QED
    BY <1>5, <1>6, <2>1 DEF Write, Progress
<1>8. DescriptorInv'
  BY <1>2, <1>3, <1>5, <1>6 DEF DescriptorInv
<1>9. SoleInv'
  <2> SUFFICES ASSUME NEW q \in Refreshers, InSave(q)', refresh'[q].sole
               PROVE  /\ Alone(q)'
                      /\ refresh'[q].at = "opened" => refresh'[q].fd = "tmp" /\ tmp' = Blank
                      /\ refresh'[q].at # "opened" => tmp' \in Contents /\ tmp'.form = "whole"
    BY DEF SoleInv
  <2>1. \A s \in Refreshers : InSave(s)' <=> InSave(s)
    BY <1>2, <1>3, <1>4 DEF InSave, Saving
  <2>2. InSave(q) /\ refresh[q].sole /\ Alone(q)
    BY <1>2, <1>3, <2>1 DEF SoleInv
  <2>3. Alone(q)'
    BY <2>1, <2>2 DEF Alone
  <2>4. q = r
    BY <1>4, <2>2 DEF Alone
  <2>5. refresh[r].fd = "tmp" /\ tmp = Blank
    BY <1>4, <2>2, <2>4 DEF SoleInv
  <2>6. tmp' \in Contents /\ tmp'.form = "whole"
    BY <1>4, <2>5, AfterType, BlankType DEF Write
  <2> QED
    BY <1>3, <2>3, <2>4, <2>6
<1>10. PublishedInv'
  <2> SUFFICES ASSUME sole
               PROVE  /\ json' \in Contents /\ json'.form = "whole"
                      /\ \A q \in Refreshers : refresh'[q].fd # "json"
    BY DEF Write, PublishedInv
  <2> QED
    BY <1>2, <1>3, <1>6 DEF PublishedInv
<1> QED
  BY <1>7, <1>8, <1>9, <1>10

\* A lone refresh renames a whole file that nobody has open.
LEMMA ReplaceKeeps ==
  ASSUME IInv, NEW r \in Refreshers, Replace(r) PROVE IInv'
<1> USE DEF IInv, TypeOK
<1>1. \A q \in Refreshers : refresh[q] \in Progress
  BY DEF Progress
<1>2. refresh'[r] = NoRefresh
  BY DEF Replace
<1>3. \A q \in Refreshers \ {r} :
        refresh'[q] = [refresh[q] EXCEPT !.fd = Moved(refresh[q].fd)]
  BY DEF Replace
<1>4. ASSUME NEW fd \in {"none", "tmp", "json", "unlinked"}
      PROVE  /\ Moved(fd) \in {"none", "tmp", "json", "unlinked"}
             /\ Moved(fd) # "tmp"
             /\ Moved(fd) = "json" <=> fd = "tmp"
             /\ Moved(fd) = "none" <=> fd = "none"
  BY DEF Moved
<1>5. \A q \in Refreshers \ {r} :
        /\ refresh'[q] \in Progress
        /\ refresh'[q].fd = Moved(refresh[q].fd)
        /\ refresh'[q].at = refresh[q].at /\ refresh'[q].sole = refresh[q].sole
  <2> SUFFICES ASSUME NEW q \in Refreshers \ {r}
               PROVE  /\ refresh'[q] \in Progress
                      /\ refresh'[q].fd = Moved(refresh[q].fd)
                      /\ refresh'[q].at = refresh[q].at
                      /\ refresh'[q].sole = refresh[q].sole
    OBVIOUS
  <2>1. refresh[q] \in Progress
    BY <1>1
  <2>2. Moved(refresh[q].fd) \in {"none", "tmp", "json", "unlinked"}
    BY <1>4, <2>1 DEF Progress
  <2>3. refresh'[q] = [refresh[q] EXCEPT !.fd = Moved(refresh[q].fd)]
    BY <1>3
  <2> QED
    BY <2>1, <2>2, <2>3, FdChanged
<1>6. \A q \in Refreshers : refresh[q].fd \in {"none", "tmp", "json", "unlinked"}
  BY <1>1 DEF Progress
<1>7. tmp \in Contents /\ json' = tmp /\ tmp' = Nothing /\ sole' = refresh[r].sole
  BY DEF Replace
<1>8. NoRefresh.fd = "none" /\ NoRefresh.at = "idle"
  BY DEF NoRefresh
<1>9. TypeOK'
  <2>1. refresh' \in [Refreshers -> Progress]
    BY <1>2, <1>5, NoRefreshType DEF Replace
  <2>2. sole' \in BOOLEAN
    BY <1>1, <1>7 DEF Progress
  <2> QED
    BY <1>7, <2>1, <2>2 DEF Replace, Progress
<1>10. DescriptorInv'
  BY <1>2, <1>4, <1>5, <1>6, <1>7, <1>8 DEF DescriptorInv
<1>11. SoleInv'
  <2> SUFFICES ASSUME NEW q \in Refreshers, InSave(q)', refresh'[q].sole
               PROVE  FALSE
    BY DEF SoleInv
  <2>1. q # r /\ InSave(q) /\ refresh[q].sole
    BY <1>2, <1>5, <1>8 DEF InSave, Saving
  <2>2. Alone(q) /\ InSave(r)
    BY <2>1 DEF SoleInv, Replace, InSave, Saving
  <2> QED
    BY <2>1, <2>2 DEF Alone
<1>12. PublishedInv'
  <2> SUFFICES ASSUME refresh[r].sole
               PROVE  /\ json' \in Contents /\ json'.form = "whole"
                      /\ \A q \in Refreshers : refresh'[q].fd # "json"
    BY <1>7 DEF PublishedInv
  <2>1. InSave(r) /\ refresh[r].at # "opened"
    BY DEF Replace, InSave, Saving
  <2>2. tmp.form = "whole" /\ Alone(r)
    BY <2>1 DEF SoleInv
  <2>3. ASSUME NEW q \in Refreshers \ {r} PROVE refresh[q].fd = "none"
    BY <2>2 DEF Alone, InSave, Saving, DescriptorInv
  <2> QED
    BY <1>2, <1>4, <1>5, <1>6, <1>7, <1>8, <2>2, <2>3
<1> QED
  BY <1>9, <1>10, <1>11, <1>12

\* The machine leaves every refresh alone; a report grows old as a whole.
LEMMA MachineKeeps ==
  ASSUME IInv, UNCHANGED vars \/ Change \/ Age PROVE IInv'
<1> USE DEF IInv, TypeOK
<1>1. refresh' = refresh /\ tmp' = tmp /\ sole' = sole
  BY DEF vars, Change, Age
<1>2. json' = json \/ (/\ json \in Contents /\ json.form = "whole"
                       /\ json' \in Contents /\ json'.form = "whole")
  BY DEF vars, Change, Age, Contents
<1>3. TypeOK'
  BY <1>1, <1>2, HealthReportAssumption DEF vars, Change, Age
<1>4. DescriptorInv'
  BY <1>1, <1>2 DEF DescriptorInv
<1>5. SoleInv'
  BY <1>1 DEF SoleInv, Alone, InSave
<1>6. PublishedInv'
  BY <1>1, <1>2 DEF PublishedInv
<1> QED
  BY <1>3, <1>4, <1>5, <1>6

\* The invariant is inductive.
LEMMA Invariance == Spec => []IInv
<1>1. IInv /\ [Next]_vars => IInv'
  BY MachineKeeps, BeginKeeps, InspectKeeps, ChmodKeeps, EndKeeps, OpenKeeps,
     WriteKeeps, ReplaceKeeps DEF Next, RefreshStep
<1> QED
  BY <1>1, InitInv, PTL DEF Spec

-----------------------------------------------------------------------------
\* Every variable keeps to its type.
THEOREM TypeCorrect == Spec => []TypeOK
<1>1. IInv => TypeOK
  BY DEF IInv
<1> QED
  BY <1>1, Invariance, PTL

\* save: "Atomically publish": whatever other refreshes did before or were
\* killed doing, one that has save to itself publishes a whole report, and no
\* late write of another spoils it.
THEOREM LoneReportIsWhole == Spec => []ReportIsWhole
<1>1. IInv => ReportIsWhole
  BY DEF IInv, PublishedInv, ReportIsWhole
<1> QED
  BY <1>1, Invariance, PTL

-----------------------------------------------------------------------------
\* What a refresh has seen, as the report that says so.
Report(r) == [form |-> "whole", messages |-> refresh[r].seen, recent |-> TRUE]

\* While a refresh saves alone, health.tmp is its own report and nobody else's.
TellsInv ==
  \A r \in Refreshers :
    InSave(r) /\ refresh[r].sole /\ refresh[r].at # "opened" => tmp = Report(r)

\* Whoever else is in save when a refresh saves alone: nobody.
LEMMA SoleExcludes ==
  ASSUME IInv, NEW r \in Refreshers, InSave(r), refresh[r].sole, NEW q \in Refreshers, InSave(q)
  PROVE  q = r
<1>1. Alone(r)
  BY DEF IInv, SoleInv
<1> QED
  BY <1>1 DEF Alone

LEMMA TellsCarried == ASSUME IInv, TellsInv, [Next]_vars PROVE TellsInv'
<1> SUFFICES ASSUME NEW r \in Refreshers, InSave(r)', refresh'[r].sole, refresh'[r].at # "opened"
             PROVE  tmp' = Report(r)'
  BY DEF TellsInv
<1>1. refresh \in [Refreshers -> Progress]
  BY DEF IInv, TypeOK, Progress
<1>2. ASSUME refresh'[r] = refresh[r], tmp' = tmp
      PROVE  tmp' = Report(r)'
  BY <1>2 DEF TellsInv, Report, InSave
<1>3. CASE UNCHANGED vars \/ Change \/ Age
  BY <1>2, <1>3 DEF vars, Change, Age
<1>4. ASSUME NEW q \in Refreshers, Begin(q) \/ (\E c \in Checks : Inspect(q, c)) \/ SaveFails(q) \/ RefreshDies(q)
      PROVE  tmp' = Report(r)'
  <2>1. tmp' = tmp /\ \E p : refresh' = [refresh EXCEPT ![q] = p] /\ p.at \notin Saving
    <3>1. CASE Begin(q)
      <4>1. [NoRefresh EXCEPT !.at = "collect", !.left = Checks].at = "collect"
        BY DEF NoRefresh
      <4> QED
        BY <3>1, <4>1 DEF Begin, Saving
    <3>2. ASSUME NEW c \in Checks, Inspect(q, c)
          PROVE  tmp' = tmp /\ \E p : refresh' = [refresh EXCEPT ![q] = p] /\ p.at \notin Saving
      <4> DEFINE p == [refresh[q] EXCEPT !.left = @ \ {c}, !.seen = @ \cup ({c} \cap failing)]
      <4>1. refresh' = [refresh EXCEPT ![q] = p] /\ tmp' = tmp
        BY <1>1, <3>2 DEF Inspect, Progress
      <4>2. p.at = "collect"
        BY <1>1, <3>2 DEF Inspect, Progress
      <4> HIDE DEF p
      <4> QED
        BY <4>1, <4>2 DEF Saving
    <3>3. CASE SaveFails(q) \/ RefreshDies(q)
      <4>1. NoRefresh.at = "idle"
        BY DEF NoRefresh
      <4>2. refresh' = [refresh EXCEPT ![q] = NoRefresh] /\ tmp' = tmp
        BY <3>3 DEF SaveFails, RefreshDies
      <4> QED
        BY <4>1, <4>2 DEF Saving
    <3> QED
      BY <1>4, <3>1, <3>2, <3>3
  <2>2. PICK p : refresh' = [refresh EXCEPT ![q] = p] /\ p.at \notin Saving
    BY <2>1
  <2>3. refresh \in [Refreshers -> Progress]
    BY DEF IInv, TypeOK, Progress
  <2>4. q # r
    BY <2>2, <2>3 DEF InSave
  <2> QED
    BY <1>2, <2>1, <2>2, <2>3, <2>4
<1>5. ASSUME NEW q \in Refreshers, Open(q) PROVE tmp' = Report(r)'
  <2>1. CASE q = r
    <3>1. refresh'[r] = [refresh[r] EXCEPT !.at = "opened", !.fd = "tmp", !.sole = Alone(r)]
      BY <1>5, <2>1 DEF Open
    <3> QED
      BY <1>1, <3>1 DEF Progress
  <2>2. CASE q # r
    <3>1. refresh'[r] = [refresh[r] EXCEPT !.sole = FALSE]
      BY <1>5, <2>2 DEF Open
    <3> QED
      BY <1>1, <3>1, SoleCleared
  <2> QED
    BY <2>1, <2>2
<1>6. ASSUME NEW q \in Refreshers, Write(q) PROVE tmp' = Report(r)'
  <2>1. refresh' = [refresh EXCEPT ![q] = [refresh[q] EXCEPT !.at = "written", !.fd = "none"]]
    BY <1>1, <1>6 DEF Write, Progress
  <2>2. InSave(q)
    BY <1>6 DEF Write, InSave, Saving
  <2>3. CASE q = r
    <3>1. refresh'[r].sole = refresh[r].sole /\ refresh'[r].seen = refresh[r].seen
      BY <1>1, <2>1, <2>3 DEF Progress
    <3>2. refresh[r].fd = "tmp" /\ tmp.form = "empty"
      BY <1>6, <2>2, <2>3, <3>1, BlankType DEF IInv, SoleInv, Write
    <3> QED
      BY <1>6, <2>3, <3>1, <3>2 DEF Write, After, Report
  <2>4. CASE q # r
    <3>1. refresh'[r] = refresh[r]
      BY <1>1, <2>1, <2>4
    <3> QED
      BY <2>2, <2>4, <3>1, SoleExcludes DEF InSave
  <2> QED
    BY <2>3, <2>4
<1>7. ASSUME NEW q \in Refreshers, Chmod(q) PROVE tmp' = Report(r)'
  <2>1. refresh' = [refresh EXCEPT ![q] = [refresh[q] EXCEPT !.at = "readable"]] /\ tmp' = tmp
    BY <1>1, <1>7 DEF Chmod
  <2>2. CASE q = r
    <3>1. refresh'[r].sole = refresh[r].sole /\ refresh'[r].seen = refresh[r].seen
      BY <1>1, <2>1, <2>2 DEF Progress
    <3> QED
      BY <1>7, <2>1, <2>2, <3>1 DEF Chmod, TellsInv, Report, InSave, Saving
  <2>3. CASE q # r
    BY <1>1, <1>2, <2>1, <2>3
  <2> QED
    BY <2>2, <2>3
<1>8. ASSUME NEW q \in Refreshers, Replace(q) PROVE tmp' = Report(r)'
  <2>1. q # r
    BY <1>8 DEF Replace, InSave, Saving, NoRefresh
  <2>2. refresh'[r] = [refresh[r] EXCEPT !.fd = Moved(refresh[r].fd)]
    BY <1>8, <2>1 DEF Replace
  <2>3. refresh'[r].at = refresh[r].at /\ refresh'[r].sole = refresh[r].sole
    BY <1>1, <2>2 DEF Progress
  <2>4. InSave(q)
    BY <1>8 DEF Replace, InSave, Saving
  <2> QED
    BY <2>1, <2>3, <2>4, SoleExcludes DEF InSave
<1> QED
  BY <1>3, <1>4, <1>5, <1>6, <1>7, <1>8 DEF Next, RefreshStep

\* save: a refresh that had health.tmp to itself publishes the failures it saw, all of
\* them and no others, dated now, whoever was killed in save before it.
THEOREM LoneReportTellsAll ==
  Spec => [][\A r \in Refreshers : Replace(r) /\ refresh[r].sole => json' = Report(r)]_vars
<1>1. Init => TellsInv
  BY DEF Init, TellsInv, InSave, Saving, NoRefresh
<1>2. IInv /\ TellsInv /\ [Next]_vars => TellsInv'
  BY TellsCarried
<1>3. TellsInv => [\A r \in Refreshers : Replace(r) /\ refresh[r].sole => json' = Report(r)]_vars
  BY DEF TellsInv, Replace, InSave, Saving
<1> QED
  BY <1>1, <1>2, <1>3, Invariance, PTL DEF Spec
=============================================================================

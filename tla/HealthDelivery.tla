--------------------------- MODULE HealthDelivery ---------------------------
(***************************************************************************)
(* Delivery of the storage health report (deliver in storage/health.py).   *)
(* "deliver" and "test-delivery" read the report, take the delivery lock   *)
(* and hand a changed state to the notification command, acknowledging it  *)
(* in delivered.json.  A timer starts one delivery again and again; an     *)
(* operator may run others beside it.  The desktop notifier is the same    *)
(* code on a directory of its own, with notify-send as its command.        *)
(***************************************************************************)
EXTENDS Naturals

CONSTANTS
  Messages,   \* the warnings a report may hold
  Commands,   \* notification commands a configuration may name
  Nothing,    \* no command, no receipt, nobody
  Deliverers, Timed,  \* delivery processes, and the timer's among them
  MaxDeaths   \* bound: deliveries killed

ASSUME HealthDeliveryAssumption ==
  /\ Nothing \notin Commands \cup Deliverers
  /\ Timed \in Deliverers /\ MaxDeaths \in Nat

VARIABLES
  reported,  \* what read makes of health.json
  command,   \* policy["notificationCommand"]
  delivery,  \* progress of each delivery: what it read, its command, a test?
  holder,    \* the delivery that holds the flock
  receipt,   \* delivered.json
  pending,   \* whether pending.json exists
  told,      \* the warning or recovery each command accepted last
  deaths     \* deliveries killed so far

vars == <<reported, command, delivery, holder, receipt, pending, told, deaths>>

Receipts == [messages : SUBSET Messages, command : Commands]
ASSUME ReceiptAssumption == Nothing \notin Receipts

Delivery == [at : {"idle", "read", "locked", "sending", "accepted", "recorded"},
             messages : SUBSET Messages, command : Commands \cup {Nothing},
             test : BOOLEAN]

TypeOK ==
  /\ reported \subseteq Messages
  /\ command \in Commands \cup {Nothing}
  /\ delivery \in [Deliverers -> Delivery]
  /\ holder \in Deliverers \cup {Nothing}
  /\ receipt \in Receipts \cup {Nothing}
  /\ pending \in BOOLEAN
  /\ told \in [Commands -> SUBSET Messages]
  /\ deaths \in 0..MaxDeaths

NoDelivery == [at |-> "idle", messages |-> {}, command |-> Nothing,
               test |-> FALSE]

Init ==
  /\ reported \in SUBSET Messages /\ command \in Commands \cup {Nothing}
  /\ delivery = [d \in Deliverers |-> NoDelivery] /\ holder = Nothing
  /\ receipt = Nothing /\ pending = FALSE /\ told = [k \in Commands |-> {}]
  /\ deaths = 0

-----------------------------------------------------------------------------
(* Refreshes publish and reports grow stale (module HealthReport says how); *)
(* a rebuild changes the command.                                           *)

Publish ==
  /\ reported' \in SUBSET Messages /\ reported' # reported
  /\ UNCHANGED <<command, delivery, holder, receipt, pending, told, deaths>>

Reconfigure ==
  /\ command' \in Commands \cup {Nothing} /\ command' # command
  /\ UNCHANGED <<reported, delivery, holder, receipt, pending, told, deaths>>

-----------------------------------------------------------------------------
(* deliver *)

\* main reads the report before deliver takes the lock.
Read(d, test) ==
  /\ delivery[d].at = "idle" /\ (test => d # Timed)
  /\ delivery' = [delivery EXCEPT ![d] = [at |-> "read", messages |-> reported,
                                          command |-> command, test |-> test]]
  /\ UNCHANGED <<reported, command, holder, receipt, pending, told, deaths>>

\* Variant: nothing keeps two deliveries apart.
LockNothing(d) ==
  /\ delivery[d].at = "read"
  /\ holder' = d
  /\ delivery' = [delivery EXCEPT ![d].at = "locked"]
  /\ UNCHANGED <<reported, command, receipt, pending, told, deaths>>

Lock(d) ==
  /\ delivery[d].at = "read" /\ holder = Nothing
  /\ holder' = d
  /\ delivery' = [delivery EXCEPT ![d].at = "locked"]
  /\ UNCHANGED <<reported, command, receipt, pending, told, deaths>>

Digest(d) == [messages |-> delivery[d].messages, command |-> delivery[d].command]

\* Acknowledged before, or a healthy first sample: no event.
NoEvent(d) ==
  /\ ~delivery[d].test
  /\ \/ receipt = Digest(d)
     \/ delivery[d].messages = {} /\ receipt = Nothing

Leave(d) ==
  /\ holder' = Nothing
  /\ delivery' = [delivery EXCEPT ![d] = NoDelivery]

Unchanged(d) ==
  /\ delivery[d].at = "locked" /\ NoEvent(d)
  /\ pending' = FALSE
  /\ Leave(d)
  /\ UNCHANGED <<reported, command, receipt, told, deaths>>

\* Variant: a delivery without a command goes on to send.
RetainWithoutCommand(d) ==
  /\ delivery[d].at = "locked" /\ ~NoEvent(d)
  /\ pending' = (pending \/ ~delivery[d].test)
  /\ delivery' = [delivery EXCEPT ![d].at = "sending"]
  /\ UNCHANGED <<reported, command, holder, receipt, told, deaths>>

\* Variant: an event already pending is taken to be under way.
RetainOnce(d) ==
  /\ delivery[d].at = "locked" /\ ~NoEvent(d)
  /\ pending' = (pending \/ ~delivery[d].test)
  /\ IF delivery[d].command = Nothing \/ pending THEN Leave(d)
     ELSE /\ delivery' = [delivery EXCEPT ![d].at = "sending"]
          /\ UNCHANGED holder
  /\ UNCHANGED <<reported, command, receipt, told, deaths>>

\* pending.json, or test-pending.json, which nothing reads.
Retain(d) ==
  /\ delivery[d].at = "locked" /\ ~NoEvent(d)
  /\ pending' = (pending \/ ~delivery[d].test)
  /\ IF delivery[d].command = Nothing THEN Leave(d)
     ELSE /\ delivery' = [delivery EXCEPT ![d].at = "sending"]
          /\ UNCHANGED holder
  /\ UNCHANGED <<reported, command, receipt, told, deaths>>

\* A test event tells the channel nothing about the state.
Tell(d) ==
  IF delivery[d].test THEN UNCHANGED told
  ELSE told' = [told EXCEPT ![delivery[d].command] = delivery[d].messages]

Accept(d) ==
  /\ delivery[d].at = "sending"
  /\ Tell(d)
  /\ delivery' = [delivery EXCEPT ![d].at = "accepted"]
  /\ UNCHANGED <<reported, command, holder, receipt, pending,
                 deaths>>

Refuse(d) ==
  /\ delivery[d].at = "sending"
  /\ Leave(d)
  /\ UNCHANGED <<reported, command, receipt, pending, told, deaths>>

\* The message went out, and then the command failed, left a child behind or
\* outlived its 30 seconds.
AcceptAndFail(d) ==
  /\ delivery[d].at = "sending"
  /\ Tell(d)
  /\ Leave(d)
  /\ UNCHANGED <<reported, command, receipt, pending, deaths>>

\* Variant: the receipt is written for a test event too.
AcknowledgeTest(d) ==
  /\ delivery[d].at = "accepted"
  /\ receipt' = Digest(d)
  /\ delivery' = [delivery EXCEPT ![d].at = "recorded"]
  /\ UNCHANGED <<reported, command, holder, pending, told, deaths>>

Acknowledge(d) ==
  /\ delivery[d].at = "accepted"
  /\ receipt' = IF delivery[d].test THEN receipt ELSE Digest(d)
  /\ delivery' = [delivery EXCEPT ![d].at = "recorded"]
  /\ UNCHANGED <<reported, command, holder, pending, told, deaths>>

Settle(d) ==
  /\ delivery[d].at = "recorded"
  /\ pending' = (pending /\ delivery[d].test)
  /\ Leave(d)
  /\ UNCHANGED <<reported, command, receipt, told, deaths>>

DeliveryStep(d) ==
  \/ Lock(d) \/ Unchanged(d) \/ Retain(d)
  \/ Accept(d) \/ Refuse(d) \/ AcceptAndFail(d)
  \/ Acknowledge(d) \/ Settle(d)

\* The unit is killed, its command with it; the kernel drops the flock.
DeliveryDies(d) ==
  /\ delivery[d].at # "idle" /\ deaths < MaxDeaths
  /\ delivery' = [delivery EXCEPT ![d] = NoDelivery]
  /\ holder' = IF holder = d THEN Nothing ELSE holder
  /\ deaths' = deaths + 1
  /\ UNCHANGED <<reported, command, receipt, pending, told>>

-----------------------------------------------------------------------------
Next ==
  \/ Publish \/ Reconfigure
  \/ \E d \in Deliverers :
       \/ \E test \in BOOLEAN : Read(d, test)
       \/ DeliveryStep(d) \/ DeliveryDies(d)

\* The timer fires again and again, a delivery that runs goes on, flock is
\* fair to the timer's delivery, and the command accepts in the end.
Fairness ==
  /\ WF_vars(Read(Timed, FALSE))
  /\ \A d \in Deliverers : WF_vars(DeliveryStep(d))
  /\ SF_vars(Lock(Timed)) /\ SF_vars(Accept(Timed))

Spec == Init /\ [][Next]_vars
FairSpec == Spec /\ Fairness

-----------------------------------------------------------------------------
(* Properties *)

\* deliver: "Acknowledge changed warning/recovery state only after successful
\* delivery".  A receipt changes only to what its command has just accepted.
ReceiptIsAccepted ==
  [][receipt' # receipt => /\ receipt' # Nothing
                           /\ told[receipt'.command] = receipt'.messages]_vars

\* deliver: "Successful warning and recovery transitions deduplicate".  What
\* is being sent is not what delivered.json acknowledges, and no healthy state
\* is announced that follows no warning.
Deduplicated ==
  \A d \in Deliverers : delivery[d].at = "sending" => ~NoEvent(d)

\* "failed sends retry".  A warning that stays in the report while a command
\* is configured is acknowledged by a receipt in the end.
WarningIsAcknowledged ==
  \A w \in Messages :
    []([](w \in reported /\ command # Nothing)
         => <>(receipt # Nothing /\ w \in receipt.messages))

\* docs/application-recovery.md: "when delivery fails, pending.json retains
\* the pending event".  With nothing pending, the receipt's command knows what
\* the receipt says.
NothingPendingIsTold ==
  holder = Nothing /\ ~pending /\ receipt # Nothing
    => told[receipt.command] = receipt.messages
=============================================================================

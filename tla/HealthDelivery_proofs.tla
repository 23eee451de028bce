----------------------- MODULE HealthDelivery_proofs -----------------------
(***************************************************************************)
(* Proofs about HealthDelivery for every set of warnings, commands and     *)
(* concurrent deliveries.  What keeps a receipt true is the flock: from    *)
(* the reading of delivered.json to the end, a delivery holds it.          *)
(***************************************************************************)
EXTENDS HealthDelivery, TLAPS

USE HealthDeliveryAssumption

Holding == {"locked", "sending", "accepted", "recorded"}

\* A delivery past its lock is the holder of it.
LockInv == \A d \in Deliverers : delivery[d].at \in Holding => holder = d

\* Only a delivery with a command sends.
CommandInv ==
  \A d \in Deliverers :
    delivery[d].at \in {"sending", "accepted", "recorded"}
      => delivery[d].command \in Commands

\* What a command has accepted is what it knows.
AcceptedInv ==
  \A d \in Deliverers :
    delivery[d].at = "accepted" /\ ~delivery[d].test
      => told[delivery[d].command] = delivery[d].messages

IInv == TypeOK /\ LockInv /\ CommandInv /\ Deduplicated /\ AcceptedInv

-----------------------------------------------------------------------------
\* A delivery that gives up leaves a typed record behind.
LEMMA NoDeliveryType == NoDelivery \in Delivery
  BY DEF NoDelivery, Delivery

LEMMA InitInv == Init => IInv
<1> SUFFICES ASSUME Init PROVE IInv
  OBVIOUS
<1>1. TypeOK
  <2>1. delivery \in [Deliverers -> Delivery]
    BY NoDeliveryType DEF Init
  <2>2. told \in [Commands -> SUBSET Messages]
    BY DEF Init
  <2>3. reported \subseteq Messages
    BY DEF Init
  <2>5. pending \in BOOLEAN
    BY Zenon DEF Init
  <2>6. deaths \in 0..MaxDeaths
    <3>1. deaths = 0
      BY Zenon DEF Init
    <3> QED
      BY <3>1
  <2>4. command \in Commands \cup {Nothing} /\ holder = Nothing /\ receipt = Nothing
    BY DEF Init
  <2> QED
    BY <2>1, <2>2, <2>3, <2>4, <2>5, <2>6 DEF TypeOK
<1>2. \A d \in Deliverers : delivery[d].at = "idle"
  BY DEF Init, NoDelivery
<1> QED
  BY <1>1, <1>2 DEF IInv, LockInv, CommandInv, Deduplicated, AcceptedInv, Holding

\* No step leaves the types.
LEMMA TypeStep == IInv /\ [Next]_vars => TypeOK'
<1> SUFFICES ASSUME IInv, [Next]_vars PROVE TypeOK'
  OBVIOUS
<1> USE DEF IInv, TypeOK
<1>1. CASE UNCHANGED vars
  BY <1>1 DEF vars
<1>2. CASE Publish
  BY <1>2 DEF Publish
<1>3. CASE Reconfigure
  BY <1>3 DEF Reconfigure
<1>4. ASSUME NEW d \in Deliverers, NEW test \in BOOLEAN, Read(d, test)
      PROVE  TypeOK'
  BY <1>4 DEF Read, Delivery
<1>5. ASSUME NEW d \in Deliverers, Lock(d) PROVE TypeOK'
  BY <1>5 DEF Lock, Delivery
<1>6. ASSUME NEW d \in Deliverers, Unchanged(d) PROVE TypeOK'
  BY <1>6, NoDeliveryType DEF Unchanged, Leave
<1>7. ASSUME NEW d \in Deliverers, Retain(d) PROVE TypeOK'
  <2>1. pending' \in BOOLEAN
    BY <1>7 DEF Retain
  <2>2. delivery' \in [Deliverers -> Delivery] /\ holder' \in Deliverers \cup {Nothing}
    <3>1. CASE delivery[d].command = Nothing
      BY <1>7, <3>1, NoDeliveryType DEF Retain, Leave
    <3>2. CASE delivery[d].command # Nothing
      BY <1>7, <3>2 DEF Retain, Delivery
    <3> QED
      BY <3>1, <3>2
  <2> QED
    BY <1>7, <2>1, <2>2 DEF Retain
<1>8. ASSUME NEW d \in Deliverers, Accept(d) PROVE TypeOK'
  <2>1. told' \in [Commands -> SUBSET Messages]
    BY <1>8 DEF Accept, Tell, Delivery
  <2> QED
    BY <1>8, <2>1 DEF Accept, Delivery
<1>9. ASSUME NEW d \in Deliverers, Refuse(d) PROVE TypeOK'
  BY <1>9, NoDeliveryType DEF Refuse, Leave
<1>10. ASSUME NEW d \in Deliverers, AcceptAndFail(d) PROVE TypeOK'
  <2>1. told' \in [Commands -> SUBSET Messages]
    BY <1>10 DEF AcceptAndFail, Tell, Delivery
  <2> QED
    BY <1>10, <2>1, NoDeliveryType DEF AcceptAndFail, Leave
<1>11. ASSUME NEW d \in Deliverers, Acknowledge(d) PROVE TypeOK'
  <2>1. delivery[d].command \in Commands
    BY <1>11 DEF Acknowledge, CommandInv
  <2>2. receipt' \in Receipts \cup {Nothing}
    BY <1>11, <2>1 DEF Acknowledge, Digest, Receipts, Delivery
  <2> QED
    BY <1>11, <2>2 DEF Acknowledge, Delivery
<1>12. ASSUME NEW d \in Deliverers, Settle(d) PROVE TypeOK'
  <2>1. pending' \in BOOLEAN
    BY <1>12 DEF Settle
  <2> QED
    BY <1>12, <2>1, NoDeliveryType DEF Settle, Leave
<1>13. ASSUME NEW d \in Deliverers, DeliveryDies(d) PROVE TypeOK'
  <2>1. delivery' \in [Deliverers -> Delivery]
    BY <1>13, NoDeliveryType DEF DeliveryDies
  <2>2. holder' \in Deliverers \cup {Nothing} /\ deaths' \in 0..MaxDeaths
    BY <1>13 DEF DeliveryDies
  <2> QED
    BY <1>13, <2>1, <2>2 DEF DeliveryDies
<1> QED
  BY <1>1, <1>2, <1>3, <1>4, <1>5, <1>6, <1>7, <1>8, <1>9, <1>10, <1>11,
     <1>12, <1>13 DEF Next, DeliveryStep

\* Whoever goes past the lock holds it, until it leaves.
LEMMA LockStep == IInv /\ [Next]_vars => LockInv'
<1> SUFFICES ASSUME IInv, [Next]_vars, NEW e \in Deliverers,
                    (delivery[e].at \in Holding)'
             PROVE  holder' = e
  BY DEF LockInv
<1> USE DEF IInv, TypeOK, LockInv, Holding
<1>1. CASE UNCHANGED vars \/ Publish \/ Reconfigure
  BY <1>1 DEF vars, Publish, Reconfigure
<1>2. ASSUME NEW d \in Deliverers, NEW test \in BOOLEAN, Read(d, test)
      PROVE  holder' = e
  BY <1>2 DEF Read
<1>3. ASSUME NEW d \in Deliverers, Lock(d) PROVE holder' = e
  BY <1>3 DEF Lock, Delivery
<1>4. ASSUME NEW d \in Deliverers, Leave(d), delivery[d].at \in Holding
      PROVE  holder' = e
  BY <1>4 DEF Leave, NoDelivery
<1>5. ASSUME NEW d \in Deliverers,
             Unchanged(d) \/ Refuse(d) \/ AcceptAndFail(d) \/ Settle(d)
      PROVE  holder' = e
  BY <1>4, <1>5 DEF Unchanged, Refuse, AcceptAndFail, Settle
<1>6. ASSUME NEW d \in Deliverers, Retain(d) PROVE holder' = e
  <2>1. CASE delivery[d].command = Nothing
    BY <1>4, <1>6, <2>1 DEF Retain
  <2>2. CASE delivery[d].command # Nothing
    BY <1>6, <2>2 DEF Retain
  <2> QED
    BY <2>1, <2>2
<1>7. ASSUME NEW d \in Deliverers, Accept(d) \/ Acknowledge(d)
      PROVE  holder' = e
  BY <1>7 DEF Accept, Acknowledge
<1>8. ASSUME NEW d \in Deliverers, DeliveryDies(d) PROVE holder' = e
  BY <1>8 DEF DeliveryDies, NoDelivery
<1> QED
  BY <1>1, <1>2, <1>3, <1>5, <1>6, <1>7, <1>8 DEF Next, DeliveryStep

\* Nothing but Retain starts a send, and it does so with a command.
LEMMA CommandStep == IInv /\ [Next]_vars => CommandInv'
<1> SUFFICES ASSUME IInv, [Next]_vars, NEW e \in Deliverers,
                    (delivery[e].at \in {"sending", "accepted", "recorded"})'
             PROVE  delivery'[e].command \in Commands
  BY DEF CommandInv
<1> USE DEF IInv, TypeOK, CommandInv
<1>1. CASE UNCHANGED vars \/ Publish \/ Reconfigure
  BY <1>1 DEF vars, Publish, Reconfigure
<1>2. ASSUME NEW d \in Deliverers, NEW test \in BOOLEAN, Read(d, test)
      PROVE  delivery'[e].command \in Commands
  BY <1>2 DEF Read
<1>3. ASSUME NEW d \in Deliverers, Lock(d)
      PROVE  delivery'[e].command \in Commands
  BY <1>3 DEF Lock, Delivery
<1>4. ASSUME NEW d \in Deliverers, Leave(d)
      PROVE  delivery'[e].command \in Commands
  BY <1>4 DEF Leave, NoDelivery
<1>5. ASSUME NEW d \in Deliverers,
             Unchanged(d) \/ Refuse(d) \/ AcceptAndFail(d) \/ Settle(d)
      PROVE  delivery'[e].command \in Commands
  BY <1>4, <1>5 DEF Unchanged, Refuse, AcceptAndFail, Settle
<1>6. ASSUME NEW d \in Deliverers, Retain(d)
      PROVE  delivery'[e].command \in Commands
  <2>1. CASE delivery[d].command = Nothing
    BY <1>4, <1>6, <2>1 DEF Retain
  <2>2. CASE delivery[d].command # Nothing
    BY <1>6, <2>2 DEF Retain, Delivery
  <2> QED
    BY <2>1, <2>2
<1>7. ASSUME NEW d \in Deliverers, Accept(d) \/ Acknowledge(d)
      PROVE  delivery'[e].command \in Commands
  BY <1>7 DEF Accept, Acknowledge, Delivery
<1>8. ASSUME NEW d \in Deliverers, DeliveryDies(d)
      PROVE  delivery'[e].command \in Commands
  BY <1>8 DEF DeliveryDies, NoDelivery
<1> QED
  BY <1>1, <1>2, <1>3, <1>5, <1>6, <1>7, <1>8 DEF Next, DeliveryStep

\* A step that leaves the receipt alone and starts no send keeps what is being
\* sent unacknowledged.
LEMMA SendsKept ==
  ASSUME IInv, receipt' = receipt,
         \A e \in Deliverers : delivery'[e].at = "sending"
                                 => delivery'[e] = delivery[e]
  PROVE  Deduplicated'
BY DEF IInv, Deduplicated, NoEvent, Digest

\* The receipt changes under the flock only: nobody is sending meanwhile.
LEMMA DeduplicatedStep == IInv /\ [Next]_vars => Deduplicated'
<1> SUFFICES ASSUME IInv, [Next]_vars PROVE Deduplicated'
  OBVIOUS
<1> USE DEF IInv, TypeOK
<1>1. CASE UNCHANGED vars \/ Publish \/ Reconfigure
  BY <1>1, SendsKept DEF vars, Publish, Reconfigure
<1>2. ASSUME NEW d \in Deliverers, NEW test \in BOOLEAN, Read(d, test)
      PROVE  Deduplicated'
  BY <1>2, SendsKept DEF Read
<1>3. ASSUME NEW d \in Deliverers, Lock(d) PROVE Deduplicated'
  BY <1>3, SendsKept DEF Lock, Delivery
<1>4. ASSUME NEW d \in Deliverers, Leave(d), receipt' = receipt
      PROVE  Deduplicated'
  BY <1>4, SendsKept DEF Leave, NoDelivery
<1>5. ASSUME NEW d \in Deliverers,
             Unchanged(d) \/ Refuse(d) \/ AcceptAndFail(d) \/ Settle(d)
      PROVE  Deduplicated'
  BY <1>4, <1>5 DEF Unchanged, Refuse, AcceptAndFail, Settle
<1>6. ASSUME NEW d \in Deliverers, Retain(d) PROVE Deduplicated'
  <2>1. CASE delivery[d].command = Nothing
    BY <1>4, <1>6, <2>1 DEF Retain
  <2>2. CASE delivery[d].command # Nothing
    <3>1. delivery' = [delivery EXCEPT ![d].at = "sending"] /\ receipt' = receipt
      BY <1>6, <2>2 DEF Retain
    <3>2. ~NoEvent(d)
      BY <1>6 DEF Retain
    <3> SUFFICES ASSUME NEW e \in Deliverers, delivery'[e].at = "sending"
                 PROVE  ~NoEvent(e)'
      BY DEF Deduplicated
    <3>3. CASE e = d
      BY <3>1, <3>2, <3>3 DEF NoEvent, Digest, Delivery
    <3>4. CASE e # d
      BY <3>1, <3>4 DEF Deduplicated, NoEvent, Digest
    <3> QED
      BY <3>3, <3>4
  <2> QED
    BY <2>1, <2>2
<1>7. ASSUME NEW d \in Deliverers, Accept(d) PROVE Deduplicated'
  BY <1>7, SendsKept DEF Accept, Delivery
<1>8. ASSUME NEW d \in Deliverers, Acknowledge(d) PROVE Deduplicated'
  <2>1. \A e \in Deliverers \ {d} : delivery[e].at # "sending"
    BY <1>8 DEF Acknowledge, LockInv, Holding
  <2>2. \A e \in Deliverers : delivery'[e].at # "sending"
    BY <1>8, <2>1 DEF Acknowledge, Delivery
  <2> QED
    BY <2>2 DEF Deduplicated
<1>9. ASSUME NEW d \in Deliverers, DeliveryDies(d) PROVE Deduplicated'
  BY <1>9, SendsKept DEF DeliveryDies, NoDelivery
<1> QED
  BY <1>1, <1>2, <1>3, <1>5, <1>6, <1>7, <1>8, <1>9 DEF Next, DeliveryStep

\* Between an acceptance and its receipt the flock keeps other events out.
LEMMA AcceptedStep == IInv /\ [Next]_vars => AcceptedInv'
<1> SUFFICES ASSUME IInv, [Next]_vars, NEW e \in Deliverers,
                    delivery'[e].at = "accepted", ~delivery'[e].test
             PROVE  told'[delivery'[e].command] = delivery'[e].messages
  BY DEF AcceptedInv
<1> DEFINE Goal == told'[delivery'[e].command] = delivery'[e].messages
<1> USE DEF IInv, TypeOK, AcceptedInv
<1>1. CASE UNCHANGED vars \/ Publish \/ Reconfigure
  BY <1>1 DEF vars, Publish, Reconfigure
<1>2. ASSUME NEW d \in Deliverers, NEW test \in BOOLEAN, Read(d, test)
      PROVE  Goal
  BY <1>2 DEF Read
<1>3. ASSUME NEW d \in Deliverers, Lock(d) PROVE Goal
  BY <1>3 DEF Lock, Delivery
<1>4. ASSUME NEW d \in Deliverers, Leave(d), told' = told PROVE Goal
  BY <1>4 DEF Leave, NoDelivery
<1>5. ASSUME NEW d \in Deliverers, Unchanged(d) \/ Refuse(d) \/ Settle(d)
      PROVE  Goal
  BY <1>4, <1>5 DEF Unchanged, Refuse, Settle
<1>6. ASSUME NEW d \in Deliverers, AcceptAndFail(d) PROVE Goal
  <2>1. e # d /\ delivery'[e] = delivery[e]
    BY <1>6 DEF AcceptAndFail, Leave, NoDelivery
  <2>2. holder = d /\ holder = e
    BY <1>6, <2>1 DEF AcceptAndFail, LockInv, Holding
  <2> QED
    BY <2>1, <2>2
<1>7. ASSUME NEW d \in Deliverers, Retain(d) PROVE Goal
  <2>1. CASE delivery[d].command = Nothing
    BY <1>4, <1>7, <2>1 DEF Retain
  <2>2. CASE delivery[d].command # Nothing
    BY <1>7, <2>2 DEF Retain, Delivery
  <2> QED
    BY <2>1, <2>2
<1>8. ASSUME NEW d \in Deliverers, Accept(d) PROVE Goal
  <2>1. CASE e = d
    <3>1. delivery[d].command \in Commands
      BY <1>8 DEF Accept, CommandInv
    <3> QED
      BY <1>8, <2>1, <3>1 DEF Accept, Tell, Delivery
  <2>2. CASE e # d
    <3>1. delivery'[e] = delivery[e]
      BY <1>8, <2>2 DEF Accept
    <3>2. holder = d /\ holder = e
      BY <1>8, <3>1 DEF Accept, LockInv, Holding
    <3> QED
      BY <2>2, <3>2
  <2> QED
    BY <2>1, <2>2
<1>9. ASSUME NEW d \in Deliverers, Acknowledge(d) PROVE Goal
  BY <1>9 DEF Acknowledge, Delivery
<1>10. ASSUME NEW d \in Deliverers, DeliveryDies(d) PROVE Goal
  BY <1>10 DEF DeliveryDies, NoDelivery
<1> QED
  BY <1>1, <1>2, <1>3, <1>5, <1>6, <1>7, <1>8, <1>9, <1>10
  DEF Next, DeliveryStep

\* The invariant is inductive.
LEMMA Invariance == Spec => []IInv
<1>1. IInv /\ [Next]_vars => IInv'
  BY TypeStep, LockStep, CommandStep, DeduplicatedStep, AcceptedStep DEF IInv
<1> QED
  BY <1>1, InitInv, PTL DEF Spec

-----------------------------------------------------------------------------
\* Every variable keeps to its type.
THEOREM TypeCorrect == Spec => []TypeOK
<1>1. IInv => TypeOK
  BY DEF IInv
<1> QED
  BY <1>1, Invariance, PTL

\* deliver: "Successful warning and recovery transitions deduplicate": however
\* many deliveries run at once, none sends what is acknowledged already.
THEOREM NothingSentTwice == Spec => []Deduplicated
<1>1. IInv => Deduplicated
  BY DEF IInv
<1> QED
  BY <1>1, Invariance, PTL

\* deliver: "only after successful delivery": a receipt never changes to
\* anything but what its command has just accepted.
THEOREM ReceiptsAreEarned == Spec => ReceiptIsAccepted
<1> DEFINE Earned == receipt' # receipt
                       => /\ receipt' # Nothing
                          /\ told[receipt'.command] = receipt'.messages
<1>1. ASSUME IInv, [Next]_vars, receipt' # receipt
      PROVE  Earned
  <2>1. PICK d \in Deliverers : Acknowledge(d)
    <3>1. ASSUME NEW d \in Deliverers, Retain(d) PROVE receipt' = receipt
      BY <3>1 DEF Retain
    <3> QED
      BY <1>1, <3>1 DEF vars, Next, DeliveryStep, Publish, Reconfigure, Read, Lock,
         Unchanged, Accept, Refuse, AcceptAndFail, Settle, DeliveryDies
  <2>2. receipt' = Digest(d) /\ ~delivery[d].test
    BY <1>1, <2>1 DEF Acknowledge
  <2>3. told[delivery[d].command] = delivery[d].messages
    BY <1>1, <2>1, <2>2 DEF Acknowledge, IInv, AcceptedInv
  <2>4. receipt' # Nothing
    <3>1. Digest(d) \in Receipts
      BY <1>1, <2>1 DEF Acknowledge, Digest, Receipts, Delivery, IInv, TypeOK,
         CommandInv
    <3> QED
      BY <2>2, <3>1, ReceiptAssumption
  <2> QED
    BY <2>2, <2>3, <2>4 DEF Digest
<1>2. IInv /\ [Next]_vars => [Earned]_vars
  BY <1>1
<1> QED
  BY <1>2, Invariance, PTL DEF Spec, ReceiptIsAccepted
=============================================================================

------------------------- MODULE SessionLock_proofs -------------------------
(***************************************************************************)
(* Proofs about SessionLock, for any number of lock requests.              *)
(***************************************************************************)
EXTENDS SessionLock, TLAPS

\* One running check at a time: Hypridle's single listener with that condition.
SoleCheck == \A c, d \in Checks : c = d

-----------------------------------------------------------------------------
\* Every variable keeps to its type.
THEOREM TypeCorrect == Spec => []TypeOK
<1>1. Init => TypeOK
  BY DEF Init, TypeOK
<1>2. TypeOK /\ [Next]_vars => TypeOK'
  <2> SUFFICES ASSUME TypeOK, [Next]_vars
               PROVE  TypeOK'
    OBVIOUS
  <2> USE SessionLockAssumption DEF TypeOK
  <2>1. ASSUME NEW r \in Requests, Ask(r)
        PROVE  TypeOK'
    BY <2>1 DEF Ask
  <2>2. ASSUME NEW r \in Requests, Launch(r)
        PROVE  TypeOK'
    BY <2>2 DEF Launch
  <2>3. ASSUME NEW r \in Requests, Dismiss(r)
        PROVE  TypeOK'
    BY <2>3 DEF Dismiss
  <2>4. ASSUME NEW r \in Requests, Release(r)
        PROVE  TypeOK'
    BY <2>4 DEF Release
  <2>5. ASSUME NEW r \in Requests, Engage(r)
        PROVE  TypeOK'
    BY <2>5 DEF Engage
  <2>6. ASSUME NEW r \in Requests, Unlock(r)
        PROVE  TypeOK'
    BY <2>6 DEF Unlock
  <2>7. ASSUME NEW r \in Requests, LockerDies(r)
        PROVE  TypeOK'
    BY <2>7 DEF LockerDies
  <2>8. ASSUME NEW c \in Checks, AskRunning(c)
        PROVE  TypeOK'
    BY <2>8 DEF AskRunning
  <2>9. ASSUME NEW c \in Checks, Test(c)
        PROVE  TypeOK'
    BY <2>9 DEF Test
  <2>10. ASSUME NEW c \in Checks, TestEnds(c)
        PROVE  TypeOK'
    BY <2>10 DEF TestEnds
  <2>11. CASE UNCHANGED vars
    BY <2>11 DEF vars
  <2>12. QED
    BY <2>1, <2>2, <2>3, <2>4, <2>5, <2>6, <2>7, <2>8, <2>9, <2>10, <2>11 DEF Next, Lock, Locker, Running
<1>3. QED
  BY <1>1, <1>2, PTL DEF Spec

-----------------------------------------------------------------------------
\* The file is held by exactly the invocation that launched a locker or tests it.
LEMMA HolderCarried ==
  ASSUME TypeOK, HolderInv, [Next]_vars
  PROVE  HolderInv'
<1> USE SessionLockAssumption DEF TypeOK, HolderInv
<1>1. ASSUME NEW r \in Requests, Ask(r)
      PROVE  HolderInv'
  BY <1>1 DEF Ask
<1>2. ASSUME NEW r \in Requests, Launch(r)
      PROVE  HolderInv'
  BY <1>2 DEF Launch
<1>3. ASSUME NEW r \in Requests, Dismiss(r)
      PROVE  HolderInv'
  BY <1>3 DEF Dismiss
<1>4. ASSUME NEW r \in Requests, Release(r)
      PROVE  HolderInv'
  BY <1>4 DEF Release
<1>5. ASSUME NEW r \in Requests, Engage(r)
      PROVE  HolderInv'
  BY <1>5 DEF Engage
<1>6. ASSUME NEW r \in Requests, Unlock(r)
      PROVE  HolderInv'
  BY <1>6 DEF Unlock
<1>7. ASSUME NEW r \in Requests, LockerDies(r)
      PROVE  HolderInv'
  BY <1>7 DEF LockerDies
<1>8. ASSUME NEW c \in Checks, AskRunning(c)
      PROVE  HolderInv'
  BY <1>8 DEF AskRunning
<1>9. ASSUME NEW c \in Checks, Test(c)
      PROVE  HolderInv'
  BY <1>9 DEF Test
<1>10. ASSUME NEW c \in Checks, TestEnds(c)
      PROVE  HolderInv'
  BY <1>10 DEF TestEnds
<1>11. CASE UNCHANGED vars
  BY <1>11 DEF vars
<1>12. QED
  BY <1>1, <1>2, <1>3, <1>4, <1>5, <1>6, <1>7, <1>8, <1>9, <1>10, <1>11 DEF Next, Lock, Locker, Running

\* At every moment the file's holder is the invocation whose progress says so.
LEMMA HolderKnown == Spec => [](TypeOK /\ HolderInv)
<1>1. Init => HolderInv
  BY SessionLockAssumption DEF Init, HolderInv
<1>2. TypeOK /\ HolderInv /\ [Next]_vars => HolderInv'
  BY HolderCarried
<1>3. QED
  BY <1>1, <1>2, TypeCorrect, PTL DEF Spec

\* The flock admits one locker, however many requests and checks race for it.
THEOREM LockersExclude == Spec => []OneLocker
<1>1. HolderInv => OneLocker
  BY DEF HolderInv, OneLocker
<1>2. QED
  BY <1>1, HolderKnown, PTL

\* The running check tells a launched locker from its own hold on the file.
THEOREM RunningIsTruthful ==
  ASSUME SoleCheck
  PROVE  Spec => RunningMeansLaunched
<1> DEFINE Truthful ==
      \A c \in Checks : check[c] # "yes" /\ check'[c] = "yes" => holder \in Requests
<1>1. TypeOK /\ HolderInv /\ [Next]_vars => [Truthful]_vars
  <2> SUFFICES ASSUME TypeOK, HolderInv, [Next]_vars
               PROVE  [Truthful]_vars
    OBVIOUS
  <2> USE SessionLockAssumption, SoleCheck DEF TypeOK, HolderInv, SoleCheck
  <2>1. ASSUME NEW r \in Requests, Ask(r)
        PROVE  [Truthful]_vars
    BY <2>1 DEF Ask
  <2>2. ASSUME NEW r \in Requests, Launch(r)
        PROVE  [Truthful]_vars
    BY <2>2 DEF Launch
  <2>3. ASSUME NEW r \in Requests, Dismiss(r)
        PROVE  [Truthful]_vars
    BY <2>3 DEF Dismiss
  <2>4. ASSUME NEW r \in Requests, Release(r)
        PROVE  [Truthful]_vars
    BY <2>4 DEF Release
  <2>5. ASSUME NEW r \in Requests, Engage(r)
        PROVE  [Truthful]_vars
    BY <2>5 DEF Engage
  <2>6. ASSUME NEW r \in Requests, Unlock(r)
        PROVE  [Truthful]_vars
    BY <2>6 DEF Unlock
  <2>7. ASSUME NEW r \in Requests, LockerDies(r)
        PROVE  [Truthful]_vars
    BY <2>7 DEF LockerDies
  <2>8. ASSUME NEW c \in Checks, AskRunning(c)
        PROVE  [Truthful]_vars
    BY <2>8 DEF AskRunning
  <2>9. ASSUME NEW c \in Checks, Test(c)
        PROVE  [Truthful]_vars
    BY <2>9 DEF Test
  <2>10. ASSUME NEW c \in Checks, TestEnds(c)
        PROVE  [Truthful]_vars
    BY <2>10 DEF TestEnds
  <2>11. CASE UNCHANGED vars
    BY <2>11 DEF vars
  <2>12. QED
    BY <2>1, <2>2, <2>3, <2>4, <2>5, <2>6, <2>7, <2>8, <2>9, <2>10, <2>11 DEF Next, Lock, Locker, Running
<1>2. QED
  BY <1>1, HolderKnown, PTL DEF Spec, RunningMeansLaunched
=============================================================================

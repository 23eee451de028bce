----------------------- MODULE WindowsInstall_proofs -----------------------
(***************************************************************************)
(* Proofs about WindowsInstall, for every set of recipes and either value  *)
(* of the autostart option.  Type correctness holds for any set of         *)
(* operators; the safety properties assume that at most one shell runs the *)
(* control program at a time, because the program takes no lock.           *)
(***************************************************************************)
EXTENDS WindowsInstall, TLAPS

SoleOperator == \A p, q \in Operators : p = q

-----------------------------------------------------------------------------
\* Every variable keeps to the values the model gives it, whoever runs what.
THEOREM TypeCorrect == Spec => []TypeOK
<1>1. Init => TypeOK
  BY InstallAssumption DEF Init, TypeOK, Steps
<1>2. TypeOK /\ [Next]_vars => TypeOK'
  <2> SUFFICES ASSUME TypeOK, [Next]_vars
               PROVE  TypeOK'
    OBVIOUS
  <2> USE InstallAssumption
      DEF TypeOK, Steps, InstallSteps, FinalizeSteps, DiscardSteps,
          vars, persistent, volatile, libvirt, guest, host, programs
  <2>1. ASSUME NEW p \in Operators, SetCredential(p)
        PROVE  TypeOK'
    BY <2>1 DEF SetCredential, At
  <2>2. ASSUME NEW p \in Operators, AddAuthorizedKey(p)
        PROVE  TypeOK'
    BY <2>2 DEF AddAuthorizedKey, At
  <2>3. ASSUME NEW p \in Operators, InstallCheck(p)
        PROVE  TypeOK'
    <3>1. candidate' \in BOOLEAN
      BY <2>3, Zenon DEF InstallCheck, Invoke, At, Goto
    <3>2. QED
      BY <2>3, <3>1 DEF InstallCheck, Invoke, At, Goto
  <2>4. ASSUME NEW p \in Operators, CreateCandidate(p)
        PROVE  TypeOK'
    BY <2>4 DEF CreateCandidate, At, Goto
  <2>5. ASSUME NEW p \in Operators, PublishDisk(p)
        PROVE  TypeOK'
    <3>1. candidate' \in BOOLEAN
      BY <2>5, Zenon DEF PublishDisk, At, Goto
    <3>2. QED
      BY <2>5, <3>1 DEF PublishDisk, At, Goto
  <2>6. ASSUME NEW p \in Operators, WriteInstallMarker(p)
        PROVE  TypeOK'
    BY <2>6 DEF WriteInstallMarker, At, Goto
  <2>7. ASSUME NEW p \in Operators, ResumeCheck(p)
        PROVE  TypeOK'
    BY <2>7 DEF ResumeCheck, Invoke, At, Goto
  <2>8. ASSUME NEW p \in Operators, CreateSeed(p)
        PROVE  TypeOK'
    BY <2>8 DEF CreateSeed, At, Goto
  <2>9. ASSUME NEW p \in Operators, DefineInstaller(p)
        PROVE  TypeOK'
    BY <2>9 DEF DefineInstaller, At, Goto
  <2>10. ASSUME NEW p \in Operators, DisableAutostart(p)
        PROVE  TypeOK'
    <3>1. autostart' \in BOOLEAN
      BY <2>10, Zenon DEF DisableAutostart, At, SetAutostart, Goto
    <3>2. QED
      BY <2>10, <3>1 DEF DisableAutostart, At, SetAutostart, Goto
  <2>11. ASSUME NEW p \in Operators, StartInstaller(p)
        PROVE  TypeOK'
    BY <2>11 DEF StartInstaller, At, StartDomain, Startable, Goto
  <2>12. ASSUME NEW p \in Operators, FinalizeCheck(p)
        PROVE  TypeOK'
    BY <2>12 DEF FinalizeCheck, Invoke, At, Reports, Goto
  <2>13. ASSUME NEW p \in Operators, AwaitShutdown(p)
        PROVE  TypeOK'
    BY <2>13 DEF AwaitShutdown, At, Goto
  <2>14. ASSUME NEW p \in Operators, DefineRuntime(p)
        PROVE  TypeOK'
    BY <2>14 DEF DefineRuntime, At, Goto
  <2>15. ASSUME NEW p \in Operators, FinalizeAutostart(p)
        PROVE  TypeOK'
    BY <2>15 DEF FinalizeAutostart, At, SetAutostart, Goto
  <2>16. ASSUME NEW p \in Operators, WipeSeed(p)
        PROVE  TypeOK'
    <3>1. password' \in BOOLEAN
      BY <2>16, Zenon DEF WipeSeed, At, Goto
    <3>2. QED
      BY <2>16, <3>1 DEF WipeSeed, At, Goto
  <2>17. ASSUME NEW p \in Operators, ColdBoot(p)
        PROVE  TypeOK'
    BY <2>17 DEF ColdBoot, At, StartDomain, Startable, Goto
  <2>18. ASSUME NEW p \in Operators, WaitForBaseline(p)
        PROVE  TypeOK'
    BY <2>18 DEF WaitForBaseline, At, Reports, Goto
  <2>19. ASSUME NEW p \in Operators, RemoveMarker(p)
        PROVE  TypeOK'
    BY <2>19 DEF RemoveMarker, At, Goto
  <2>20. ASSUME NEW p \in Operators, DiscardCheck(p)
        PROVE  TypeOK'
    BY <2>20 DEF DiscardCheck, Invoke, At, Goto
  <2>21. ASSUME NEW p \in Operators, Undefine(p)
        PROVE  TypeOK'
    <3>1. autostart' \in BOOLEAN
      BY <2>21, Zenon DEF Undefine, At, Goto
    <3>2. QED
      BY <2>21, <3>1 DEF Undefine, At, Goto
  <2>22. ASSUME NEW p \in Operators, RmDisk(p)
        PROVE  TypeOK'
    BY <2>22 DEF RmDisk, At, Goto
  <2>23. ASSUME NEW p \in Operators, RmVolatile(p)
        PROVE  TypeOK'
    <3>1. password' \in BOOLEAN
      BY <2>23, Zenon DEF RmVolatile, At, Goto
    <3>2. QED
      BY <2>23, <3>1 DEF RmVolatile, At, Goto
  <2>24. ASSUME NEW p \in Operators, RmMarker(p)
        PROVE  TypeOK'
    BY <2>24 DEF RmMarker, At, Goto
  <2>25. ASSUME NEW p \in Operators, DefineRuntimeAfterDiscard(p)
        PROVE  TypeOK'
    BY <2>25 DEF DefineRuntimeAfterDiscard, At, Goto
  <2>26. ASSUME NEW p \in Operators, ClearAutostart(p)
        PROVE  TypeOK'
    <3>1. autostart' \in BOOLEAN
      BY <2>26, Zenon DEF ClearAutostart, At, SetAutostart, Goto
    <3>2. QED
      BY <2>26, <3>1 DEF ClearAutostart, At, SetAutostart, Goto
  <2>27. ASSUME NEW p \in Operators, Die(p)
        PROVE  TypeOK'
    BY <2>27 DEF Die, Goto
  <2>28. ASSUME NEW p \in Operators, Kill(p)
        PROVE  TypeOK'
    BY <2>28 DEF Kill, Goto
  <2>29. CASE Rebuild
    BY <2>29 DEF Rebuild, Reconciling
  <2>30. CASE SetupAutostart
    BY <2>30 DEF SetupAutostart, Reconciling
  <2>31. CASE ReconcileCheck
    BY <2>31 DEF ReconcileCheck, Reconciling
  <2>32. CASE ReconcileDisable
    <3>1. autostart' \in BOOLEAN
      BY <2>32, Zenon DEF ReconcileDisable, Reconciling, SetAutostart
    <3>2. QED
      BY <2>32, <3>1 DEF ReconcileDisable, Reconciling, SetAutostart
  <2>33. CASE ReconcileDefine
    BY <2>33 DEF ReconcileDefine, Reconciling
  <2>34. CASE ReconcileAutostart
    BY <2>34 DEF ReconcileAutostart, Reconciling, SetAutostart
  <2>35. CASE ReconcileFail
    BY <2>35 DEF ReconcileFail
  <2>36. CASE GuestSetup
    BY <2>36 DEF GuestSetup
  <2>37. CASE FirstLogon
    BY <2>37 DEF FirstLogon
  <2>38. CASE RegisterRetry
    BY <2>38 DEF RegisterRetry
  <2>39. CASE Relogon
    BY <2>39 DEF Relogon
  <2>40. CASE BootstrapFails
    BY <2>40 DEF BootstrapFails
  <2>41. CASE RemoveRunKey
    <3>1. runKey' \in BOOLEAN
      BY <2>41, Zenon DEF RemoveRunKey
    <3>2. QED
      BY <2>41, <3>1 DEF RemoveRunKey
  <2>42. CASE ReportPass
    BY <2>42 DEF ReportPass
  <2>43. CASE GuestPowerOff
    BY <2>43 DEF GuestPowerOff
  <2>44. CASE GuestStart
    BY <2>44 DEF GuestStart, StartDomain, Startable
  <2>45. CASE PowerLoss
    <3>1. password' \in BOOLEAN /\ up' \in BOOLEAN
      BY <2>45, Zenon DEF PowerLoss
    <3>2. QED
      BY <2>45, <3>1 DEF PowerLoss
  <2>46. CASE HostBoot
    BY <2>46 DEF HostBoot, StartDomain, Startable
  <2>47. CASE UNCHANGED vars
    BY <2>47
  <2>48. QED
    BY <2>1, <2>2, <2>3, <2>4, <2>5, <2>6, <2>7, <2>8, <2>9, <2>10, <2>11, <2>12, <2>13, <2>14, <2>15, <2>16, <2>17, <2>18, <2>19, <2>20, <2>21, <2>22, <2>23, <2>24, <2>25, <2>26, <2>27, <2>28, <2>29, <2>30, <2>31, <2>32, <2>33, <2>34, <2>35, <2>36, <2>37, <2>38, <2>39, <2>40, <2>41, <2>42, <2>43, <2>44, <2>45, <2>46, <2>47
       DEF Next, Control, Install, Finalize, Discard, Reconcile, Guest, Power
<1>3. QED
  BY <1>1, <1>2, PTL DEF Spec

\* The invariant the safety properties rest on, for one shell at a time.
THEOREM InvariantHolds == SoleOperator => (Spec => []InstallInv)
<1> SUFFICES ASSUME SoleOperator
             PROVE  Spec => []InstallInv
  OBVIOUS
<1>1. Init => InstallInv
  BY DEF Init, InstallInv, GuestInv, MediaInv, CommandInv, FinalizeSteps, Passed,
         UnmarkedDiskSettled, FinalizedLeavesNoInstaller
<1>2. TypeOK /\ InstallInv /\ [Next]_vars => InstallInv'
  <2> SUFFICES ASSUME TypeOK, InstallInv, [Next]_vars
               PROVE  InstallInv'
    OBVIOUS
  <2> USE InstallAssumption, SoleOperator
      DEF InstallInv, GuestInv, MediaInv, CommandInv, Passed, FinalizeSteps, SoleOperator,
          UnmarkedDiskSettled, FinalizedLeavesNoInstaller, TypeOK, Steps,
          vars, persistent, volatile, libvirt, guest, host, programs
  <2>1. ASSUME NEW p \in Operators, SetCredential(p)
        PROVE  InstallInv'
    BY <2>1 DEF SetCredential, At
  <2>2. ASSUME NEW p \in Operators, AddAuthorizedKey(p)
        PROVE  InstallInv'
    BY <2>2 DEF AddAuthorizedKey, At
  <2>3. ASSUME NEW p \in Operators, InstallCheck(p)
        PROVE  InstallInv'
    BY <2>3 DEF InstallCheck, Invoke, At, Goto
  <2>4. ASSUME NEW p \in Operators, CreateCandidate(p)
        PROVE  InstallInv'
    BY <2>4 DEF CreateCandidate, At, Goto
  <2>5. ASSUME NEW p \in Operators, PublishDisk(p)
        PROVE  InstallInv'
    BY <2>5 DEF PublishDisk, At, Goto
  <2>6. ASSUME NEW p \in Operators, WriteInstallMarker(p)
        PROVE  InstallInv'
    BY <2>6 DEF WriteInstallMarker, At, Goto
  <2>7. ASSUME NEW p \in Operators, ResumeCheck(p)
        PROVE  InstallInv'
    BY <2>7 DEF ResumeCheck, Invoke, At, Goto
  <2>8. ASSUME NEW p \in Operators, CreateSeed(p)
        PROVE  InstallInv'
    BY <2>8 DEF CreateSeed, At, Goto
  <2>9. ASSUME NEW p \in Operators, DefineInstaller(p)
        PROVE  InstallInv'
    BY <2>9 DEF DefineInstaller, At, Goto
  <2>10. ASSUME NEW p \in Operators, DisableAutostart(p)
        PROVE  InstallInv'
    BY <2>10 DEF DisableAutostart, At, SetAutostart, Goto
  <2>11. ASSUME NEW p \in Operators, StartInstaller(p)
        PROVE  InstallInv'
    BY <2>11 DEF StartInstaller, At, StartDomain, Startable, Goto
  <2>12. ASSUME NEW p \in Operators, FinalizeCheck(p)
        PROVE  InstallInv'
    BY <2>12 DEF FinalizeCheck, Invoke, At, Reports, Goto
  <2>13. ASSUME NEW p \in Operators, AwaitShutdown(p)
        PROVE  InstallInv'
    BY <2>13 DEF AwaitShutdown, At, Goto
  <2>14. ASSUME NEW p \in Operators, DefineRuntime(p)
        PROVE  InstallInv'
    BY <2>14 DEF DefineRuntime, At, Goto
  <2>15. ASSUME NEW p \in Operators, FinalizeAutostart(p)
        PROVE  InstallInv'
    BY <2>15 DEF FinalizeAutostart, At, SetAutostart, Goto
  <2>16. ASSUME NEW p \in Operators, WipeSeed(p)
        PROVE  InstallInv'
    BY <2>16 DEF WipeSeed, At, Goto
  <2>17. ASSUME NEW p \in Operators, ColdBoot(p)
        PROVE  InstallInv'
    BY <2>17 DEF ColdBoot, At, StartDomain, Startable, Goto
  <2>18. ASSUME NEW p \in Operators, WaitForBaseline(p)
        PROVE  InstallInv'
    BY <2>18 DEF WaitForBaseline, At, Reports, Goto
  <2>19. ASSUME NEW p \in Operators, RemoveMarker(p)
        PROVE  InstallInv'
    BY <2>19 DEF RemoveMarker, At, Goto
  <2>20. ASSUME NEW p \in Operators, DiscardCheck(p)
        PROVE  InstallInv'
    BY <2>20 DEF DiscardCheck, Invoke, At, Goto
  <2>21. ASSUME NEW p \in Operators, Undefine(p)
        PROVE  InstallInv'
    BY <2>21 DEF Undefine, At, Goto
  <2>22. ASSUME NEW p \in Operators, RmDisk(p)
        PROVE  InstallInv'
    BY <2>22 DEF RmDisk, At, Goto
  <2>23. ASSUME NEW p \in Operators, RmVolatile(p)
        PROVE  InstallInv'
    BY <2>23 DEF RmVolatile, At, Goto
  <2>24. ASSUME NEW p \in Operators, RmMarker(p)
        PROVE  InstallInv'
    BY <2>24 DEF RmMarker, At, Goto
  <2>25. ASSUME NEW p \in Operators, DefineRuntimeAfterDiscard(p)
        PROVE  InstallInv'
    BY <2>25 DEF DefineRuntimeAfterDiscard, At, Goto
  <2>26. ASSUME NEW p \in Operators, ClearAutostart(p)
        PROVE  InstallInv'
    BY <2>26 DEF ClearAutostart, At, SetAutostart, Goto
  <2>27. ASSUME NEW p \in Operators, Die(p)
        PROVE  InstallInv'
    BY <2>27 DEF Die, Goto
  <2>28. ASSUME NEW p \in Operators, Kill(p)
        PROVE  InstallInv'
    BY <2>28 DEF Kill, Goto
  <2>29. CASE Rebuild
    BY <2>29 DEF Rebuild, Reconciling
  <2>30. CASE SetupAutostart
    BY <2>30 DEF SetupAutostart, Reconciling
  <2>31. CASE ReconcileCheck
    BY <2>31 DEF ReconcileCheck, Reconciling
  <2>32. CASE ReconcileDisable
    BY <2>32 DEF ReconcileDisable, Reconciling, SetAutostart
  <2>33. CASE ReconcileDefine
    BY <2>33 DEF ReconcileDefine, Reconciling
  <2>34. CASE ReconcileAutostart
    BY <2>34 DEF ReconcileAutostart, Reconciling, SetAutostart
  <2>35. CASE ReconcileFail
    BY <2>35 DEF ReconcileFail
  <2>36. CASE GuestSetup
    BY <2>36 DEF GuestSetup
  <2>37. CASE FirstLogon
    BY <2>37 DEF FirstLogon
  <2>38. CASE RegisterRetry
    BY <2>38 DEF RegisterRetry
  <2>39. CASE Relogon
    BY <2>39 DEF Relogon
  <2>40. CASE BootstrapFails
    BY <2>40 DEF BootstrapFails
  <2>41. CASE RemoveRunKey
    BY <2>41 DEF RemoveRunKey
  <2>42. CASE ReportPass
    BY <2>42 DEF ReportPass
  <2>43. CASE GuestPowerOff
    BY <2>43 DEF GuestPowerOff
  <2>44. CASE GuestStart
    BY <2>44 DEF GuestStart, StartDomain, Startable
  <2>45. CASE PowerLoss
    BY <2>45 DEF PowerLoss
  <2>46. CASE HostBoot
    BY <2>46 DEF HostBoot, StartDomain, Startable
  <2>47. CASE UNCHANGED vars
    BY <2>47
  <2>48. QED
    BY <2>1, <2>2, <2>3, <2>4, <2>5, <2>6, <2>7, <2>8, <2>9, <2>10, <2>11, <2>12, <2>13, <2>14, <2>15, <2>16, <2>17, <2>18, <2>19, <2>20, <2>21, <2>22, <2>23, <2>24, <2>25, <2>26, <2>27, <2>28, <2>29, <2>30, <2>31, <2>32, <2>33, <2>34, <2>35, <2>36, <2>37, <2>38, <2>39, <2>40, <2>41, <2>42, <2>43, <2>44, <2>45, <2>46, <2>47
       DEF Next, Control, Install, Finalize, Discard, Reconcile, Guest, Power
<1>3. QED
  BY <1>1, <1>2, TypeCorrect, PTL DEF Spec

-----------------------------------------------------------------------------
\* phase and the reconciliation take a disk without marker for a runtime: such a
\* disk never holds a half-installed Windows.
THEOREM UnmarkedDisksAreSettled == SoleOperator => (Spec => []UnmarkedDiskSettled)
<1>1. InstallInv => UnmarkedDiskSettled
  BY DEF InstallInv
<1>2. QED
  BY <1>1, InvariantHolds, PTL

\* verify_install_marker's fingerprint comparison does its work: no rebuild mixes
\* two recipes in one installation.
THEOREM MarkersNameTheirRecipe == SoleOperator => (Spec => []MarkerNamesRecipe)
<1>1. InstallInv => MarkerNamesRecipe
  BY DEF InstallInv, MediaInv, MarkerNamesRecipe
<1>2. QED
  BY <1>1, InvariantHolds, PTL

\* After finalize nothing starts the installer again.
THEOREM FinalizedMachinesAreClean == SoleOperator => (Spec => []FinalizedLeavesNoInstaller)
<1>1. InstallInv => FinalizedLeavesNoInstaller
  BY DEF InstallInv
<1>2. QED
  BY <1>1, InvariantHolds, PTL

-----------------------------------------------------------------------------
\* The commands implement the lifecycle: four steps move it (the disk is
\* published, the marker is written, finalize removes it, discard removes it),
\* every other step leaves it where it is.
THEOREM CommandsImplementLifecycle == SoleOperator => (Spec => ImplementsLifecycle)
<1> SUFFICES ASSUME SoleOperator
             PROVE  Spec => ImplementsLifecycle
  OBVIOUS
<1>1. Init => Lifecycle!Init
  BY DEF Init, Lifecycle!Init, LifecyclePhase, Passed
<1>2. TypeOK /\ InstallInv /\ [Next]_vars => [Lifecycle!Next]_(Lifecycle!lifecycle)
  <2> SUFFICES ASSUME TypeOK, InstallInv, [Next]_vars
               PROVE  [Lifecycle!Next]_(Lifecycle!lifecycle)
    OBVIOUS
  <2> DEFINE Stays == UNCHANGED Lifecycle!lifecycle
  <2> USE InstallAssumption, SoleOperator
      DEF InstallInv, GuestInv, MediaInv, CommandInv, Passed, FinalizeSteps, SoleOperator,
          UnmarkedDiskSettled, FinalizedLeavesNoInstaller, TypeOK, Steps,
          LifecyclePhase, Lifecycle!lifecycle,
          vars, persistent, volatile, libvirt, guest, host, programs
  <2>1. ASSUME NEW p \in Operators, SetCredential(p)
        PROVE  Stays
    BY <2>1 DEF SetCredential, At
  <2>2. ASSUME NEW p \in Operators, AddAuthorizedKey(p)
        PROVE  Stays
    BY <2>2 DEF AddAuthorizedKey, At
  <2>3. ASSUME NEW p \in Operators, InstallCheck(p)
        PROVE  Stays
    BY <2>3 DEF InstallCheck, Invoke, At, Goto
  <2>4. ASSUME NEW p \in Operators, CreateCandidate(p)
        PROVE  Stays
    BY <2>4 DEF CreateCandidate, At, Goto
  <2>5. ASSUME NEW p \in Operators, PublishDisk(p)
        PROVE  Stays \/ Lifecycle!Claim
    BY <2>5 DEF PublishDisk, At, Goto, Lifecycle!Claim
  <2>6. ASSUME NEW p \in Operators, WriteInstallMarker(p)
        PROVE  Lifecycle!Begin(baked[p])
    BY <2>6 DEF WriteInstallMarker, At, Goto, Lifecycle!Begin
  <2>7. ASSUME NEW p \in Operators, ResumeCheck(p)
        PROVE  Stays
    BY <2>7 DEF ResumeCheck, Invoke, At, Goto
  <2>8. ASSUME NEW p \in Operators, CreateSeed(p)
        PROVE  Stays
    BY <2>8 DEF CreateSeed, At, Goto
  <2>9. ASSUME NEW p \in Operators, DefineInstaller(p)
        PROVE  Stays
    BY <2>9 DEF DefineInstaller, At, Goto
  <2>10. ASSUME NEW p \in Operators, DisableAutostart(p)
        PROVE  Stays
    BY <2>10 DEF DisableAutostart, At, SetAutostart, Goto
  <2>11. ASSUME NEW p \in Operators, StartInstaller(p)
        PROVE  Stays
    BY <2>11 DEF StartInstaller, At, StartDomain, Startable, Goto
  <2>12. ASSUME NEW p \in Operators, FinalizeCheck(p)
        PROVE  Stays
    BY <2>12 DEF FinalizeCheck, Invoke, At, Reports, Goto
  <2>13. ASSUME NEW p \in Operators, AwaitShutdown(p)
        PROVE  Stays
    BY <2>13 DEF AwaitShutdown, At, Goto
  <2>14. ASSUME NEW p \in Operators, DefineRuntime(p)
        PROVE  Stays
    BY <2>14 DEF DefineRuntime, At, Goto
  <2>15. ASSUME NEW p \in Operators, FinalizeAutostart(p)
        PROVE  Stays
    BY <2>15 DEF FinalizeAutostart, At, SetAutostart, Goto
  <2>16. ASSUME NEW p \in Operators, WipeSeed(p)
        PROVE  Stays
    BY <2>16 DEF WipeSeed, At, Goto
  <2>17. ASSUME NEW p \in Operators, ColdBoot(p)
        PROVE  Stays
    BY <2>17 DEF ColdBoot, At, StartDomain, Startable, Goto
  <2>18. ASSUME NEW p \in Operators, WaitForBaseline(p)
        PROVE  Stays
    BY <2>18 DEF WaitForBaseline, At, Reports, Goto
  <2>19. ASSUME NEW p \in Operators, RemoveMarker(p)
        PROVE  Lifecycle!Finish
    BY <2>19 DEF RemoveMarker, At, Goto, Lifecycle!Finish
  <2>20. ASSUME NEW p \in Operators, DiscardCheck(p)
        PROVE  Stays
    BY <2>20 DEF DiscardCheck, Invoke, At, Goto
  <2>21. ASSUME NEW p \in Operators, Undefine(p)
        PROVE  Stays
    BY <2>21 DEF Undefine, At, Goto
  <2>22. ASSUME NEW p \in Operators, RmDisk(p)
        PROVE  Stays
    BY <2>22 DEF RmDisk, At, Goto
  <2>23. ASSUME NEW p \in Operators, RmVolatile(p)
        PROVE  Stays
    BY <2>23 DEF RmVolatile, At, Goto
  <2>24. ASSUME NEW p \in Operators, RmMarker(p)
        PROVE  Lifecycle!Abandon
    BY <2>24 DEF RmMarker, At, Goto, Lifecycle!Abandon
  <2>25. ASSUME NEW p \in Operators, DefineRuntimeAfterDiscard(p)
        PROVE  Stays
    BY <2>25 DEF DefineRuntimeAfterDiscard, At, Goto
  <2>26. ASSUME NEW p \in Operators, ClearAutostart(p)
        PROVE  Stays
    BY <2>26 DEF ClearAutostart, At, SetAutostart, Goto
  <2>27. ASSUME NEW p \in Operators, Die(p)
        PROVE  Stays
    BY <2>27 DEF Die, Goto
  <2>28. ASSUME NEW p \in Operators, Kill(p)
        PROVE  Stays
    BY <2>28 DEF Kill, Goto
  <2>29. CASE Rebuild
    BY <2>29 DEF Rebuild, Reconciling
  <2>30. CASE SetupAutostart
    BY <2>30 DEF SetupAutostart, Reconciling
  <2>31. CASE ReconcileCheck
    BY <2>31 DEF ReconcileCheck, Reconciling
  <2>32. CASE ReconcileDisable
    BY <2>32 DEF ReconcileDisable, Reconciling, SetAutostart
  <2>33. CASE ReconcileDefine
    BY <2>33 DEF ReconcileDefine, Reconciling
  <2>34. CASE ReconcileAutostart
    BY <2>34 DEF ReconcileAutostart, Reconciling, SetAutostart
  <2>35. CASE ReconcileFail
    BY <2>35 DEF ReconcileFail
  <2>36. CASE GuestSetup
    BY <2>36 DEF GuestSetup
  <2>37. CASE FirstLogon
    BY <2>37 DEF FirstLogon
  <2>38. CASE RegisterRetry
    BY <2>38 DEF RegisterRetry
  <2>39. CASE Relogon
    BY <2>39 DEF Relogon
  <2>40. CASE BootstrapFails
    BY <2>40 DEF BootstrapFails
  <2>41. CASE RemoveRunKey
    BY <2>41 DEF RemoveRunKey
  <2>42. CASE ReportPass
    BY <2>42 DEF ReportPass
  <2>43. CASE GuestPowerOff
    BY <2>43 DEF GuestPowerOff
  <2>44. CASE GuestStart
    BY <2>44 DEF GuestStart, StartDomain, Startable
  <2>45. CASE PowerLoss
    BY <2>45 DEF PowerLoss
  <2>46. CASE HostBoot
    BY <2>46 DEF HostBoot, StartDomain, Startable
  <2>47. CASE UNCHANGED vars
    BY <2>47
  <2>48. QED
    BY <2>1, <2>2, <2>3, <2>4, <2>5, <2>6, <2>7, <2>8, <2>9, <2>10, <2>11, <2>12, <2>13, <2>14, <2>15, <2>16, <2>17, <2>18, <2>19, <2>20, <2>21, <2>22, <2>23, <2>24, <2>25, <2>26, <2>27, <2>28, <2>29, <2>30, <2>31, <2>32, <2>33, <2>34, <2>35, <2>36, <2>37, <2>38, <2>39, <2>40, <2>41, <2>42, <2>43, <2>44, <2>45, <2>46, <2>47
       DEF Lifecycle!Next, Next, Control, Install, Finalize, Discard, Reconcile, Guest, Power
<1>3. QED
  BY <1>1, <1>2, TypeCorrect, InvariantHolds, PTL DEF Spec, ImplementsLifecycle, Lifecycle!Spec
=============================================================================

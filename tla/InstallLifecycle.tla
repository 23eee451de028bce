-------------------------- MODULE InstallLifecycle --------------------------
(***************************************************************************)
(* What the managed Windows installation promises its operator, whatever   *)
(* the order of commands, crashes and reboots: a disk is claimed before an *)
(* installation is recorded on it, an installation keeps the recipe it was *)
(* begun with, it ends either abandoned (nothing is left) or finished, and *)
(* a finished machine is never touched again.                              *)
(*                                                                         *)
(* WindowsInstall implements this specification.                           *)
(***************************************************************************)
CONSTANTS
  Recipes,   \* fingerprints of the public recipe an installation can be made from
  None       \* no recipe

VARIABLES
  phase,     \* where the machine is in its life
  recipe     \* the recipe of the installation in progress, None outside one

lifecycle == <<phase, recipe>>

Init == phase = "uninstalled" /\ recipe = None

Claim ==
  /\ phase = "uninstalled"
  /\ phase' = "claimed"
  /\ UNCHANGED recipe

Begin(r) ==
  /\ phase = "claimed"
  /\ phase' = "installing"
  /\ recipe' = r

Abandon ==
  /\ phase = "installing"
  /\ phase' = "uninstalled"
  /\ recipe' = None

Finish ==
  /\ phase = "installing"
  /\ phase' = "finalized"
  /\ recipe' = None

Next == Claim \/ (\E r \in Recipes : Begin(r)) \/ Abandon \/ Finish

Spec == Init /\ [][Next]_lifecycle
=============================================================================

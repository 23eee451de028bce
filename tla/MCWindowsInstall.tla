-------------------------- MODULE MCWindowsInstall --------------------------
(* One operator, two recipes (so that a rebuild can change the declared one), *)
(* and a guest that is to start with the host.                                *)
EXTENDS WindowsInstall
=============================================================================

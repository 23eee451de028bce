--------------------------- MODULE MCSessionLock ---------------------------
(* Three requests (a key binding, the idle timer, the suspend path) against   *)
(* the one running check Hypridle's locked-display listener makes at a time.  *)
EXTENDS SessionLock
=============================================================================

---------------------------- MODULE MCAppRecovery ----------------------------
(* Two backups and a drill of an application with two writers: a cascade, a   *)
(* partial stop and a partial restart need no third unit, a stale receipt and *)
(* a backup after a killed one no third backup.                               *)
EXTENDS AppRecovery
=============================================================================

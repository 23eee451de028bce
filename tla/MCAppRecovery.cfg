CONSTANTS
  Backups = {backup1, backup2}
  Drills = {drill}
  Units = {database, server}
  Interrupted = {"between", "spawning", "waiting", "cleaning", "abandoning", "resuming", "finishing", "reporting"}
  NoRun = NoRun
SPECIFICATION Spec
INVARIANTS TypeOK WritersResumed HooksSeeStoppedWriters OneOperation
PROPERTIES SuccessEarned RunEnds
CHECK_DEADLOCK FALSE

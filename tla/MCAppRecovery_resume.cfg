CONSTANTS
  Backups = {backup1, backup2}
  Drills = {drill}
  Units = {database, server}
  Interrupted = {"between", "spawning", "waiting", "cleaning", "abandoning", "resuming", "finishing", "reporting"}
  NoRun = NoRun
SPECIFICATION Spec
INVARIANT WritersAlwaysResumed
CHECK_DEADLOCK FALSE

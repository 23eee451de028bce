CONSTANTS
  Tasks = {build, test}
  Interrupted = {"spawnlocker", "waitlocker", "holding", "waitlauncher", "inspect", "spawnwaiter", "waitwaiter"}
  NoTask = NoTask
SPECIFICATION Spec
INVARIANTS TypeOK OneWorkload EndedLeavesNothing
PROPERTIES CancellationEnds EmptyScopeFreesQueue
CHECK_DEADLOCK FALSE

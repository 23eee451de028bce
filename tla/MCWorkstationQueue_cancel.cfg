CONSTANTS
  Tasks = {build, test}
  Interrupted = {"spawnlocker", "waitlocker", "holding", "spawnlauncher", "waitlauncher", "inspect", "spawnwaiter", "waitwaiter", "trapped"}
  NoTask = NoTask
SPECIFICATION Spec
INVARIANT EndedLeavesNothing
CHECK_DEADLOCK FALSE

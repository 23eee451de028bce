CONSTANTS
  Requests = {key, idle, sleep}
  Checks = {dpms}
  NoOne = NoOne
SPECIFICATION Spec
INVARIANTS TypeOK OneLocker
PROPERTIES RunningMeansLaunched StaleLaunchEnds

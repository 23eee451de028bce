CONSTANTS
  Requests = {key, idle, sleep}
  Checks = {dpms}
  NoOne = NoOne
SPECIFICATION Spec
PROPERTY DismissedMeansHandled

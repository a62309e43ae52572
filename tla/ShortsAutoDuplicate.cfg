SPECIFICATION Spec
CONSTANTS
  MaxVersions = 2
  MaxSessions = 3
  MaxAborts = 1
  AutoPublish = TRUE
INVARIANT OneAutomaticVideoPerDay

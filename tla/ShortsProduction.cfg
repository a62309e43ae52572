SPECIFICATION Spec
CONSTANTS
  Issues <- MCIssues
  SectorOf <- MCSector
  TopicOf <- MCTopic
  MaxAttempts = 2
  MaxGroups = 2
  MaxDetails = 3
  RepeatDays = 1
  RetentionDays = 14
  MaxDays = 2
  MaxManual = 1
  MaxReboots = 1
CHECK_DEADLOCK FALSE
INVARIANTS VideosAreFresh
PROPERTIES DayIsAccounted

SPECIFICATION FairSpec
CONSTANTS
  MaxVersions = 2
  MaxSessions = 3
  MaxAborts = 1
  AutoPublish = TRUE
INVARIANTS
  OneVideoPerVersion
  RecordedIsLive
  UploadedIsRecorded
  CurrentNeverSuperseded
PROPERTIES
  VideosAreCleared
  
  KeepsPromise

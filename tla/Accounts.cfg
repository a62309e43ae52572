SPECIFICATION Spec
CONSTANTS
  Keys = {k1}
  Locks = {k1}
  Procs <- MCProcs
  Nobody = Nobody
  NoFile = NoFile
  Slow = {}
  Rivals = FALSE
  Browsers = {b1}
  Tokens = {t1}
  Requests = {r1, r2}
  Senders = {s1, s2}
  Threads = {w1, w2}
  Settled <- MCSettled
  Emails = {"e1", "e2"}
  Topics = {"x"}
  Assets = {"a1", "a2"}
  Codes = {c1}
  None = None
  MaxSessions = 1
  CodesPerDay = 2
  CodeAttempts = 1
  MaxSlots = 1
  RunsPerDay = 2
  ServerRunsPerDay = 2
  MaxAssets = 2
  AdvicePerDay = 1
  AdviceKept = 1
  MaxRequests = 2
  MaxSends = 2
  MaxDeaths = 1
SYMMETRY MCSymmetry
CHECK_DEADLOCK FALSE
INVARIANTS
  
  LettersAreRecorded
  NothingIsLost
PROPERTIES
  ConfirmedAddressOnly
  NoResurrection
  RunsEndThemselves

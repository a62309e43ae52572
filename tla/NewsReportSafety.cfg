SPECIFICATION Spec
CONSTANTS
  Articles = {"a1", "a2", "b1", "u1"}
  Markets = {"A", "B"}
  Sources = {s1, s2}
  MarketOf <- MCMarketOf
  EventOf <- MCEventOf
  NoEvent = "none"
  Untitled = {"u1"}
  AlwaysPublish = {"A"}
  PerSource = 1
  MaxItems = 2
  MinArticles = 2
  MaxCrashes = 1
  MaxFaults = 1
  AnswersGetLost = TRUE
SYMMETRY MCSymmetry
INVARIANTS
  ToldOnce
  OneArticlePerEvent
  ReservationsFit
PROPERTY NothingVanishes

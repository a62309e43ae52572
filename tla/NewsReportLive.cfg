SPECIFICATION FairSpec
CONSTANTS
  Articles = {"a1", "a2", "u1"}
  Markets = {"A"}
  Sources = {s1}
  MarketOf <- MCMarketOf
  EventOf <- MCEventOf
  NoEvent = "none"
  Untitled = {"u1"}
  AlwaysPublish = {}
  PerSource = 1
  MaxItems = 2
  MinArticles = 2
  MaxCrashes = 1
  MaxFaults = 1
  AnswersGetLost = TRUE
PROPERTY NoneWaitsForEver

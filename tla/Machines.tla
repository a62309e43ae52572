------------------------------ MODULE Machines ------------------------------
(***************************************************************************)
(* The small machines of the bot and of the web pages, side by side: a     *)
(* behaviour belongs to the one part its first state names, and v1 to v12  *)
(* are that part's variables.                                              *)
(***************************************************************************)
EXTENDS Integers, Sequences, FiniteSets

CONSTANTS
  Purposes, LlmAttempts, LlmThreshold, LlmCooldown, RateCooldown, MaxRetryAfter,
  DayLength, LlmTime, LlmRestarts,                          \* see LlmCircuit
  SourceKeys, Builtin, RssLabels, SourceThreshold, SourceCooldown, SourceClock,
                                                            \* see SourceRegistry
  CacheKeys, Callers, Ttl, QuoteCooldown, MaxFetch, QuoteClock,  \* see Quotes
  Texts, Likeness, Similar, Sources, Feeds, Mode, Limit, Slots, Window, MaxEvents,
  ReportedCooldown, RecapBucket, RecapMaxAge, PendingLimit, MaxCycles, MaxRestarts,
                                                            \* see NewsPrefilter
  Ids, RetentionDays, PendingMax, SampleMax, MinLabels, LearnDays, MinTrain, MinTest,
  SearchTrials, MaxScore, Prevalence, MaxLines, LastDay, LearnRestarts,
                                                            \* see PrefilterLearning
  Listings, Codes, MaxBuilds, MaxDamage,                    \* see StockUniverse
  Markets, Refreshes, Retention, Lookback, DaysPerRequest, MaxCalls, MinArticles,
  DenseDays, MinTotal, Counts, Values, OldFile, MaxDay, DigestRestarts,
                                                            \* see MarketSentiment
  Articles, Url, Text, Published, Junk, WatchHours, PackItems, PageClock, MaxWrites,
                                                            \* see AssetWatch
  Requests, Scheduled, PoolWorkers,                         \* see Briefing
  MaxHighlights, MinHighlights, OneIn, MaxHeadlines, WorthACall, MaxHeldHours, AlwaysPublish,
  FallbackHeadlines, RowsRead, SampleSize, SampleExploring, Alike,
  Queues, Situations, Earlier, AnswerPairs                  \* see ReportAnswer

(* backends.py takes what the configuration says, registry.py at least one *)
(* failure and one minute; as configured, a refusal for the rate is not    *)
(* rested for longer than any other failure.                               *)
ASSUME ProvidersAssumption ==
  /\ {LlmCooldown, RateCooldown, MaxRetryAfter, LlmTime, SourceCooldown} \subseteq Nat
  /\ RateCooldown <= LlmCooldown
  /\ {DayLength, SourceThreshold} \subseteq Nat \ {0}
  /\ {Ttl, QuoteCooldown} \subseteq Nat

IsList(s) == s \in Seq({s[i] : i \in DOMAIN s})

(* service.py keeps a place of the head for what the scores order; a feed  *)
(* is a sequence of articles with the hour at which each was published.    *)
ASSUME FilterAssumption ==
  /\ Limit \in Nat \ {0} /\ Slots \in 0..(Limit - 1)
  /\ {ReportedCooldown, RecapMaxAge} \subseteq Nat
  /\ \A s \in Sources : \A feed \in Feeds[s] :
       /\ IsList(feed)
       /\ \A i \in DOMAIN feed : feed[i].published \in Int

(* Precisions and the prevalence of a label are not negative. *)
ASSUME LearnerAssumption == {MaxScore, Prevalence} \subseteq Nat

(* A page is made of finitely many articles, by the hours in the           *)
(* configuration; a run of the briefing is asked for or due by the         *)
(* calendar, never both.                                                   *)
ASSUME ReadersAssumption ==
  /\ IsFiniteSet(Articles) /\ Published \in [Articles -> Int]
  /\ WatchHours \in Nat /\ PackItems \in Nat
  /\ Requests \cap Scheduled = {}

(* What is queued, titles and what the model lists are sequences; an       *)
(* answer is parsed into one of four forms; highlights are one in some     *)
(* number of articles.                                                     *)
ASSUME ReportAssumption ==
  /\ {MaxHighlights, MinHighlights} \subseteq Int /\ OneIn \in Nat \ {0}
  /\ \A queued \in Queues : IsList(queued) /\ \A i \in DOMAIN queued : IsList(queued[i].title)
  /\ \A given \in AnswerPairs : \A n \in {1, 2} :
       /\ given[n].form \in {"fails", "nothing", "broken", "object"}
       /\ IsList(given[n].highlights) /\ IsList(given[n].evaluations)

VARIABLES part, v1, v2, v3, v4, v5, v6, v7, v8, v9, v10, v11, v12

v == <<part, v1, v2, v3, v4, v5, v6, v7, v8, v9, v10, v11, v12>>

Llm == INSTANCE LlmCircuit WITH
    MaxAttempts <- LlmAttempts, Threshold <- LlmThreshold, Cooldown <- LlmCooldown,
    MaxTime <- LlmTime, MaxRestarts <- LlmRestarts,
    clock <- v1, circuit <- v2, call <- v3, last <- v4, noticeDay <- v5, polling <- v6,
    told <- v7, barred <- v8, restarts <- v9, cutShort <- v10

Registry == INSTANCE SourceRegistry WITH
    FailureThreshold <- SourceThreshold, Cooldown <- SourceCooldown, MaxClock <- SourceClock,
    clock <- v1, health <- v2, reporting <- v3, research <- v4, since <- v5

Prices == INSTANCE Quotes WITH
    FailureCooldown <- QuoteCooldown, MaxClock <- QuoteClock,
    clock <- v1, store <- v2, failures <- v3, fetching <- v4, answer <- v5

Filter == INSTANCE NewsPrefilter WITH
    Threshold <- Similar,
    clock <- v1, events <- v2, stored <- v3, recently <- v4, candidates <- v5, cycle <- v6,
    collecting <- v7, offer <- v8, queue <- v9, truth <- v10, forgotten <- v11, restarts <- v12

Learning == INSTANCE PrefilterLearning WITH
    MinDays <- LearnDays, MaxDay <- LastDay, MaxRestarts <- LearnRestarts,
    file <- v1, today <- v2, learner <- v3, search <- v4, inFlight <- v5, modelFile <- v6,
    slice <- v7, burst <- v8, restarts <- v9

Names == INSTANCE StockUniverse WITH
    cache <- v1, memory <- v2, written <- v3, listed <- v4, builds <- v5, damage <- v6

Sentiment == INSTANCE MarketSentiment WITH
    MinDays <- DenseDays, MaxRestarts <- DigestRestarts,
    day <- v1, entries <- v2, file <- v3, refresh <- v4, chart <- v5, restarts <- v6

Page == INSTANCE AssetWatch WITH
    MaxItems <- PackItems, MaxClock <- PageClock,
    clock <- v1, queue <- v2, files <- v3, cache <- v4, request <- v5, packed <- v6

Talk == INSTANCE Briefing WITH
    Workers <- PoolWorkers,
    reserved <- v1, stage <- v2, queue <- v3, working <- v4, heard <- v5

Report == INSTANCE ReportAnswer WITH
    MinArticles <- WorthACall,
    stage <- v1, report <- v2, replies <- v3, outcome <- v4

(* Chinese codes have six digits and those of Hong Kong five.              *)
ASSUME UniverseAssumption ==
  \A cn \in Listings["CN"], hk \in Listings["HK"] : Names!Keys("CN", cn) \cap Names!Keys("HK", hk) = {}

(* The markets are listed in the configuration, and a file of the same      *)
(* scheme settles a day with headlines taken after it.                     *)
ASSUME SentimentAssumption ==
  /\ Markets \in Seq(STRING) /\ Lookback \in Nat
  /\ \A old \in OldFile : \A k \in DOMAIN old :
       Sentiment!Settled(old, k) => old[k].on > old[k].day

-----------------------------------------------------------------------------
(* A part leaves the variables it does not have at None. *)

None == 0
After4 == <<v5, v6, v7, v8, v9, v10, v11, v12>>
After5 == <<v6, v7, v8, v9, v10, v11, v12>>
After6 == <<v7, v8, v9, v10, v11, v12>>
After9 == <<v10, v11, v12>>
After10 == <<v11, v12>>
NoneAfter10 == v11 = None /\ v12 = None
NoneAfter9 == v10 = None /\ NoneAfter10
NoneAfter6 == v7 = None /\ v8 = None /\ v9 = None /\ NoneAfter9
NoneAfter5 == v6 = None /\ NoneAfter6
NoneAfter4 == v5 = None /\ NoneAfter5

Init ==
    \/ part = "llm" /\ Llm!Init /\ NoneAfter10
    \/ part = "prefilter" /\ Filter!Init
    \/ part = "learning" /\ Learning!Init /\ NoneAfter9
    \/ part = "registry" /\ Registry!Init /\ NoneAfter5
    \/ part = "quotes" /\ Prices!Init /\ NoneAfter5
    \/ part = "universe" /\ Names!Init /\ NoneAfter6
    \/ part = "sentiment" /\ Sentiment!Init /\ NoneAfter6
    \/ part = "watch" /\ Page!Init /\ NoneAfter6
    \/ part = "briefing" /\ Talk!Init /\ NoneAfter5
    \/ part = "report" /\ Report!Init /\ NoneAfter4

LlmSteps == part = "llm" /\ Llm!Next /\ UNCHANGED <<part, After10>>
PrefilterSteps == part = "prefilter" /\ Filter!Next /\ UNCHANGED part
LearningSteps == part = "learning" /\ Learning!Next /\ UNCHANGED <<part, After9>>
RegistrySteps == part = "registry" /\ Registry!Next /\ UNCHANGED <<part, After5>>
QuotesSteps == part = "quotes" /\ Prices!Next /\ UNCHANGED <<part, After5>>
UniverseSteps == part = "universe" /\ Names!Next /\ UNCHANGED <<part, After6>>
SentimentSteps == part = "sentiment" /\ Sentiment!Next /\ UNCHANGED <<part, After6>>
WatchSteps == part = "watch" /\ Page!Next /\ UNCHANGED <<part, After6>>
BriefingSteps == part = "briefing" /\ Talk!Next /\ UNCHANGED <<part, After5>>
ReportSteps == part = "report" /\ Report!Next /\ UNCHANGED <<part, After4>>

Next ==
    \/ LlmSteps \/ PrefilterSteps \/ LearningSteps \/ RegistrySteps \/ QuotesSteps
    \/ UniverseSteps \/ SentimentSteps \/ WatchSteps \/ BriefingSteps \/ ReportSteps

Spec == Init /\ [][Next]_v

-----------------------------------------------------------------------------
(* A purpose that was told to keep away sends no request before its time   *)
(* (LlmCircuit).                                                           *)
StaysAway == [][part = "llm" => Llm!StayingAway]_v

(* Failing providers: of a day's spent quota the operator hears once, no   *)
(* source of news is left out without a reason or for longer than its      *)
(* rest, and only a provider that failed serves old quotes (LlmCircuit,    *)
(* SourceRegistry, Quotes).                                                *)
FailuresAreKept ==
    /\ part = "llm" => Llm!ToldOncePerDay
    /\ part = "registry" => Registry!OutForAReason
    /\ part = "quotes" => Prices!OldOnlyAfterFailure

(* The prefilter stops repetitions and nothing else (NewsPrefilter). *)
NewsIsOffered ==
    part = "prefilter" =>
      Filter!NoRepeatInCooldown /\ Filter!EveryNewEventIsOffered /\ Filter!HeadIsClaimedOnce

(* What is kept of earlier days agrees with what happened on them, through *)
(* restarts, failed writes and damaged files: the learner's samples and    *)
(* its model, the names of stocks, the sentiment of settled days           *)
(* (PrefilterLearning, StockUniverse, MarketSentiment).                    *)
MemoryIsTrue ==
    /\ part = "learning" => Learning!ReadsLikeAnew /\ Learning!BarIsWhatIsStored
    /\ part = "universe" => Names!KnownUntilCollectedAnew /\ Names!CodeNamesOneStock
    /\ part = "sentiment" => Sentiment!SettledAfterTheDay

(* What a reader gets: a page with each article of its hours once, and one *)
(* briefing for each that is due, after which the next may be asked for    *)
(* (AssetWatch, Briefing).                                                 *)
ReaderIsServed ==
    /\ part = "watch" => Page!PageHasEachOnce
    /\ part = "briefing" => Talk!ReservedWhileOneIsMade /\ Talk!HeardOnce

(* The model's answers are used for what they were asked: importance for   *)
(* the article it was meant for, silence for a reason (ReportAnswer).      *)
ReportIsHonest == part = "report" => Report!LabelsAreMeant /\ Report!SilenceHasAReason
=============================================================================

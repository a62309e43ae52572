----------------------------- MODULE NewsReport -----------------------------
(***************************************************************************)
(* The news pipeline of the Telegram bot (services/telegram_bot/news and   *)
(* state): an hourly cycle reads the sources, reserves new articles in the *)
(* SentNewsTracker and appends them to the NewsReportQueue; four times a   *)
(* day a report takes a snapshot of the queue, judges each market, sends   *)
(* the chosen sections and drops their articles from the queue.            *)
(*                                                                         *)
(* Everything runs in one asyncio process, so tasks interleave only where  *)
(* they wait: for the network, for Telegram, for a file that a thread      *)
(* writes, or for an asyncio.Lock.  A lock is served in the order it was   *)
(* asked for: `line` is the line at the queue's lock, its head holds it;   *)
(* `saving` is the task that holds the tracker's lock during a write.      *)
(* Code between two waits is one step.  The queue and the memory change    *)
(* under their lock together with their file or not at all, so one         *)
(* variable stands for both; the tracker's file lags behind its memory.    *)
(*                                                                         *)
(* Left out: the age limit of the sent index (7 days), because only        *)
(* articles younger than 48 hours are collected; what the language model,  *)
(* the prefilter and the public pages make of the articles.                *)
(***************************************************************************)
EXTENDS Naturals, FiniteSets, Sequences, Functions

CONSTANTS
  Articles, Markets, Sources,
  MarketOf,        \* MarketOf[a]: the market a queue item is filed under
  EventOf,         \* EventOf[a]: the event the prefilter saw in it, or NoEvent
  NoEvent,
  Untitled,        \* articles without a title: only queues of older versions hold them
  AlwaysPublish,   \* NEWS_REPORT_ALWAYS_PUBLISH_MARKETS
  PerSource,       \* NEWS_REPORT_QUEUE_PER_SOURCE_LIMIT
  MaxItems,        \* NEWS_REPORT_QUEUE_MAX_ITEMS
  MinArticles,     \* NEWS_REPORT_MIN_ARTICLES
  MaxCrashes,      \* bound: restarts of the bot
  MaxFaults,       \* bound: file writes that raise and answers that get lost
  AnswersGetLost   \* whether Telegram may deliver a section and send_message raise

ASSUME NewsAssumption ==
  /\ IsFiniteSet(Articles)
  /\ MarketOf \in [Articles -> Markets]
  /\ Untitled \subseteq Articles
  /\ AlwaysPublish \subseteq Markets
  /\ "report" \notin Sources
  /\ PerSource \in Nat
  /\ MaxItems \in Nat \ {0}
  /\ MinArticles \in Nat
  /\ MaxCrashes \in Nat
  /\ MaxFaults \in Nat
  /\ AnswersGetLost \in BOOLEAN

VARIABLES
  queue,       \* news_report_queue.json, oldest first
  line,        \* tasks at the queue's lock, the holder first
  sent,        \* SentNewsTracker._id_ts
  pending,     \* SentNewsTracker._pending
  sentFile,    \* sent_ids.json
  saving,      \* the task that writes sent_ids.json under the tracker's lock
  cycle,       \* collect_report_articles
  collector,   \* collector[s]: collect_report_source of source s
  report,      \* _send_news_report
  memory,      \* memory[m]: news_report_memory.json
  crashes, faults,
  \* history
  told,        \* articles of sections that reached the chat
  doubt,       \* told by a report that ended before it dropped them
  trimmed      \* accepted and pushed out by the limit of the queue

tracker == <<sent, pending, sentFile, saving>>
bounds == <<crashes, faults>>
history == <<told, doubt, trimmed>>
vars == <<queue, line, tracker, cycle, collector, report, memory, bounds, history>>

-----------------------------------------------------------------------------
Waiting == Range(queue)

Of(set, m) == {a \in set : MarketOf[a] = m}

(* The articles of the markets this run has chosen to publish *)
Chosen == {a \in report.items : MarketOf[a] \in report.chosen}

IdleReport == [pc |-> "idle", items |-> {}, todo |-> {}, market |-> "none", chosen |-> {},
               worded |-> {}, out |-> {}, posted |-> {}]
IdleCollector == [pc |-> "idle", ids |-> {}]

At(step) == report.pc = step

(* asyncio.Lock: asking puts a task at the end of the line, release serves the next *)
Holds(task) == line # <<>> /\ Head(line) = task
LeaveLine == line' = Tail(line)

(* The tracker's lock is held over nothing but its own file write *)
TrackerFree == saving = "none"

Fault == faults < MaxFaults /\ faults' = faults + 1

(* NEWS_REPORT_MAX_HELD_HOURS have passed since the market was published or first held *)
MustPublish(m) == memory[m].age = "over"

(* A run that ends without dropping what it told leaves it to the next run *)
EndEarly ==
  /\ report' = IdleReport
  /\ doubt' = doubt \cup (told \cap report.items)

-----------------------------------------------------------------------------
(* A queue file of an older version may hold articles without a title. *)
Init ==
  /\ queue \in {<<>>} \cup {<<u>> : u \in Untitled}
  /\ line = <<>>
  /\ sent = {} /\ pending = {} /\ sentFile = {} /\ saving = "none"
  /\ cycle = "idle"
  /\ collector = [s \in Sources |-> IdleCollector]
  /\ report = IdleReport
  /\ memory = [m \in Markets |-> [age |-> "new", text |-> FALSE]]
  /\ crashes = 0 /\ faults = 0
  /\ told = {} /\ doubt = {} /\ trimmed = {}

-----------------------------------------------------------------------------
(* Collection *)

(* registry.active_specs: any of the sources may be cooling down *)
StartCycle(specs) ==
  /\ cycle = "idle"
  /\ specs # {}
  /\ cycle' = "gather"
  /\ collector' = [s \in Sources |->
                     IF s \in specs THEN [pc |-> "look", ids |-> {}] ELSE IdleCollector]
  /\ UNCHANGED <<queue, line, tracker, report, memory, bounds, history>>

(* What is excluded is read before the source is asked *)
Look(s) ==
  /\ collector[s].pc = "look"
  /\ line = <<>> /\ TrackerFree
  /\ collector' = [collector EXCEPT ![s] = [pc |-> "fetch", ids |-> sent \cup pending]]
  /\ UNCHANGED <<queue, line, tracker, cycle, report, memory, bounds, history>>

(* SentNewsTracker.reserve, one candidate after the other *)
Reservable(candidates) == candidates \ (sent \cup pending)

(* The source answers (nothing, if it failed), the age limit and the prefilter *)
(* select, and what can be reserved lines up for the queue                     *)
Fetch(s, candidates) ==
  /\ collector[s].pc = "fetch"
  /\ TrackerFree
  /\ candidates \subseteq (Articles \ Untitled) \ collector[s].ids
  /\ Cardinality(candidates) <= PerSource
  /\ LET reserved == Reservable(candidates)
     IN  IF reserved = {}
         THEN /\ collector' = [collector EXCEPT ![s] = IdleCollector]
              /\ UNCHANGED <<line, pending>>
         ELSE /\ pending' = pending \cup reserved
              /\ collector' = [collector EXCEPT ![s] = [pc |-> "enqueue", ids |-> reserved]]
              /\ line' = Append(line, s)
  /\ UNCHANGED <<queue, sent, sentFile, saving, cycle, report, memory, bounds, history>>

SameEvent(a, b) == a # b /\ EventOf[a] = EventOf[b] /\ EventOf[a] # NoEvent

(* defect: only articles are told apart, not events *)
AcceptableByArticle(batch, accepted) == accepted = batch \ Waiting

(* enqueue goes through the batch in some order and passes over what is known *)
Acceptable(batch, accepted) ==
  LET known == Waiting \cup accepted
  IN  /\ accepted \subseteq batch \ Waiting
      /\ \A a \in accepted, b \in known : ~SameEvent(a, b)
      /\ \A a \in batch \ known : \E b \in known : SameEvent(a, b)

(* The newest MaxItems *)
Newest(items) ==
  IF Len(items) > MaxItems THEN SubSeq(items, Len(items) - MaxItems + 1, Len(items)) ELSE items

Orders(set) == {o \in [1..Cardinality(set) -> set] : Range(o) = set}

Enqueue(s) ==
  /\ Holds(s)
  /\ \E accepted \in SUBSET collector[s].ids : \E order \in Orders(accepted) :
       /\ Acceptable(collector[s].ids, accepted)
       /\ queue' = Newest(queue \o order)
       /\ trimmed' = trimmed \cup ((Waiting \cup accepted) \ Range(queue'))
       /\ collector' = [collector EXCEPT
                          ![s] = [pc |-> "release", ids |-> @.ids \ accepted]]
  /\ LeaveLine
  /\ UNCHANGED <<tracker, cycle, report, memory, bounds, told, doubt>>

(* The write raises: the queue is as before, all reservations are given back *)
EnqueueFails(s) ==
  /\ Holds(s)
  /\ ~Acceptable(collector[s].ids, {})
  /\ Fault
  /\ collector' = [collector EXCEPT ![s].pc = "release"]
  /\ LeaveLine
  /\ UNCHANGED <<queue, tracker, cycle, report, memory, crashes, history>>

(* defect: reservations that led to nothing are kept *)
ReleaseNothing(s) ==
  /\ collector[s].pc = "release"
  /\ TrackerFree
  /\ collector' = [collector EXCEPT ![s] = IdleCollector]
  /\ UNCHANGED <<queue, line, tracker, cycle, report, memory, bounds, history>>

Release(s) ==
  /\ collector[s].pc = "release"
  /\ TrackerFree
  /\ pending' = pending \ collector[s].ids
  /\ collector' = [collector EXCEPT ![s] = IdleCollector]
  /\ UNCHANGED <<queue, line, sent, sentFile, saving, cycle, report, memory, bounds, history>>

(* All sources are done: the tracker is saved *)
EndGather ==
  /\ cycle = "gather"
  /\ \A s \in Sources : collector[s] = IdleCollector
  /\ TrackerFree
  /\ cycle' = "save"
  /\ saving' = "cycle"
  /\ UNCHANGED <<queue, line, sent, pending, sentFile, collector, report, memory, bounds, history>>

EndCycle ==
  /\ saving = "cycle"
  /\ \/ sentFile' = sent /\ UNCHANGED faults
     \/ Fault /\ UNCHANGED sentFile
  /\ saving' = "none"
  /\ cycle' = "idle"
  /\ UNCHANGED <<queue, line, sent, pending, collector, report, memory, crashes, history>>

-----------------------------------------------------------------------------
(* Report *)

StartReport ==
  /\ At("idle")
  /\ line = <<>>
  /\ queue # <<>>
  /\ report' = [report EXCEPT !.pc = "judge", !.items = Waiting,
                              !.todo = {MarketOf[a] : a \in Waiting}]
  /\ UNCHANGED <<queue, line, tracker, cycle, collector, memory, bounds, history>>

(* Items without a title leave the queue before the market is judged *)
Clean(m) ==
  /\ At("judge")
  /\ m \in report.todo
  /\ Of(report.items, m) \cap Untitled # {}
  /\ report' = [report EXCEPT !.pc = "clean", !.market = m]
  /\ line' = Append(line, "report")
  /\ UNCHANGED <<queue, tracker, cycle, collector, memory, bounds, history>>

InOrder(q, p) ==
  \A i, j \in DOMAIN q :
    i < j => \E k, l \in DOMAIN p : k < l /\ p[k] = q[i] /\ p[l] = q[j]

(* The one sequence that is left when the articles of set go *)
Without(set) ==
  {q \in UNION {[1..n -> Waiting \ set] : n \in 0..Len(queue)} :
     Range(q) = Waiting \ set /\ InOrder(q, queue)}

(* Either way the run goes on without them *)
CleanDrop ==
  LET untitled == Of(report.items, report.market) \cap Untitled
  IN  /\ At("clean")
      /\ Holds("report")
      /\ \/ /\ queue' \in Without(untitled)
            /\ report' = [report EXCEPT !.pc = "unreserve"]
            /\ UNCHANGED faults
         \/ /\ untitled \cap Waiting # {}
            /\ Fault
            /\ report' = [report EXCEPT !.pc = "judge", !.items = @ \ untitled]
            /\ UNCHANGED queue
      /\ LeaveLine
      /\ UNCHANGED <<tracker, cycle, collector, memory, crashes, history>>

Unreserve ==
  LET untitled == Of(report.items, report.market) \cap Untitled
  IN  /\ At("unreserve")
      /\ TrackerFree
      /\ pending' = pending \ untitled
      /\ report' = [report EXCEPT !.pc = "judge", !.items = @ \ untitled]
      /\ UNCHANGED <<queue, line, sent, sentFile, saving, cycle, collector, memory, bounds, history>>

Judging(m) ==
  /\ At("judge")
  /\ m \in report.todo
  /\ Of(report.items, m) \cap Untitled = {}

(* Nothing but items without a title *)
SkipMarket(m) ==
  /\ Judging(m)
  /\ Of(report.items, m) = {}
  /\ report' = [report EXCEPT !.todo = @ \ {m}]
  /\ UNCHANGED <<queue, line, tracker, cycle, collector, memory, bounds, history>>

Thin(m) == Cardinality(Of(report.items, m)) < MinArticles /\ ~MustPublish(m)

Judged(m) == Judging(m) /\ Of(report.items, m) # {} /\ ~Thin(m)

(* defect: only a publication starts the clock of a market *)
RecordHeldTimeless(m) ==
  /\ report' = [report EXCEPT !.todo = @ \ {m}]
  /\ UNCHANGED <<queue, line, tracker, cycle, collector, memory, bounds, history>>

(* record_held: held_since is set once; a failed write is only logged *)
RecordHeld(m) ==
  /\ report' = [report EXCEPT !.todo = @ \ {m}]
  /\ \/ /\ memory' = [memory EXCEPT ![m].age = IF @ = "new" THEN "held" ELSE @]
        /\ UNCHANGED faults
     \/ Fault /\ UNCHANGED memory
  /\ UNCHANGED <<queue, line, tracker, cycle, collector, crashes, history>>

HoldThin(m) == Judging(m) /\ Of(report.items, m) # {} /\ Thin(m) /\ RecordHeld(m)

(* The analysis failed *)
HoldFailed(m) == Judged(m) /\ ~MustPublish(m) /\ RecordHeld(m)

(* The model found nothing new *)
HoldJudged(m) ==
  /\ Judged(m)
  /\ ~MustPublish(m)
  /\ m \notin AlwaysPublish
  /\ RecordHeld(m)

(* The text repeats the last one: held even when the hours are over *)
HoldRepeat(m) == Judged(m) /\ memory[m].text /\ RecordHeld(m)

(* The section has an analysis; or only highlights, or, when the analysis failed *)
(* and the market must be published, only titles                                 *)
Choose(m, worded) ==
  /\ Judged(m)
  /\ report' = [report EXCEPT !.todo = @ \ {m}, !.chosen = @ \cup {m},
                              !.worded = IF worded THEN @ \cup {m} ELSE @]
  /\ UNCHANGED <<queue, line, tracker, cycle, collector, memory, bounds, history>>

NothingToSay ==
  /\ At("judge")
  /\ report.todo = {} /\ report.chosen = {}
  /\ EndEarly
  /\ UNCHANGED <<queue, line, tracker, cycle, collector, memory, bounds, told, trimmed>>

StartPosting ==
  /\ At("judge")
  /\ report.todo = {} /\ report.chosen # {}
  /\ report' = [report EXCEPT !.pc = "post", !.out = report.chosen]
  /\ UNCHANGED <<queue, line, tracker, cycle, collector, memory, bounds, history>>

(* send_message of a chunk, one section at a time *)
Post(m) ==
  /\ At("post")
  /\ m \in report.out
  /\ told' = told \cup Of(report.items, m)
  /\ report' = [report EXCEPT !.out = @ \ {m}, !.posted = @ \cup {m}]
  /\ UNCHANGED <<queue, line, tracker, cycle, collector, memory, bounds, doubt, trimmed>>

PostFails(m) ==
  /\ At("post")
  /\ m \in report.out
  /\ report' = [report EXCEPT !.out = @ \ {m}]
  /\ UNCHANGED <<queue, line, tracker, cycle, collector, memory, bounds, history>>

(* Telegram delivers it and the call raises, a timeout *)
PostAnswerLost(m) ==
  /\ At("post")
  /\ m \in report.out
  /\ AnswersGetLost
  /\ Fault
  /\ told' = told \cup Of(report.items, m)
  /\ report' = [report EXCEPT !.out = @ \ {m}]
  /\ UNCHANGED <<queue, line, tracker, cycle, collector, memory, crashes, doubt, trimmed>>

(* Not one section went out: queue and reservations stay for the next run *)
NothingPosted ==
  /\ At("post")
  /\ report.out = {} /\ report.posted = {}
  /\ EndEarly
  /\ UNCHANGED <<queue, line, tracker, cycle, collector, memory, bounds, told, trimmed>>

(* defect: the queue is emptied before the articles are confirmed *)
ConfirmLate ==
  /\ At("post")
  /\ report.out = {} /\ report.posted # {}
  /\ report' = [report EXCEPT !.pc = "drop"]
  /\ line' = Append(line, "report")
  /\ pending' = pending \ Chosen
  /\ UNCHANGED <<queue, sent, sentFile, saving, cycle, collector, memory, bounds, history>>

(* confirm each article of the chosen markets, then take the lock to save *)
Confirm ==
  /\ At("post")
  /\ report.out = {} /\ report.posted # {}
  /\ TrackerFree
  /\ pending' = pending \ Chosen
  /\ sent' = sent \cup Chosen
  /\ saving' = "report"
  /\ report' = [report EXCEPT !.pc = "save"]
  /\ UNCHANGED <<queue, line, sentFile, cycle, collector, memory, bounds, history>>

Save ==
  /\ At("save")
  /\ sentFile' = sent
  /\ saving' = "none"
  /\ report' = [report EXCEPT !.pc = "drop"]
  /\ line' = Append(line, "report")
  /\ UNCHANGED <<queue, sent, pending, cycle, collector, memory, bounds, history>>

(* The write raises and the run ends; the queue still holds what was sent *)
SaveFails ==
  /\ At("save")
  /\ Fault
  /\ saving' = "none"
  /\ EndEarly
  /\ UNCHANGED <<queue, line, sent, pending, sentFile, cycle, collector, memory, crashes, told, trimmed>>

(* defect: the whole snapshot is dropped, held markets included *)
DropAll ==
  /\ At("drop")
  /\ Holds("report")
  /\ queue' \in Without(report.items)
  /\ report' = [report EXCEPT !.pc = "record", !.items = {}]
  /\ LeaveLine
  /\ UNCHANGED <<tracker, cycle, collector, memory, bounds, history>>

Drop ==
  /\ At("drop")
  /\ Holds("report")
  /\ queue' \in Without(Chosen)
  /\ report' = [report EXCEPT !.pc = "record", !.items = {}]
  /\ LeaveLine
  /\ UNCHANGED <<tracker, cycle, collector, memory, bounds, history>>

DropFails ==
  /\ At("drop")
  /\ Holds("report")
  /\ Chosen \cap Waiting # {}
  /\ Fault
  /\ EndEarly
  /\ LeaveLine
  /\ UNCHANGED <<queue, tracker, cycle, collector, memory, crashes, told, trimmed>>

(* record_published of one market; a failed write is only logged *)
RecordPublished(m) ==
  /\ At("record")
  /\ m \in report.chosen
  /\ \/ /\ memory' = [memory EXCEPT ![m] = [age |-> "held", text |-> m \in report.worded]]
        /\ UNCHANGED faults
     \/ Fault /\ UNCHANGED memory
  /\ report' = [report EXCEPT !.chosen = @ \ {m}]
  /\ UNCHANGED <<queue, line, tracker, cycle, collector, crashes, history>>

EndReport ==
  /\ At("record")
  /\ report.chosen = {}
  /\ report' = IdleReport
  /\ UNCHANGED <<queue, line, tracker, cycle, collector, memory, bounds, history>>

-----------------------------------------------------------------------------
(* Surroundings *)

(* The hours pass: "held" counts from the publication, or from the first hold *)
HoursPass(m) ==
  /\ memory[m].age = "held"
  /\ memory' = [memory EXCEPT ![m].age = "over"]
  /\ UNCHANGED <<queue, line, tracker, cycle, collector, report, bounds, history>>

(* The process ends at any point and starts again from its files *)
Restart ==
  /\ crashes < MaxCrashes
  /\ crashes' = crashes + 1
  /\ line' = <<>>
  /\ sent' = sentFile /\ pending' = {} /\ saving' = "none"
  /\ cycle' = "idle"
  /\ collector' = [s \in Sources |-> IdleCollector]
  /\ EndEarly
  /\ UNCHANGED <<queue, sentFile, memory, faults, told, trimmed>>

Collect(s) ==
  \/ Look(s)
  \/ \E candidates \in SUBSET Articles : Fetch(s, candidates)
  \/ Enqueue(s) \/ EnqueueFails(s)
  \/ Release(s)

Judge(m) ==
  \/ Clean(m) \/ SkipMarket(m)
  \/ HoldThin(m) \/ HoldFailed(m) \/ HoldJudged(m) \/ HoldRepeat(m)
  \/ \E worded \in BOOLEAN : Choose(m, worded)

Send(m) == Post(m) \/ PostFails(m) \/ PostAnswerLost(m)

(* What a report that has begun does next *)
ReportStep ==
  \/ CleanDrop \/ Unreserve
  \/ \E m \in Markets : Judge(m) \/ Send(m) \/ RecordPublished(m)
  \/ NothingToSay \/ StartPosting \/ NothingPosted
  \/ Confirm \/ Save \/ SaveFails \/ Drop \/ DropFails \/ EndReport

Cycle ==
  \/ \E specs \in SUBSET Sources : StartCycle(specs)
  \/ \E s \in Sources : Collect(s)
  \/ EndGather \/ EndCycle

Next == StartReport \/ ReportStep \/ Cycle \/ Restart \/ \E m \in Markets : HoursPass(m)

Spec == Init /\ [][Next]_vars

-----------------------------------------------------------------------------
(* The jobs come back: a report at its hours, however often it finds the queue *)
(* busy; Telegram accepts a section again and again; once a market must be     *)
(* published the model does not repeat its last text for ever.  A task that    *)
(* asked for a lock gets it.  Nothing makes a cycle start or a source answer.  *)
Fairness ==
  /\ SF_vars(StartReport) /\ SF_vars(ReportStep)
  /\ WF_vars(EndCycle)
  /\ \A m \in Markets :
       /\ WF_vars(HoursPass(m))
       /\ SF_vars(MustPublish(m) /\ \E worded \in BOOLEAN : Choose(m, worded))
       /\ SF_vars(Post(m))
  /\ \A s \in Sources : SF_vars(Enqueue(s) \/ EnqueueFails(s) \/ Release(s))

FairSpec == Spec /\ Fairness

-----------------------------------------------------------------------------
(* Properties *)

CollectorSteps == {"idle", "look", "fetch", "enqueue", "release"}
CollectorType == [pc : CollectorSteps, ids : SUBSET Articles]

ReportSteps == {"idle", "judge", "clean", "unreserve", "post", "save", "drop", "record"}
ReportType ==
  [pc : ReportSteps, items : SUBSET Articles, market : Markets \cup {"none"},
   todo : SUBSET Markets, chosen : SUBSET Markets, worded : SUBSET Markets,
   out : SUBSET Markets, posted : SUBSET Markets]

MemoryType == [age : {"new", "held", "over"}, text : BOOLEAN]

(* The shape of the queue, the tracker, the collectors and the report run. *)
TypeOK ==
  /\ queue \in Seq(Articles) /\ Len(queue) <= MaxItems
  /\ line \in Seq(Sources \cup {"report"})
  /\ sent \subseteq Articles /\ pending \subseteq Articles /\ sentFile \subseteq Articles
  /\ saving \in {"none", "cycle", "report"}
  /\ cycle \in {"idle", "gather", "save"}
  /\ collector \in [Sources -> CollectorType]
  /\ report \in ReportType
  /\ memory \in [Markets -> MemoryType]
  /\ crashes \in 0..MaxCrashes /\ faults \in 0..MaxFaults
  /\ told \subseteq Articles /\ doubt \subseteq Articles /\ trimmed \subseteq Articles

(* An article that reached the chat is in no later section: not when it is      *)
(* collected again while a report waits, not when a cycle that began before the *)
(* report ends after it, not after a restart that forgets the reservations.     *)
(* Only a report that ended between sending and dropping is told again.         *)
ToldOnce ==
  At("post") => \A m \in report.out : Of(report.items, m) \cap told \subseteq doubt

(* What the comment at report.py:668 wants: a section that went out is not sent *)
(* by the next run as well.                                                     *)
SentIsNotResent ==
  At("post") => \A m \in report.out : Of(report.items, m) \cap told = {}

(* Of the articles that several sources carry for one event, one waits. The     *)
(* sources are read at the same time and reserve before any of them sees the    *)
(* queue of the other.                                                          *)
OneArticlePerEvent == \A a, b \in Waiting : ~SameEvent(a, b)

(* Until the first restart a queued article is reserved or sent, so that no     *)
(* cycle collects it again.                                                     *)
ReservedUntilRestart ==
  crashes = 0 => Waiting \ Untitled \subseteq pending \cup sent

(* What the docstring of news_report_queue.py promises without that condition. *)
QueuedIsReserved == Waiting \ Untitled \subseteq pending \cup sent

(* A reservation is given back when its article does not get into the queue:    *)
(* what is reserved waits, is on its way, or was pushed out by the limit.       *)
ReservationsReturned ==
  pending \subseteq Waiting \cup trimmed
                    \cup UNION {collector[s].ids : s \in {t \in Sources :
                                  collector[t].pc \in {"enqueue", "release"}}}

(* Both: the queue and the tracker agree until a restart forgets reservations.  *)
ReservationsFit == ReservedUntilRestart /\ ReservationsReturned

(* An article leaves the queue because it was told, because the chunk that held *)
(* it failed while another went out, because a full queue makes room, or        *)
(* because it has no title: never because its market was held.                  *)
NothingVanishes ==
  [][\A a \in Waiting \ Range(queue') :
       \/ a \in told
       \/ report.posted # {} /\ MarketOf[a] \in report.chosen \ report.posted
       \/ Len(queue') = MaxItems
       \/ a \in Untitled]_vars

(* An article does not wait for ever, however thin the news of its market is    *)
(* and however often the model would rather hold it or fails.                   *)
NoneWaitsForEver == \A a \in Articles \ Untitled : a \in Waiting ~> a \notin Waiting

-----------------------------------------------------------------------------
(* The inductive invariant of ToldOnce *)

InLine(task) == task \in Range(line)

NoRepeat(tasks) == \A i, j \in DOMAIN tasks : tasks[i] = tasks[j] => i = j

(* The line holds each task that asked for the queue once. *)
LineOK ==
  /\ NoRepeat(line)
  /\ \A s \in Sources : InLine(s) <=> collector[s].pc = "enqueue"
  /\ InLine("report") <=> report.pc \in {"clean", "drop"}

(* Sources work only while a cycle gathers; it saves when they are done. *)
CycleOK ==
  /\ cycle # "gather" => \A s \in Sources : collector[s] = IdleCollector
  /\ cycle = "save" <=> saving = "cycle"

Bound(s) == IF collector[s].pc = "enqueue" THEN collector[s].ids ELSE {}

(* Sources that reserved an article before the report confirmed it asked for    *)
(* the queue before the report did.                                             *)
OrderOK ==
  At("drop") =>
    \A i \in DOMAIN line : line[i] \in Sources /\ Bound(line[i]) \cap Chosen # {}
                             => \E j \in DOMAIN line : j > i /\ line[j] = "report"

(* What is confirmed is in the tracker, and in its file when the report drops. *)
TrackerOK ==
  /\ sentFile \subseteq sent
  /\ At("save") => Chosen \subseteq sent
  /\ At("drop") => Chosen \subseteq sentFile
  /\ At("save") <=> saving = "report"

ReportOK ==
  /\ At("post") => report.out \subseteq report.chosen
  /\ At("idle") \/ At("record") => report.items = {}

(* An article that was told is in the posted part of the report under way, or   *)
(* it is gone and cannot come back.                                             *)
Gone(a) ==
  /\ a \notin Waiting /\ a \notin report.items
  /\ a \in sentFile
  /\ \A s \in Sources : a \notin Bound(s)

ToldOK ==
  \A a \in told \ doubt :
    \/ At("post") /\ a \in Chosen /\ MarketOf[a] \notin report.out
    \/ (At("save") \/ At("drop")) /\ a \in Chosen
    \/ Gone(a)

NewsInvariant == TypeOK /\ LineOK /\ CycleOK /\ OrderOK /\ TrackerOK /\ ReportOK /\ ToldOK
====

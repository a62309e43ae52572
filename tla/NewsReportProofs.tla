-------------------------- MODULE NewsReportProofs --------------------------
(***************************************************************************)
(* Proofs about the news pipeline for every set of articles, markets and   *)
(* sources, every limit, and every number of restarts and failed writes.   *)
(***************************************************************************)
EXTENDS NewsReport, FiniteSetTheorems, TLAPS

-----------------------------------------------------------------------------
(* What the sequences hold.                                                *)

LEMMA RestOfQueue ==
  ASSUME TypeOK, NEW set, NEW q \in Without(set)
  PROVE  q \in Seq(Articles) /\ Len(q) <= MaxItems /\ Range(q) = Waiting \ set
<1>1. PICK n \in 0..Len(queue) : q \in [1..n -> Waiting \ set]
  BY DEF Without
<1>2. n \in Nat /\ n <= MaxItems
  BY NewsAssumption DEF TypeOK
<1>3. Waiting \subseteq Articles
  BY DEF TypeOK, Waiting, Range
<1>4. q \in Seq(Articles) /\ Len(q) = n
  BY <1>1, <1>2, <1>3
<1> QED
  BY <1>2, <1>4 DEF Without

LEMMA OrderType ==
  ASSUME NEW set \in SUBSET Articles, NEW o \in Orders(set)
  PROVE  o \in Seq(Articles) /\ Range(o) = set
<1>1. Cardinality(set) \in Nat
  BY NewsAssumption, FS_Subset, FS_CardinalityType
<1> QED
  BY <1>1 DEF Orders

LEMMA RangeOfConcat ==
  ASSUME NEW p \in Seq(Articles), NEW q \in Seq(Articles)
  PROVE  Range(p \o q) \subseteq Range(p) \cup Range(q)
<1>1. ASSUME NEW i \in DOMAIN (p \o q)
      PROVE  (p \o q)[i] \in Range(p) \cup Range(q)
  <2>1. i \in 1..(Len(p) + Len(q))
    OBVIOUS
  <2>2. CASE i <= Len(p)
    BY <2>1, <2>2 DEF Range
  <2>3. CASE i > Len(p)
    <3>1. (p \o q)[i] = q[i - Len(p)] /\ i - Len(p) \in DOMAIN q
      BY <2>1, <2>3
    <3> QED
      BY <3>1 DEF Range
  <2> QED
    BY <2>1, <2>2, <2>3
<1> QED
  BY <1>1 DEF Range

LEMMA NewestOfQueue ==
  ASSUME NEW p \in Seq(Articles)
  PROVE  Newest(p) \in Seq(Articles) /\ Len(Newest(p)) <= MaxItems /\ Range(Newest(p)) \subseteq Range(p)
<1>1. CASE Len(p) > MaxItems
  <2> DEFINE first == Len(p) - MaxItems + 1
             q == SubSeq(p, first, Len(p))
  <2>1. first \in 1..Len(p) /\ Len(p) \in Nat /\ MaxItems \in Nat
    BY <1>1, NewsAssumption
  <2>2. q \in Seq(Articles) /\ Len(q) = MaxItems
    BY <2>1
  <2>3. \A i \in 1..Len(q) : q[i] = p[first + i - 1] /\ first + i - 1 \in DOMAIN p
    BY <2>1, <2>2
  <2>4. Range(q) \subseteq Range(p)
    BY <2>2, <2>3 DEF Range
  <2> QED
    BY <1>1, <2>1, <2>2, <2>4 DEF Newest
<1>2. CASE ~(Len(p) > MaxItems)
  BY <1>2, NewsAssumption DEF Newest
<1> QED
  BY <1>1, <1>2

-----------------------------------------------------------------------------
(* Types                                                                   *)

LEMMA RecordTypes ==
  /\ IdleReport \in ReportType
  /\ IdleCollector \in CollectorType
BY DEF IdleReport, IdleCollector, ReportType, ReportSteps, CollectorType, CollectorSteps

LEMMA ReportFields ==
  ASSUME TypeOK
  PROVE  /\ report.pc \in ReportSteps
         /\ report.items \subseteq Articles
         /\ report.todo \subseteq Markets /\ report.chosen \subseteq Markets
         /\ report.worded \subseteq Markets
         /\ report.out \subseteq Markets /\ report.posted \subseteq Markets
         /\ Chosen \subseteq Articles
BY DEF TypeOK, ReportType, Chosen

LEMMA CollectorFields ==
  ASSUME TypeOK, NEW s \in Sources
  PROVE  /\ collector[s].pc \in CollectorSteps
         /\ collector[s].ids \subseteq Articles
BY DEF TypeOK, CollectorType

LEMMA InitType == Init => TypeOK
<1> SUFFICES ASSUME Init PROVE TypeOK
  OBVIOUS
<1>1. queue \in Seq(Articles) /\ Len(queue) <= MaxItems
  <2>1. MaxItems \in Nat /\ 1 <= MaxItems
    BY NewsAssumption
  <2>2. CASE queue = <<>>
    BY <2>1, <2>2
  <2>3. ASSUME NEW u \in Untitled, queue = <<u>>
        PROVE  queue \in Seq(Articles) /\ Len(queue) <= MaxItems
    <3>1. u \in Articles
      BY NewsAssumption
    <3> QED
      BY <2>1, <2>3, <3>1
  <2> QED
    BY <2>2, <2>3 DEF Init
<1>2. memory \in [Markets -> MemoryType]
  BY DEF Init, MemoryType
<1>3. crashes \in 0..MaxCrashes /\ faults \in 0..MaxFaults
  BY NewsAssumption DEF Init
<1> QED
  BY <1>1, <1>2, <1>3, RecordTypes DEF Init, TypeOK

LEMMA FaultType ==
  ASSUME TypeOK, Fault
  PROVE  faults' \in 0..MaxFaults
BY NewsAssumption DEF TypeOK, Fault

LEMMA EndEarlyType ==
  ASSUME TypeOK, EndEarly
  PROVE  report' \in ReportType /\ doubt' \subseteq Articles
BY RecordTypes DEF TypeOK, EndEarly

LEMMA LineType ==
  ASSUME TypeOK
  PROVE  /\ \A task \in Sources \cup {"report"} :
              Append(line, task) \in Seq(Sources \cup {"report"})
         /\ line # <<>> => Tail(line) \in Seq(Sources \cup {"report"})
BY DEF TypeOK

(* What a collector adds to the queue was reserved by it. *)
LEMMA EnqueueEffect ==
  ASSUME TypeOK, NEW s \in Sources, Enqueue(s)
  PROVE  \E accepted \in SUBSET collector[s].ids :
           /\ queue' \in Seq(Articles) /\ Len(queue') <= MaxItems
           /\ Range(queue') \subseteq Waiting \cup accepted
           /\ Acceptable(collector[s].ids, accepted)
           /\ trimmed' = trimmed \cup ((Waiting \cup accepted) \ Range(queue'))
           /\ collector' = [collector EXCEPT ![s] = [pc |-> "release", ids |-> @.ids \ accepted]]
<1>1. PICK accepted \in SUBSET collector[s].ids : \E order \in Orders(accepted) :
        /\ Acceptable(collector[s].ids, accepted)
        /\ queue' = Newest(queue \o order)
        /\ trimmed' = trimmed \cup ((Waiting \cup accepted) \ Range(queue'))
        /\ collector' = [collector EXCEPT ![s] = [pc |-> "release", ids |-> @.ids \ accepted]]
  BY DEF Enqueue
<1>2. PICK order \in Orders(accepted) : queue' = Newest(queue \o order)
  BY <1>1
<1>3. order \in Seq(Articles) /\ Range(order) = accepted
  BY CollectorFields, OrderType
<1>4. queue \in Seq(Articles) /\ queue \o order \in Seq(Articles)
  BY <1>3 DEF TypeOK
<1>5. Range(queue \o order) \subseteq Waiting \cup accepted
  BY <1>3, <1>4, RangeOfConcat DEF Waiting
<1>6. /\ queue' \in Seq(Articles) /\ Len(queue') <= MaxItems
      /\ Range(queue') \subseteq Range(queue \o order)
  BY <1>2, <1>4, NewestOfQueue
<1> QED
  BY <1>1, <1>5, <1>6

LEMMA CollectType ==
  ASSUME TypeOK, NEW s \in Sources, Collect(s)
  PROVE  TypeOK'
<1>1. CASE Look(s)
  <2>1. [pc |-> "fetch", ids |-> sent \cup pending] \in CollectorType
    BY DEF TypeOK, CollectorType, CollectorSteps
  <2> QED
    BY <1>1, <2>1 DEF Look, TypeOK, tracker, bounds, history
<1>2. ASSUME NEW candidates \in SUBSET Articles, Fetch(s, candidates)
      PROVE  TypeOK'
  <2>1. Reservable(candidates) \subseteq Articles
    BY DEF Reservable
  <2>2. [pc |-> "enqueue", ids |-> Reservable(candidates)] \in CollectorType
    BY <2>1 DEF CollectorType, CollectorSteps
  <2>3. collector' \in [Sources -> CollectorType]
    BY <1>2, <2>2, RecordTypes DEF Fetch, TypeOK
  <2>4. pending' \subseteq Articles
    BY <1>2, <2>1 DEF Fetch, TypeOK
  <2>5. line' \in Seq(Sources \cup {"report"})
    BY <1>2, LineType DEF Fetch, TypeOK
  <2> QED
    BY <1>2, <2>3, <2>4, <2>5 DEF Fetch, TypeOK, bounds, history
<1>3. CASE Enqueue(s)
  <2>1. PICK accepted \in SUBSET collector[s].ids :
          /\ queue' \in Seq(Articles) /\ Len(queue') <= MaxItems
          /\ trimmed' = trimmed \cup ((Waiting \cup accepted) \ Range(queue'))
          /\ collector' = [collector EXCEPT ![s] = [pc |-> "release", ids |-> @.ids \ accepted]]
    BY <1>3, EnqueueEffect
  <2>2. accepted \subseteq Articles
    BY CollectorFields
  <2>4. Waiting \subseteq Articles
    BY DEF TypeOK, Waiting, Range
  <2>5. [pc |-> "release", ids |-> collector[s].ids \ accepted] \in CollectorType
    BY CollectorFields DEF CollectorType, CollectorSteps
  <2>6. collector' \in [Sources -> CollectorType]
    BY <2>1, <2>5 DEF TypeOK
  <2>7. line' \in Seq(Sources \cup {"report"})
    BY <1>3, LineType DEF Enqueue, Holds, LeaveLine
  <2>8. trimmed' \subseteq Articles
    BY <2>1, <2>2, <2>4 DEF TypeOK
  <2> QED
    BY <1>3, <2>1, <2>6, <2>7, <2>8 DEF Enqueue, TypeOK, tracker, bounds
<1>4. CASE EnqueueFails(s)
  <2>1. line' \in Seq(Sources \cup {"report"})
    BY <1>4, LineType DEF EnqueueFails, Holds, LeaveLine
  <2>2. [collector[s] EXCEPT !.pc = "release"] \in CollectorType
    BY DEF TypeOK, CollectorType, CollectorSteps
  <2>3. collector' \in [Sources -> CollectorType]
    BY <1>4, <2>2 DEF EnqueueFails, TypeOK
  <2> QED
    BY <1>4, <2>1, <2>3, FaultType DEF EnqueueFails, TypeOK, tracker, history
<1>5. CASE Release(s)
  BY <1>5, RecordTypes DEF Release, TypeOK, bounds, history
<1> QED
  BY <1>1, <1>2, <1>3, <1>4, <1>5 DEF Collect

LEMMA CycleType ==
  ASSUME TypeOK, Cycle
  PROVE  TypeOK'
<1>1. ASSUME NEW specs \in SUBSET Sources, StartCycle(specs)
      PROVE  TypeOK'
  <2>1. [pc |-> "look", ids |-> {}] \in CollectorType
    BY DEF CollectorType, CollectorSteps
  <2> QED
    BY <1>1, <2>1, RecordTypes DEF StartCycle, TypeOK, tracker, bounds, history
<1>2. CASE EndGather
  BY <1>2 DEF EndGather, TypeOK, bounds, history
<1>3. CASE EndCycle
  BY <1>3, FaultType DEF EndCycle, TypeOK, history
<1> QED
  BY <1>1, <1>2, <1>3, CollectType DEF Cycle

LEMMA RecordHeldType ==
  ASSUME TypeOK, NEW m \in Markets, RecordHeld(m)
  PROVE  TypeOK'
<1>1. report' \in ReportType
  BY DEF RecordHeld, TypeOK, ReportType
<1>2. [memory[m] EXCEPT !.age = IF @ = "new" THEN "held" ELSE @] \in MemoryType
  BY DEF TypeOK, MemoryType
<1>3. memory' \in [Markets -> MemoryType]
  BY <1>2 DEF RecordHeld, TypeOK
<1>4. faults' \in 0..MaxFaults
  BY FaultType DEF RecordHeld, TypeOK
<1> QED
  BY <1>1, <1>3, <1>4 DEF RecordHeld, TypeOK, tracker, history

LEMMA JudgeType ==
  ASSUME TypeOK, NEW m \in Markets, Judge(m)
  PROVE  TypeOK'
<1>1. CASE Clean(m)
  <2>1. report' \in ReportType
    BY <1>1 DEF Clean, TypeOK, ReportType, ReportSteps
  <2> QED
    BY <1>1, <2>1, LineType DEF Clean, TypeOK, tracker, bounds, history
<1>2. CASE SkipMarket(m)
  <2>1. report' \in ReportType
    BY <1>2 DEF SkipMarket, TypeOK, ReportType
  <2> QED
    BY <1>2, <2>1 DEF SkipMarket, TypeOK, tracker, bounds, history
<1>3. CASE HoldThin(m) \/ HoldFailed(m) \/ HoldJudged(m) \/ HoldRepeat(m)
  BY <1>3, RecordHeldType DEF HoldThin, HoldFailed, HoldJudged, HoldRepeat
<1>4. ASSUME NEW worded \in BOOLEAN, Choose(m, worded)
      PROVE  TypeOK'
  <2>1. report' \in ReportType
    BY <1>4 DEF Choose, TypeOK, ReportType
  <2> QED
    BY <1>4, <2>1 DEF Choose, TypeOK, tracker, bounds, history
<1> QED
  BY <1>1, <1>2, <1>3, <1>4 DEF Judge

LEMMA SendType ==
  ASSUME TypeOK, NEW m \in Markets, Send(m)
  PROVE  TypeOK'
<1>1. Of(report.items, m) \subseteq Articles
  BY ReportFields DEF Of
<1>2. CASE Post(m)
  <2>1. report' \in ReportType
    BY <1>2 DEF Post, TypeOK, ReportType
  <2> QED
    BY <1>1, <1>2, <2>1 DEF Post, TypeOK, tracker, bounds
<1>3. CASE PostFails(m)
  <2>1. report' \in ReportType
    BY <1>3 DEF PostFails, TypeOK, ReportType
  <2> QED
    BY <1>3, <2>1 DEF PostFails, TypeOK, tracker, bounds, history
<1>4. CASE PostAnswerLost(m)
  <2>1. report' \in ReportType
    BY <1>4 DEF PostAnswerLost, TypeOK, ReportType
  <2> QED
    BY <1>1, <1>4, <2>1, FaultType DEF PostAnswerLost, TypeOK, tracker
<1> QED
  BY <1>2, <1>3, <1>4 DEF Send

LEMMA RecordPublishedType ==
  ASSUME TypeOK, NEW m \in Markets, RecordPublished(m)
  PROVE  TypeOK'
<1>1. [age |-> "held", text |-> m \in report.worded] \in MemoryType
  BY DEF MemoryType
<1>2. memory' \in [Markets -> MemoryType]
  BY <1>1 DEF RecordPublished, TypeOK
<1>3. report' \in ReportType
  BY DEF RecordPublished, TypeOK, ReportType
<1> QED
  BY <1>2, <1>3, FaultType DEF RecordPublished, TypeOK, tracker, history

(* A run that stops at a list of steps only moves its counter.             *)
LEMMA StepType ==
  ASSUME TypeOK
  PROVE  /\ \A pc \in ReportSteps : [report EXCEPT !.pc = pc] \in ReportType
         /\ \A pc \in ReportSteps : [report EXCEPT !.pc = pc, !.items = {}] \in ReportType
         /\ \A pc \in ReportSteps :
              [report EXCEPT !.pc = pc, !.out = report.chosen] \in ReportType
BY DEF TypeOK, ReportType

LEMMA LessType ==
  ASSUME TypeOK, NEW set
  PROVE  [report EXCEPT !.pc = "judge", !.items = @ \ set] \in ReportType
BY DEF TypeOK, ReportType, ReportSteps

LEMMA StepNames ==
  /\ "judge" \in ReportSteps /\ "unreserve" \in ReportSteps /\ "post" \in ReportSteps
  /\ "save" \in ReportSteps /\ "drop" \in ReportSteps /\ "record" \in ReportSteps
BY DEF ReportSteps

LEMMA ReportStepType ==
  ASSUME TypeOK, ReportStep
  PROVE  TypeOK'
<1>1. CASE CleanDrop
  <2> DEFINE untitled == Of(report.items, report.market) \cap Untitled
  <2>1. report' \in ReportType
    <3>1. [report EXCEPT !.pc = "judge", !.items = @ \ untitled] \in ReportType
      BY LessType
    <3>2. [report EXCEPT !.pc = "unreserve"] \in ReportType
      BY StepType, StepNames
    <3> QED
      BY <1>1, <3>1, <3>2 DEF CleanDrop
  <2>2. queue' \in Seq(Articles) /\ Len(queue') <= MaxItems
    BY <1>1, RestOfQueue DEF CleanDrop, TypeOK
  <2>3. faults' \in 0..MaxFaults
    BY <1>1, FaultType DEF CleanDrop, TypeOK
  <2>4. line' \in Seq(Sources \cup {"report"})
    BY <1>1, LineType DEF CleanDrop, Holds, LeaveLine
  <2> QED
    BY <1>1, <2>1, <2>2, <2>3, <2>4 DEF CleanDrop, TypeOK, tracker, history
<1>2. CASE Unreserve
  <2>1. report' \in ReportType
    BY <1>2, LessType DEF Unreserve
  <2> QED
    BY <1>2, <2>1 DEF Unreserve, TypeOK, bounds, history
<1>3. ASSUME NEW m \in Markets, Judge(m) \/ Send(m) \/ RecordPublished(m)
      PROVE  TypeOK'
  BY <1>3, JudgeType, SendType, RecordPublishedType
<1>4. CASE NothingToSay
  BY <1>4, EndEarlyType DEF NothingToSay, TypeOK, tracker, bounds
<1>5. CASE StartPosting
  <2>1. report' \in ReportType
    BY <1>5, StepType, StepNames DEF StartPosting
  <2> QED
    BY <1>5, <2>1 DEF StartPosting, TypeOK, tracker, bounds, history
<1>6. CASE NothingPosted
  BY <1>6, EndEarlyType DEF NothingPosted, TypeOK, tracker, bounds
<1>7. CASE Confirm
  <2>1. report' \in ReportType
    BY <1>7, StepType, StepNames DEF Confirm
  <2> QED
    BY <1>7, <2>1, ReportFields DEF Confirm, TypeOK, bounds, history
<1>8. CASE Save
  <2>1. report' \in ReportType
    BY <1>8, StepType, StepNames DEF Save
  <2> QED
    BY <1>8, <2>1, LineType DEF Save, TypeOK, bounds, history
<1>9. CASE SaveFails
  BY <1>9, EndEarlyType, FaultType DEF SaveFails, TypeOK
<1>10. CASE Drop
  <2>1. report' \in ReportType
    BY <1>10, StepType, StepNames DEF Drop
  <2>2. queue' \in Seq(Articles) /\ Len(queue') <= MaxItems
    BY <1>10, RestOfQueue DEF Drop
  <2>3. line' \in Seq(Sources \cup {"report"})
    BY <1>10, LineType DEF Drop, Holds, LeaveLine
  <2> QED
    BY <1>10, <2>1, <2>2, <2>3 DEF Drop, TypeOK, tracker, bounds, history
<1>11. CASE DropFails
  <2>1. line' \in Seq(Sources \cup {"report"})
    BY <1>11, LineType DEF DropFails, Holds, LeaveLine
  <2> QED
    BY <1>11, <2>1, EndEarlyType, FaultType DEF DropFails, TypeOK, tracker
<1>12. CASE EndReport
  BY <1>12, RecordTypes DEF EndReport, TypeOK, tracker, bounds, history
<1> QED
  BY <1>1, <1>2, <1>3, <1>4, <1>5, <1>6, <1>7, <1>8, <1>9, <1>10, <1>11, <1>12 DEF ReportStep

LEMMA NextType ==
  ASSUME TypeOK, [Next]_vars
  PROVE  TypeOK'
<1>1. CASE StartReport
  <2>1. Waiting \subseteq Articles
    BY DEF TypeOK, Waiting, Range
  <2>2. {MarketOf[a] : a \in Waiting} \subseteq Markets
    BY <2>1, NewsAssumption
  <2>3. report' \in ReportType
    BY <1>1, <2>1, <2>2 DEF StartReport, TypeOK, ReportType, ReportSteps
  <2> QED
    BY <1>1, <2>3 DEF StartReport, TypeOK, tracker, bounds, history
<1>2. CASE ReportStep
  BY <1>2, ReportStepType
<1>3. CASE Cycle
  BY <1>3, CycleType
<1>4. CASE Restart
  <2>1. crashes' \in 0..MaxCrashes
    BY <1>4, NewsAssumption DEF Restart, TypeOK
  <2>2. line' \in Seq(Sources \cup {"report"})
    BY <1>4 DEF Restart
  <2> QED
    BY <1>4, <2>1, <2>2, EndEarlyType, RecordTypes DEF Restart, TypeOK
<1>5. ASSUME NEW m \in Markets, HoursPass(m)
      PROVE  TypeOK'
  <2>1. [memory[m] EXCEPT !.age = "over"] \in MemoryType
    BY DEF TypeOK, MemoryType
  <2>2. memory' \in [Markets -> MemoryType]
    BY <1>5, <2>1 DEF HoursPass, TypeOK
  <2> QED
    BY <1>5, <2>2 DEF HoursPass, TypeOK, tracker, bounds, history
<1>6. CASE UNCHANGED vars
  BY <1>6 DEF vars, TypeOK, tracker, bounds, history
<1> QED
  BY <1>1, <1>2, <1>3, <1>4, <1>5, <1>6 DEF Next

-----------------------------------------------------------------------------
(* The line at the queue                                                   *)

LEMMA Joining ==
  ASSUME NEW Tasks, NEW tasks \in Seq(Tasks), NEW task \in Tasks,
         NoRepeat(tasks), task \notin Range(tasks)
  PROVE  /\ NoRepeat(Append(tasks, task))
         /\ Range(Append(tasks, task)) = Range(tasks) \cup {task}
<1> DEFINE longer == Append(tasks, task)
<1>1. /\ Len(longer) = Len(tasks) + 1 /\ Len(tasks) \in Nat
      /\ DOMAIN longer = 1..Len(tasks) + 1 /\ DOMAIN tasks = 1..Len(tasks)
      /\ longer[Len(tasks) + 1] = task
      /\ \A i \in 1..Len(tasks) : longer[i] = tasks[i]
  OBVIOUS
<1>2. \A i \in 1..Len(tasks) : tasks[i] # task
  BY <1>1 DEF Range
<1>3. NoRepeat(longer)
  BY <1>1, <1>2 DEF NoRepeat
<1>4. Range(longer) = Range(tasks) \cup {task}
  BY <1>1 DEF Range
<1> QED
  BY <1>3, <1>4

LEMMA Leaving ==
  ASSUME NEW Tasks, NEW tasks \in Seq(Tasks), tasks # <<>>, NoRepeat(tasks)
  PROVE  /\ NoRepeat(Tail(tasks))
         /\ Range(Tail(tasks)) = Range(tasks) \ {Head(tasks)}
<1> DEFINE shorter == Tail(tasks)
<1>1. /\ Len(tasks) \in Nat \ {0} /\ DOMAIN tasks = 1..Len(tasks)
      /\ DOMAIN shorter = 1..Len(tasks) - 1
      /\ Head(tasks) = tasks[1]
      /\ \A i \in 1..Len(tasks) - 1 : shorter[i] = tasks[i + 1]
  OBVIOUS
<1>2. NoRepeat(shorter)
  <2>1. ASSUME NEW i \in 1..Len(tasks) - 1, NEW j \in 1..Len(tasks) - 1, shorter[i] = shorter[j]
        PROVE  i = j
    <3>1. i + 1 \in DOMAIN tasks /\ j + 1 \in DOMAIN tasks /\ tasks[i + 1] = tasks[j + 1]
      BY <1>1, <2>1
    <3>2. i + 1 = j + 1
      BY <3>1 DEF NoRepeat
    <3> QED
      BY <3>2, <1>1
  <2> QED
    BY <1>1, <2>1 DEF NoRepeat
<1>3. Range(shorter) \subseteq Range(tasks) \ {Head(tasks)}
  <2>1. ASSUME NEW i \in 1..Len(tasks) - 1
        PROVE  shorter[i] \in Range(tasks) \ {Head(tasks)}
    <3>1. i + 1 \in DOMAIN tasks /\ 1 \in DOMAIN tasks /\ i + 1 # 1 /\ shorter[i] = tasks[i + 1]
      BY <1>1
    <3>2. tasks[i + 1] # tasks[1]
      BY <3>1 DEF NoRepeat
    <3> QED
      BY <1>1, <3>1, <3>2 DEF Range
  <2> QED
    BY <1>1, <2>1 DEF Range
<1>4. Range(tasks) \ {Head(tasks)} \subseteq Range(shorter)
  <2>1. ASSUME NEW k \in 1..Len(tasks), tasks[k] # Head(tasks)
        PROVE  tasks[k] \in Range(shorter)
    <3>1. k - 1 \in 1..Len(tasks) - 1 /\ shorter[k - 1] = tasks[k]
      BY <1>1, <2>1
    <3> QED
      BY <1>1, <3>1 DEF Range
  <2> QED
    BY <1>1, <2>1 DEF Range
<1> QED
  BY <1>2, <1>3, <1>4

(* Steps that neither ask for the queue nor leave it.                      *)
LEMMA LineKept ==
  ASSUME LineOK, line' = line,
         \A s \in Sources : collector'[s].pc = "enqueue" <=> collector[s].pc = "enqueue",
         report'.pc \in {"clean", "drop"} <=> report.pc \in {"clean", "drop"}
  PROVE  LineOK'
BY DEF LineOK, InLine

LEMMA LineJoined ==
  ASSUME TypeOK, LineOK, NEW task \in Sources \cup {"report"}, ~InLine(task),
         line' = Append(line, task),
         \A s \in Sources : collector'[s].pc = "enqueue" <=> s = task \/ collector[s].pc = "enqueue",
         report'.pc \in {"clean", "drop"} <=> task = "report" \/ report.pc \in {"clean", "drop"}
  PROVE  LineOK'
<1>1. NoRepeat(line') /\ Range(line') = Range(line) \cup {task}
  BY Joining DEF TypeOK, LineOK, InLine
<1> QED
  BY <1>1 DEF LineOK, InLine

LEMMA LineLeft ==
  ASSUME TypeOK, LineOK, NEW task \in Sources \cup {"report"}, Holds(task), LeaveLine,
         \A s \in Sources : collector'[s].pc = "enqueue" <=> s # task /\ collector[s].pc = "enqueue",
         report'.pc \in {"clean", "drop"} <=> task # "report" /\ report.pc \in {"clean", "drop"}
  PROVE  LineOK'
<1>1. NoRepeat(line') /\ Range(line') = Range(line) \ {task}
  BY Leaving DEF TypeOK, LineOK, Holds, LeaveLine
<1> QED
  BY <1>1 DEF LineOK, InLine

LEMMA CollectLine ==
  ASSUME TypeOK, LineOK, NEW s \in Sources, Collect(s)
  PROVE  LineOK'
<1>0. s # "report" /\ collector \in [Sources -> CollectorType]
  BY NewsAssumption DEF TypeOK
<1>1. CASE Look(s)
  BY <1>0, <1>1, LineKept DEF Look
<1>2. ASSUME NEW candidates \in SUBSET Articles, Fetch(s, candidates)
      PROVE  LineOK'
  <2>1. collector[s].pc # "enqueue" /\ ~InLine(s)
    BY <1>2 DEF Fetch, LineOK
  <2>2. CASE Reservable(candidates) = {}
    <3>1. line' = line /\ report' = report /\ collector' = [collector EXCEPT ![s] = IdleCollector]
      BY <1>2, <2>2 DEF Fetch
    <3> QED
      BY <1>0, <2>1, <3>1, LineKept DEF IdleCollector
  <2>3. CASE Reservable(candidates) # {}
    <3>1. /\ line' = Append(line, s) /\ report' = report
          /\ collector' = [collector EXCEPT ![s] = [pc |-> "enqueue", ids |-> Reservable(candidates)]]
      BY <1>2, <2>3 DEF Fetch
    <3> QED
      BY <1>0, <2>1, <3>1, LineJoined
  <2> QED
    BY <2>2, <2>3
<1>3. CASE Enqueue(s)
  <2>1. PICK accepted \in SUBSET collector[s].ids :
          collector' = [collector EXCEPT ![s] = [pc |-> "release", ids |-> @.ids \ accepted]]
    BY <1>3, EnqueueEffect
  <2>2. Holds(s) /\ LeaveLine /\ report' = report
    BY <1>3 DEF Enqueue
  <2> QED
    BY <1>0, <2>1, <2>2, LineLeft
<1>4. CASE EnqueueFails(s)
  <2>1. /\ Holds(s) /\ LeaveLine /\ report' = report
        /\ collector' = [collector EXCEPT ![s].pc = "release"]
    BY <1>4 DEF EnqueueFails
  <2>2. \A t \in Sources : collector'[t].pc = "enqueue" <=> t # s /\ collector[t].pc = "enqueue"
    BY <1>0, <2>1 DEF CollectorType
  <2> QED
    BY <1>0, <2>1, <2>2, LineLeft
<1>5. CASE Release(s)
  BY <1>0, <1>5, LineKept DEF Release, IdleCollector
<1> QED
  BY <1>1, <1>2, <1>3, <1>4, <1>5 DEF Collect

LEMMA CycleLine ==
  ASSUME TypeOK, LineOK, CycleOK, Cycle
  PROVE  LineOK'
<1>1. ASSUME NEW specs \in SUBSET Sources, StartCycle(specs)
      PROVE  LineOK'
  BY <1>1, LineKept DEF StartCycle, CycleOK, IdleCollector
<1>2. CASE EndGather
  BY <1>2, LineKept DEF EndGather
<1>3. CASE EndCycle
  BY <1>3, LineKept DEF EndCycle
<1> QED
  BY <1>1, <1>2, <1>3, CollectLine DEF Cycle

(* A report asks for the queue when it cleans and when it has saved.       *)
LEMMA ReportLine ==
  ASSUME TypeOK, LineOK, ReportStep
  PROVE  LineOK'
<1>0. report \in ReportType /\ "report" \notin Sources
  BY NewsAssumption DEF TypeOK
<1>1. CASE CleanDrop
  <2>1. report'.pc \in {"unreserve", "judge"}
    BY <1>0, <1>1 DEF CleanDrop, ReportType
  <2> QED
    BY <1>0, <1>1, <2>1, LineLeft DEF CleanDrop
<1>2. CASE Unreserve
  <2>1. report.pc = "unreserve" /\ report'.pc = "judge"
    BY <1>0, <1>2 DEF Unreserve, ReportType, At
  <2> QED
    BY <1>2, <2>1, LineKept DEF Unreserve
<1>3. ASSUME NEW m \in Markets, Clean(m)
      PROVE  LineOK'
  <2>1. report.pc = "judge" /\ report'.pc = "clean"
    BY <1>0, <1>3 DEF Clean, ReportType, At
  <2>2. ~InLine("report")
    BY <2>1 DEF LineOK
  <2> QED
    BY <1>0, <1>3, <2>1, <2>2, LineJoined DEF Clean
<1>4. ASSUME NEW m \in Markets,
             \/ SkipMarket(m) \/ HoldThin(m) \/ HoldFailed(m) \/ HoldJudged(m) \/ HoldRepeat(m)
             \/ \E worded \in BOOLEAN : Choose(m, worded)
             \/ Send(m) \/ RecordPublished(m)
      PROVE  LineOK'
  <2>1. report'.pc = report.pc
    BY <1>0, <1>4 DEF SkipMarket, HoldThin, HoldFailed, HoldJudged, HoldRepeat, RecordHeld,
                      Choose, Send, Post, PostFails, PostAnswerLost, RecordPublished, ReportType
  <2>2. line' = line /\ collector' = collector
    BY <1>4 DEF SkipMarket, HoldThin, HoldFailed, HoldJudged, HoldRepeat, RecordHeld,
                Choose, Send, Post, PostFails, PostAnswerLost, RecordPublished
  <2> QED
    BY <2>1, <2>2, LineKept
<1>5. CASE NothingToSay \/ NothingPosted \/ SaveFails \/ EndReport
  <2>1. /\ report.pc \in {"judge", "post", "save", "record"} /\ report'.pc = "idle"
        /\ line' = line /\ collector' = collector
    BY <1>5 DEF NothingToSay, NothingPosted, SaveFails, EndReport, EndEarly, IdleReport, At
  <2> QED
    BY <2>1, LineKept
<1>6. CASE StartPosting \/ Confirm
  <2>1. /\ report.pc \in {"judge", "post"} /\ report'.pc \in {"post", "save"}
        /\ line' = line /\ collector' = collector
    BY <1>0, <1>6 DEF StartPosting, Confirm, At, ReportType
  <2> QED
    BY <2>1, LineKept
<1>7. CASE Save
  <2>1. report.pc = "save" /\ report'.pc = "drop"
    BY <1>0, <1>7 DEF Save, ReportType, At
  <2>2. ~InLine("report")
    BY <2>1 DEF LineOK
  <2> QED
    BY <1>0, <1>7, <2>1, <2>2, LineJoined DEF Save
<1>8. CASE Drop \/ DropFails
  <2>1. /\ report'.pc \in {"record", "idle"}
        /\ Holds("report") /\ LeaveLine /\ collector' = collector
    <3>1. CASE Drop
      BY <1>0, <3>1 DEF Drop, ReportType
    <3>2. CASE DropFails
      BY <3>2 DEF DropFails, EndEarly, IdleReport
    <3> QED
      BY <1>8, <3>1, <3>2
  <2> QED
    BY <1>0, <2>1, LineLeft
<1> QED
  BY <1>1, <1>2, <1>3, <1>4, <1>5, <1>6, <1>7, <1>8 DEF ReportStep, Judge

LEMMA NextLine ==
  ASSUME TypeOK, LineOK, CycleOK, [Next]_vars
  PROVE  LineOK'
<1>1. CASE StartReport
  <2>1. report.pc = "idle" /\ report'.pc = "judge"
    BY <1>1 DEF StartReport, TypeOK, ReportType, At
  <2> QED
    BY <1>1, <2>1, LineKept DEF StartReport
<1>2. CASE ReportStep
  BY <1>2, ReportLine
<1>3. CASE Cycle
  BY <1>3, CycleLine
<1>4. CASE Restart
  <2>1. line' = <<>> /\ report'.pc = "idle" /\ \A s \in Sources : collector'[s].pc = "idle"
    BY <1>4 DEF Restart, EndEarly, IdleReport, IdleCollector
  <2>2. Range(line') = {} /\ NoRepeat(line')
    BY <2>1 DEF Range, NoRepeat
  <2> QED
    BY <2>1, <2>2 DEF LineOK, InLine
<1>5. ASSUME NEW m \in Markets, HoursPass(m)
      PROVE  LineOK'
  BY <1>5, LineKept DEF HoursPass
<1>6. CASE UNCHANGED vars
  BY <1>6, LineKept DEF vars
<1> QED
  BY <1>1, <1>2, <1>3, <1>4, <1>5, <1>6 DEF Next

-----------------------------------------------------------------------------
(* What the steps do to the report run                                     *)

(* Steps on one market.                                                    *)
MarketStep(m) ==
  \/ Clean(m) \/ SkipMarket(m)
  \/ HoldThin(m) \/ HoldFailed(m) \/ HoldJudged(m) \/ HoldRepeat(m)
  \/ \E worded \in BOOLEAN : Choose(m, worded)

LEMMA MarketStepEffect ==
  ASSUME TypeOK, NEW m \in Markets, MarketStep(m)
  PROVE  /\ report.pc = "judge" /\ report'.pc \in {"judge", "clean"}
         /\ report'.items = report.items
         /\ UNCHANGED <<queue, tracker, cycle, collector, crashes, history>>
<1>0. report \in ReportType
  BY DEF TypeOK
<1>1. CASE Clean(m)
  BY <1>0, <1>1 DEF Clean, ReportType, At, bounds
<1>2. CASE SkipMarket(m)
  BY <1>0, <1>2 DEF SkipMarket, Judging, ReportType, At, bounds
<1>3. CASE HoldThin(m) \/ HoldFailed(m) \/ HoldJudged(m) \/ HoldRepeat(m)
  BY <1>0, <1>3 DEF HoldThin, HoldFailed, HoldJudged, HoldRepeat, RecordHeld, Judged, Judging,
                    ReportType, At
<1>4. ASSUME NEW worded \in BOOLEAN, Choose(m, worded)
      PROVE  /\ report.pc = "judge" /\ report'.pc \in {"judge", "clean"}
             /\ report'.items = report.items
             /\ UNCHANGED <<queue, tracker, cycle, collector, crashes, history>>
  BY <1>0, <1>4 DEF Choose, Judged, Judging, ReportType, At, bounds
<1> QED
  BY <1>1, <1>2, <1>3, <1>4 DEF MarketStep

LEMMA CleaningEffect ==
  ASSUME TypeOK, CleanDrop \/ Unreserve
  PROVE  /\ report.pc \in {"clean", "unreserve"} /\ report'.pc \in {"unreserve", "judge"}
         /\ report'.items \subseteq report.items
         /\ Range(queue') \subseteq Waiting
         /\ UNCHANGED <<sent, sentFile, saving, cycle, collector, history>>
<1>0. report \in ReportType
  BY DEF TypeOK
<1>1. CASE CleanDrop
  <2>1. CASE /\ queue' \in Without(Of(report.items, report.market) \cap Untitled)
             /\ report' = [report EXCEPT !.pc = "unreserve"]
    <3>1. Range(queue') \subseteq Waiting
      BY <2>1, RestOfQueue
    <3> QED
      BY <1>0, <1>1, <2>1, <3>1 DEF CleanDrop, ReportType, At, tracker
  <2>2. CASE /\ queue' = queue
             /\ report' = [report EXCEPT !.pc = "judge",
                             !.items = @ \ (Of(report.items, report.market) \cap Untitled)]
    BY <1>0, <1>1, <2>2 DEF CleanDrop, ReportType, At, tracker, Waiting
  <2> QED
    BY <1>1, <2>1, <2>2 DEF CleanDrop
<1>2. CASE Unreserve
  BY <1>0, <1>2 DEF Unreserve, ReportType, At, Waiting
<1> QED
  BY <1>1, <1>2

LEMMA EndEarlyEffect ==
  ASSUME EndEarly
  PROVE  /\ report'.pc = "idle" /\ report'.items = {}
         /\ told \ doubt' = (told \ doubt) \ report.items
<1>1. report'.pc = "idle" /\ report'.items = {}
  BY DEF EndEarly, IdleReport
<1>2. doubt' = doubt \cup (told \cap report.items)
  BY DEF EndEarly
<1> QED
  BY <1>1, <1>2

-----------------------------------------------------------------------------
(* Cycles and the tracker                                                  *)

LEMMA NextCycle ==
  ASSUME TypeOK, LineOK, CycleOK, TrackerOK, [Next]_vars
  PROVE  CycleOK'
<1>1. CASE StartReport
  BY <1>1 DEF StartReport, CycleOK, tracker
<1>2. CASE CleanDrop \/ Unreserve
  BY <1>2, CleaningEffect DEF CycleOK
<1>3. ASSUME NEW m \in Markets, MarketStep(m)
      PROVE  CycleOK'
  BY <1>3, MarketStepEffect DEF CycleOK, tracker
<1>4. ASSUME NEW m \in Markets, Send(m) \/ RecordPublished(m)
      PROVE  CycleOK'
  BY <1>4 DEF Send, Post, PostFails, PostAnswerLost, RecordPublished, CycleOK, tracker
<1>5. CASE NothingToSay \/ StartPosting \/ NothingPosted \/ Drop \/ DropFails \/ EndReport
  BY <1>5 DEF NothingToSay, StartPosting, NothingPosted, Drop, DropFails, EndReport, CycleOK, tracker
<1>6. CASE Confirm \/ Save \/ SaveFails
  BY <1>6 DEF Confirm, Save, SaveFails, CycleOK, TrackerOK, TrackerFree
<1>7. ASSUME NEW specs \in SUBSET Sources, StartCycle(specs)
      PROVE  CycleOK'
  BY <1>7 DEF StartCycle, CycleOK, tracker
<1>8. ASSUME NEW s \in Sources, Collect(s)
      PROVE  CycleOK'
  <2>1. collector[s].pc # "idle"
    <3>1. CASE Holds(s)
      <4>1. InLine(s)
        BY <3>1 DEF Holds, InLine, Range, TypeOK
      <4> QED
        BY <4>1 DEF LineOK
    <3>2. CASE ~Holds(s)
      BY <1>8, <3>2 DEF Collect, Look, Fetch, Enqueue, EnqueueFails, Release
    <3> QED
      BY <3>1, <3>2
  <2>2. cycle = "gather"
    BY <2>1 DEF CycleOK, IdleCollector
  <2>3. cycle' = cycle /\ saving' = saving
    BY <1>8 DEF Collect, Look, Fetch, Enqueue, EnqueueFails, Release, tracker
  <2> QED
    BY <2>2, <2>3 DEF CycleOK
<1>9. CASE EndGather \/ EndCycle
  BY <1>9 DEF EndGather, EndCycle, CycleOK, TrackerFree
<1>10. CASE Restart
  BY <1>10 DEF Restart, CycleOK
<1>11. ASSUME NEW m \in Markets, HoursPass(m)
       PROVE  CycleOK'
  BY <1>11 DEF HoursPass, CycleOK, tracker
<1>12. CASE UNCHANGED vars
  BY <1>12 DEF vars, CycleOK, tracker
<1> QED
  BY <1>1, <1>2, <1>3, <1>4, <1>5, <1>6, <1>7, <1>8, <1>9, <1>10, <1>11, <1>12
     DEF Next, ReportStep, Cycle, Judge, MarketStep

(* Steps of the collectors leave the tracker's file and the report alone.  *)
LEMMA CollectEffect ==
  ASSUME TypeOK, NEW s \in Sources, Collect(s)
  PROVE  UNCHANGED <<sent, sentFile, saving, cycle, report, told, doubt>>
<1>1. ASSUME NEW candidates \in SUBSET Articles, Fetch(s, candidates)
      PROVE  UNCHANGED <<sent, sentFile, saving, cycle, report, told, doubt>>
  BY <1>1 DEF Fetch, history
<1> QED
  BY <1>1 DEF Collect, Look, Enqueue, EnqueueFails, Release, tracker, history

LEMMA NextTracker ==
  ASSUME TypeOK, LineOK, CycleOK, TrackerOK, [Next]_vars
  PROVE  TrackerOK'
<1>0. report \in ReportType
  BY DEF TypeOK
<1>1. CASE StartReport
  BY <1>0, <1>1 DEF StartReport, TrackerOK, tracker, At, ReportType
<1>2. CASE CleanDrop \/ Unreserve
  BY <1>2, CleaningEffect DEF TrackerOK, At
<1>3. ASSUME NEW m \in Markets, MarketStep(m)
      PROVE  TrackerOK'
  BY <1>3, MarketStepEffect DEF TrackerOK, tracker, At
<1>4. ASSUME NEW m \in Markets, Send(m) \/ RecordPublished(m)
      PROVE  TrackerOK'
  <2>1. report.pc \in {"post", "record"} /\ report'.pc = report.pc
    BY <1>0, <1>4 DEF Send, Post, PostFails, PostAnswerLost, RecordPublished, ReportType, At
  <2>2. UNCHANGED tracker
    BY <1>4 DEF Send, Post, PostFails, PostAnswerLost, RecordPublished
  <2> QED
    BY <2>1, <2>2 DEF TrackerOK, tracker, At
<1>5. CASE NothingToSay \/ StartPosting \/ NothingPosted \/ Drop \/ DropFails \/ EndReport
  <2>1. /\ report.pc \in {"judge", "post", "drop", "record"}
        /\ report'.pc \in {"idle", "post", "record"}
    <3>1. CASE NothingToSay \/ NothingPosted \/ DropFails
      BY <3>1, EndEarlyEffect DEF NothingToSay, NothingPosted, DropFails, At
    <3>2. CASE StartPosting \/ Drop
      BY <1>0, <3>2 DEF StartPosting, Drop, ReportType, At
    <3>3. CASE EndReport
      BY <3>3 DEF EndReport, IdleReport, At
    <3> QED
      BY <1>5, <3>1, <3>2, <3>3
  <2>2. UNCHANGED tracker
    BY <1>5 DEF NothingToSay, StartPosting, NothingPosted, Drop, DropFails, EndReport
  <2> QED
    BY <2>1, <2>2 DEF TrackerOK, tracker, At
<1>6. CASE Confirm
  <2>1. /\ report.pc = "post" /\ report'.pc = "save" /\ Chosen' = Chosen
    BY <1>0, <1>6 DEF Confirm, Chosen, ReportType, At
  <2> QED
    BY <1>6, <2>1 DEF Confirm, TrackerOK, TrackerFree, At
<1>7. CASE Save
  <2>1. /\ report.pc = "save" /\ report'.pc = "drop" /\ Chosen' = Chosen
    BY <1>0, <1>7 DEF Save, Chosen, ReportType, At
  <2> QED
    BY <1>7, <2>1 DEF Save, TrackerOK, At
<1>8. CASE SaveFails
  BY <1>8, EndEarlyEffect DEF SaveFails, TrackerOK, At
<1>9. CASE EndGather
  BY <1>9 DEF EndGather, TrackerOK, TrackerFree, At, Chosen
<1>10. CASE EndCycle
  BY <1>10 DEF EndCycle, TrackerOK, At, Chosen
<1>11. ASSUME NEW s \in Sources, Collect(s)
       PROVE  TrackerOK'
  BY <1>11, CollectEffect DEF TrackerOK, At, Chosen
<1>12. ASSUME NEW specs \in SUBSET Sources, StartCycle(specs)
       PROVE  TrackerOK'
  BY <1>12 DEF StartCycle, TrackerOK, tracker, At, Chosen
<1>13. CASE Restart
  BY <1>13, EndEarlyEffect DEF Restart, TrackerOK, At
<1>14. ASSUME NEW m \in Markets, HoursPass(m)
       PROVE  TrackerOK'
  BY <1>14 DEF HoursPass, TrackerOK, tracker, At, Chosen
<1>15. CASE UNCHANGED vars
  BY <1>15 DEF vars, TrackerOK, tracker, At, Chosen
<1> QED
  BY <1>1, <1>2, <1>3, <1>4, <1>5, <1>6, <1>7, <1>8, <1>9, <1>10, <1>11, <1>12, <1>13, <1>14, <1>15
     DEF Next, ReportStep, Cycle, Judge, MarketStep

-----------------------------------------------------------------------------
(* The report run                                                          *)

LEMMA NextReport ==
  ASSUME TypeOK, ReportOK, [Next]_vars
  PROVE  ReportOK'
<1>0. report \in ReportType
  BY DEF TypeOK
<1>1. CASE StartReport
  BY <1>0, <1>1 DEF StartReport, ReportOK, At, ReportType
<1>2. CASE CleanDrop \/ Unreserve
  BY <1>2, CleaningEffect DEF ReportOK, At
<1>3. ASSUME NEW m \in Markets, MarketStep(m)
      PROVE  ReportOK'
  BY <1>3, MarketStepEffect DEF ReportOK, At
<1>4. ASSUME NEW m \in Markets, Send(m)
      PROVE  ReportOK'
  <2>1. /\ report'.pc = "post" /\ report'.out \subseteq report.out /\ report'.chosen = report.chosen
        /\ report.pc = "post"
    BY <1>0, <1>4 DEF Send, Post, PostFails, PostAnswerLost, ReportType, At
  <2> QED
    BY <2>1 DEF ReportOK, At
<1>5. ASSUME NEW m \in Markets, RecordPublished(m)
      PROVE  ReportOK'
  BY <1>0, <1>5 DEF RecordPublished, ReportOK, At, ReportType
<1>6. CASE NothingToSay \/ NothingPosted \/ DropFails \/ SaveFails \/ Restart
  BY <1>6, EndEarlyEffect DEF NothingToSay, NothingPosted, DropFails, SaveFails, Restart, ReportOK, At
<1>7. CASE StartPosting \/ Drop \/ EndReport
  <2>1. CASE StartPosting
    <3>1. report'.pc = "post" /\ report'.out = report.chosen /\ report'.chosen = report.chosen
      BY <1>0, <2>1 DEF StartPosting, ReportType
    <3> QED
      BY <3>1 DEF ReportOK, At
  <2>2. CASE Drop
    <3>1. report'.pc = "record" /\ report'.items = {}
      BY <1>0, <2>2 DEF Drop, ReportType
    <3> QED
      BY <3>1 DEF ReportOK, At
  <2>3. CASE EndReport
    <3>1. report'.pc = "idle" /\ report'.items = {}
      BY <2>3 DEF EndReport, IdleReport
    <3> QED
      BY <3>1 DEF ReportOK, At
  <2> QED
    BY <1>7, <2>1, <2>2, <2>3
<1>8. CASE Confirm \/ Save
  <2>1. report'.pc \in {"save", "drop"}
    BY <1>0, <1>8 DEF Confirm, Save, ReportType
  <2> QED
    BY <2>1 DEF ReportOK, At
<1>9. ASSUME NEW s \in Sources, Collect(s)
      PROVE  ReportOK'
  BY <1>9, CollectEffect DEF ReportOK, At
<1>10. ASSUME NEW specs \in SUBSET Sources, StartCycle(specs)
       PROVE  ReportOK'
  BY <1>10 DEF StartCycle, ReportOK, At
<1>11. CASE EndGather \/ EndCycle
  BY <1>11 DEF EndGather, EndCycle, ReportOK, At
<1>12. ASSUME NEW m \in Markets, HoursPass(m)
       PROVE  ReportOK'
  BY <1>12 DEF HoursPass, ReportOK, At
<1>13. CASE UNCHANGED vars
  BY <1>13 DEF vars, ReportOK, At
<1> QED
  BY <1>1, <1>2, <1>3, <1>4, <1>5, <1>6, <1>7, <1>8, <1>9, <1>10, <1>11, <1>12, <1>13
     DEF Next, ReportStep, Cycle, Judge, MarketStep

-----------------------------------------------------------------------------
(* The order at the queue's lock                                           *)

LEMMA OrderKept ==
  ASSUME TypeOK, OrderOK, report' = report,
         line' = line \/ (line # <<>> /\ line' = Tail(line)),
         \A t \in Sources : Bound(t)' \subseteq Bound(t)
  PROVE  OrderOK'
<1> SUFFICES ASSUME At("drop"), NEW i \in DOMAIN line', NEW t \in Sources, line'[i] = t,
                    Bound(t)' \cap Chosen # {}
             PROVE  \E j \in DOMAIN line' : j > i /\ line'[j] = "report"
  BY DEF OrderOK, At, Chosen, Bound
<1>0. line \in Seq(Sources \cup {"report"})
  BY DEF TypeOK
<1>1. Bound(t) \cap Chosen # {}
  OBVIOUS
<1>2. CASE line' = line
  BY <1>1, <1>2 DEF OrderOK
<1>3. CASE line # <<>> /\ line' = Tail(line)
  <2>1. i + 1 \in DOMAIN line /\ line[i + 1] = line'[i] /\ i \in Nat
    BY <1>0, <1>3
  <2>2. PICK j \in DOMAIN line : j > i + 1 /\ line[j] = "report"
    BY <1>1, <2>1 DEF OrderOK
  <2>3. j - 1 \in DOMAIN line' /\ line'[j - 1] = line[j] /\ j - 1 > i
    BY <1>0, <1>3, <2>1, <2>2
  <2> QED
    BY <2>2, <2>3
<1> QED
  BY <1>2, <1>3

(* What a source reserves while the report drops was not confirmed.        *)
LEMMA FetchOrder ==
  ASSUME TypeOK, LineOK, TrackerOK, OrderOK, NEW s \in Sources, NEW candidates \in SUBSET Articles,
         Fetch(s, candidates)
  PROVE  OrderOK'
<1>0. collector \in [Sources -> CollectorType] /\ line \in Seq(Sources \cup {"report"})
  BY DEF TypeOK
<1>1. report' = report
  BY DEF Fetch
<1>2. CASE Reservable(candidates) = {}
  <2>1. line' = line /\ collector' = [collector EXCEPT ![s] = IdleCollector]
    BY <1>2 DEF Fetch
  <2>2. \A t \in Sources : Bound(t)' \subseteq Bound(t)
    BY <1>0, <2>1 DEF Bound, IdleCollector
  <2> QED
    BY <1>1, <2>1, <2>2, OrderKept
<1>3. CASE Reservable(candidates) # {}
  <2>1. /\ line' = Append(line, s)
        /\ collector' = [collector EXCEPT ![s] = [pc |-> "enqueue", ids |-> Reservable(candidates)]]
    BY <1>3 DEF Fetch
  <2> SUFFICES ASSUME At("drop"), NEW i \in DOMAIN line', NEW t \in Sources, line'[i] = t,
                      Bound(t)' \cap Chosen # {}
               PROVE  \E j \in DOMAIN line' : j > i /\ line'[j] = "report"
    BY <1>1 DEF OrderOK, At, Chosen, Bound
  <2>2. t # s
    <3>1. SUFFICES ASSUME t = s
                   PROVE  FALSE
      OBVIOUS
    <3>2. Bound(t)' = Reservable(candidates)
      BY <1>0, <2>1, <3>1 DEF Bound
    <3>3. Chosen \subseteq sent
      BY DEF TrackerOK
    <3> QED
      BY <3>2, <3>3 DEF Reservable
  <2>3. i \in DOMAIN line /\ line[i] = t /\ i \in Nat
    BY <1>0, <2>1, <2>2
  <2>4. Bound(t)' = Bound(t)
    BY <1>0, <2>1, <2>2 DEF Bound
  <2>5. PICK j \in DOMAIN line : j > i /\ line[j] = "report"
    BY <2>3, <2>4 DEF OrderOK
  <2>6. j \in DOMAIN line' /\ line'[j] = line[j]
    BY <1>0, <2>1, <2>5
  <2> QED
    BY <2>5, <2>6
<1> QED
  BY <1>2, <1>3

LEMMA CollectOrder ==
  ASSUME TypeOK, LineOK, TrackerOK, OrderOK, NEW s \in Sources, Collect(s)
  PROVE  OrderOK'
<1>0. collector \in [Sources -> CollectorType]
  BY DEF TypeOK
<1>1. CASE Look(s)
  <2>1. \A t \in Sources : Bound(t)' \subseteq Bound(t)
    BY <1>0, <1>1 DEF Look, Bound
  <2> QED
    BY <1>1, <2>1, OrderKept DEF Look
<1>2. ASSUME NEW candidates \in SUBSET Articles, Fetch(s, candidates)
      PROVE  OrderOK'
  BY <1>2, FetchOrder
<1>3. CASE Enqueue(s)
  <2>1. collector'[s].pc = "release" /\ \A t \in Sources \ {s} : collector'[t] = collector[t]
    BY <1>0, <1>3 DEF Enqueue
  <2>2. \A t \in Sources : Bound(t)' \subseteq Bound(t)
    BY <2>1 DEF Bound
  <2> QED
    BY <1>3, <2>2, OrderKept DEF Enqueue, Holds, LeaveLine
<1>4. CASE EnqueueFails(s)
  <2>1. collector'[s].pc = "release" /\ \A t \in Sources \ {s} : collector'[t] = collector[t]
    BY <1>0, <1>4 DEF EnqueueFails, CollectorType
  <2>2. \A t \in Sources : Bound(t)' \subseteq Bound(t)
    BY <2>1 DEF Bound
  <2> QED
    BY <1>4, <2>2, OrderKept DEF EnqueueFails, Holds, LeaveLine
<1>5. CASE Release(s)
  <2>1. \A t \in Sources : Bound(t)' \subseteq Bound(t)
    BY <1>0, <1>5 DEF Release, Bound, IdleCollector
  <2> QED
    BY <1>5, <2>1, OrderKept DEF Release
<1> QED
  BY <1>1, <1>2, <1>3, <1>4, <1>5 DEF Collect

(* Every step of the report run but Save leaves "drop" or stays out of it. *)
LEMMA ReportStepOutsideDrop ==
  ASSUME TypeOK, ReportStep, ~Save
  PROVE  report'.pc # "drop"
<1>0. report \in ReportType
  BY DEF TypeOK
<1>1. CASE CleanDrop \/ Unreserve
  BY <1>1, CleaningEffect
<1>2. ASSUME NEW m \in Markets, MarketStep(m)
      PROVE  report'.pc # "drop"
  BY <1>2, MarketStepEffect
<1>3. ASSUME NEW m \in Markets, Send(m) \/ RecordPublished(m)
      PROVE  report'.pc # "drop"
  BY <1>0, <1>3 DEF Send, Post, PostFails, PostAnswerLost, RecordPublished, ReportType, At
<1>4. CASE NothingToSay \/ NothingPosted \/ DropFails \/ SaveFails
  BY <1>4, EndEarlyEffect DEF NothingToSay, NothingPosted, DropFails, SaveFails
<1>5. CASE StartPosting \/ Drop \/ Confirm
  BY <1>0, <1>5 DEF StartPosting, Drop, Confirm, ReportType
<1>6. CASE EndReport
  BY <1>6 DEF EndReport, IdleReport
<1> QED
  BY <1>1, <1>2, <1>3, <1>4, <1>5, <1>6 DEF ReportStep, Judge, MarketStep

LEMMA NextOrder ==
  ASSUME TypeOK, LineOK, CycleOK, TrackerOK, OrderOK, [Next]_vars
  PROVE  OrderOK'
<1>0. report \in ReportType /\ line \in Seq(Sources \cup {"report"}) /\ "report" \notin Sources
  BY NewsAssumption DEF TypeOK
<1>1. CASE Save
  <2>1. line' = Append(line, "report")
    BY <1>1 DEF Save
  <2>2. ASSUME NEW i \in DOMAIN line', line'[i] \in Sources
        PROVE  \E j \in DOMAIN line' : j > i /\ line'[j] = "report"
    <3>1. Len(line) + 1 \in DOMAIN line' /\ line'[Len(line) + 1] = "report" /\ i \in 1..Len(line) + 1
      BY <1>0, <2>1
    <3>2. i # Len(line) + 1
      BY <1>0, <2>2, <3>1
    <3>3. Len(line) + 1 > i
      BY <1>0, <3>1, <3>2
    <3> QED
      BY <3>1, <3>3
  <2> QED
    BY <2>2 DEF OrderOK
<1>2. CASE ReportStep /\ ~Save
  BY <1>2, ReportStepOutsideDrop DEF OrderOK, At
<1>3. CASE StartReport \/ Restart
  <2>1. report'.pc \in {"judge", "idle"}
    BY <1>0, <1>3, EndEarlyEffect DEF StartReport, Restart, ReportType
  <2> QED
    BY <2>1 DEF OrderOK, At
<1>4. ASSUME NEW s \in Sources, Collect(s)
      PROVE  OrderOK'
  BY <1>4, CollectOrder
<1>5. ASSUME NEW specs \in SUBSET Sources, StartCycle(specs)
      PROVE  OrderOK'
  <2>1. \A t \in Sources : collector'[t].pc \in {"look", "idle"}
    BY <1>5 DEF StartCycle, IdleCollector
  <2>2. \A t \in Sources : Bound(t)' \subseteq Bound(t)
    BY <2>1 DEF Bound
  <2> QED
    BY <1>5, <2>2, OrderKept DEF StartCycle
<1>6. CASE EndGather \/ EndCycle
  <2>1. UNCHANGED <<line, collector, report>>
    BY <1>6 DEF EndGather, EndCycle
  <2> QED
    BY <2>1, OrderKept DEF Bound
<1>7. ASSUME NEW m \in Markets, HoursPass(m)
      PROVE  OrderOK'
  BY <1>7, OrderKept DEF HoursPass, Bound
<1>8. CASE UNCHANGED vars
  BY <1>8, OrderKept DEF vars, Bound
<1> QED
  BY <1>1, <1>2, <1>3, <1>4, <1>5, <1>6, <1>7, <1>8 DEF Next, ReportStep, Cycle

-----------------------------------------------------------------------------
(* What was told is gone                                                   *)

LEMMA StaysGone ==
  ASSUME Range(queue') \subseteq Waiting, report'.items \subseteq report.items,
         sentFile \subseteq sentFile',
         \A s \in Sources : Bound(s)' \subseteq Bound(s)
  PROVE  \A a \in told \ doubt : Gone(a) => Gone(a)'
<1> SUFFICES ASSUME NEW a \in told \ doubt, Gone(a)
             PROVE  Gone(a)'
  OBVIOUS
<1>1. a \notin Range(queue') /\ a \notin report'.items /\ a \in sentFile'
  BY DEF Gone
<1>2. \A s \in Sources : a \notin Bound(s)'
  BY DEF Gone
<1> QED
  BY <1>1, <1>2 DEF Gone, Waiting

(* A step that leaves the report alone, or is taken before it posts or     *)
(* after it has dropped.                                                   *)
LEMMA ToldKept ==
  ASSUME ToldOK, told' \ doubt' \subseteq told \ doubt,
         \A a \in told \ doubt : Gone(a) => Gone(a)',
         report' = report \/ report.pc \notin {"post", "save", "drop"}
  PROVE  ToldOK'
<1> SUFFICES ASSUME NEW a \in told' \ doubt'
             PROVE  \/ At("post")' /\ a \in Chosen' /\ MarketOf[a] \notin report'.out
                    \/ (At("save")' \/ At("drop")') /\ a \in Chosen'
                    \/ Gone(a)'
  BY DEF ToldOK
<1>1. CASE Gone(a)
  BY <1>1
<1>2. CASE ~Gone(a)
  <2>1. /\ report' = report /\ a \in told \ doubt
    BY <1>2 DEF ToldOK, At
  <2>2. At("post")' = At("post") /\ At("save")' = At("save") /\ At("drop")' = At("drop") /\ Chosen' = Chosen
    BY <2>1 DEF At, Chosen
  <2> QED
    BY <1>2, <2>1, <2>2 DEF ToldOK
<1> QED
  BY <1>1, <1>2

(* A run that ends early leaves what it told in doubt.                     *)
LEMMA EndEarlyTold ==
  ASSUME ToldOK, EndEarly, told' = told, queue' = queue, sentFile' = sentFile,
         \A s \in Sources : Bound(s)' \subseteq Bound(s)
  PROVE  ToldOK'
<1>1. \A a \in told \ doubt : Gone(a) => Gone(a)'
  BY EndEarlyEffect, StaysGone DEF Waiting
<1>2. ASSUME NEW a \in told' \ doubt'
      PROVE  Gone(a)'
  <2>1. a \in told \ doubt /\ a \notin report.items
    BY <1>2, EndEarlyEffect
  <2>2. Gone(a)
    BY <2>1 DEF ToldOK, Chosen
  <2> QED
    BY <1>1, <2>1, <2>2
<1> QED
  BY <1>2 DEF ToldOK

(* When the report holds the queue, no source that reserved what it drops  *)
(* is still waiting for it.                                                *)
LEMMA DropTold ==
  ASSUME TypeOK, LineOK, TrackerOK, OrderOK, ToldOK, Drop
  PROVE  ToldOK'
<1>0. line \in Seq(Sources \cup {"report"}) /\ report \in ReportType
  BY DEF TypeOK
<1>1. /\ report.pc = "drop" /\ report'.items = {} /\ sentFile' = sentFile
      /\ told' = told /\ doubt' = doubt /\ collector' = collector
      /\ line # <<>> /\ line[1] = "report"
  BY <1>0 DEF Drop, At, Holds, ReportType, tracker, history
<1>2. Range(queue') \subseteq Waiting \ Chosen
  BY RestOfQueue DEF Drop
<1>3. ASSUME NEW a \in Chosen, NEW s \in Sources
      PROVE  a \notin Bound(s)
  <2> SUFFICES ASSUME a \in Bound(s)
               PROVE  FALSE
    OBVIOUS
  <2>1. InLine(s)
    BY DEF Bound, LineOK
  <2>2. PICK i \in DOMAIN line : line[i] = s
    BY <2>1 DEF InLine, Range
  <2>3. PICK j \in DOMAIN line : j > i /\ line[j] = "report"
    BY <1>1, <2>2 DEF OrderOK, At
  <2>4. 1 \in DOMAIN line /\ j = 1
    BY <1>0, <1>1, <2>3 DEF LineOK, NoRepeat
  <2> QED
    BY <1>0, <2>2, <2>3, <2>4
<1>4. ASSUME NEW a \in told' \ doubt'
      PROVE  Gone(a)'
  <2>1. a \in Chosen \/ Gone(a)
    BY <1>1, <1>4 DEF ToldOK, At
  <2>2. a \notin Range(queue')
    BY <1>2, <2>1 DEF Gone
  <2>3. a \in sentFile'
    BY <1>1, <2>1 DEF Gone, TrackerOK, At
  <2>4. \A s \in Sources : a \notin Bound(s)
    BY <1>3, <2>1 DEF Gone
  <2>5. \A s \in Sources : a \notin Bound(s)'
    BY <1>1, <2>4 DEF Bound
  <2> QED
    BY <1>1, <2>2, <2>3, <2>5 DEF Gone, Waiting
<1> QED
  BY <1>4 DEF ToldOK

LEMMA SendTold ==
  ASSUME TypeOK, ReportOK, ToldOK, NEW m \in Markets, Send(m)
  PROVE  ToldOK'
<1>0. report \in ReportType
  BY DEF TypeOK
<1>1. /\ report.pc = "post" /\ report'.pc = "post" /\ report'.items = report.items
      /\ report'.chosen = report.chosen /\ report'.out = report.out \ {m} /\ m \in report.out
      /\ UNCHANGED <<queue, sentFile, collector, doubt>>
      /\ told' \subseteq told \cup Of(report.items, m)
  BY <1>0 DEF Send, Post, PostFails, PostAnswerLost, ReportType, At, tracker, history
<1>2. \A a \in told \ doubt : Gone(a) => Gone(a)'
  BY <1>1, StaysGone DEF Bound, Waiting
<1>3. ASSUME NEW a \in told' \ doubt'
      PROVE  (a \in Chosen' /\ MarketOf[a] \notin report'.out) \/ Gone(a)'
  <2>1. CASE a \in Of(report.items, m)
    BY <1>1, <2>1 DEF Of, Chosen, ReportOK, At
  <2>2. CASE a \in told \ doubt
    <3>1. CASE Gone(a)
      BY <1>2, <2>2, <3>1
    <3>2. CASE ~Gone(a)
      <4>1. a \in Chosen /\ MarketOf[a] \notin report.out
        BY <1>1, <2>2, <3>2 DEF ToldOK, At
      <4> QED
        BY <1>1, <4>1 DEF Chosen
    <3> QED
      BY <3>1, <3>2
  <2> QED
    BY <1>1, <1>3, <2>1, <2>2
<1> QED
  BY <1>1, <1>3 DEF ToldOK, At

LEMMA CollectTold ==
  ASSUME TypeOK, LineOK, TrackerOK, ToldOK, NEW s \in Sources, Collect(s)
  PROVE  ToldOK'
<1>0. collector \in [Sources -> CollectorType]
  BY DEF TypeOK
<1>1. UNCHANGED <<sent, sentFile, saving, cycle, report, told, doubt>>
  BY CollectEffect
<1>2. SUFFICES ASSUME NEW a \in told \ doubt, Gone(a)
               PROVE  a \notin Range(queue') /\ \A t \in Sources : a \notin Bound(t)'
  <2>1. ASSUME NEW a \in told \ doubt, Gone(a)
        PROVE  Gone(a)'
    <3>1. a \notin Range(queue') /\ \A t \in Sources : a \notin Bound(t)'
      BY <1>2, <2>1
    <3>2. a \notin report'.items /\ a \in sentFile'
      BY <1>1, <2>1 DEF Gone
    <3> QED
      BY <3>1, <3>2 DEF Gone, Waiting
  <2> QED
    BY <1>1, <2>1, ToldKept
<1>3. /\ a \notin Waiting /\ a \in sent /\ \A t \in Sources : a \notin Bound(t)
  <2>1. a \notin Waiting /\ a \in sentFile /\ \A t \in Sources : a \notin Bound(t)
    BY <1>2 DEF Gone
  <2> QED
    BY <2>1 DEF TrackerOK
<1>4. CASE Look(s) \/ Release(s)
  <2>1. queue' = queue /\ collector'[s].pc \in {"fetch", "idle"}
        /\ \A t \in Sources \ {s} : collector'[t] = collector[t]
    BY <1>0, <1>4 DEF Look, Release, IdleCollector
  <2> QED
    BY <1>3, <2>1 DEF Bound, Waiting
<1>5. ASSUME NEW candidates \in SUBSET Articles, Fetch(s, candidates)
      PROVE  a \notin Range(queue') /\ \A t \in Sources : a \notin Bound(t)'
  <2>1. queue' = queue /\ collector'[s].ids \subseteq Reservable(candidates)
        /\ \A t \in Sources \ {s} : collector'[t] = collector[t]
    <3>1. CASE Reservable(candidates) = {}
      BY <1>0, <1>5, <3>1 DEF Fetch, IdleCollector
    <3>2. CASE Reservable(candidates) # {}
      BY <1>0, <1>5, <3>2 DEF Fetch
    <3> QED
      BY <3>1, <3>2
  <2>2. a \notin Reservable(candidates)
    BY <1>3 DEF Reservable
  <2> QED
    BY <1>3, <2>1, <2>2 DEF Bound, Waiting
<1>6. CASE Enqueue(s)
  <2>1. collector[s].pc = "enqueue"
    <3>1. InLine(s)
      BY <1>6 DEF Enqueue, Holds, InLine, Range, TypeOK
    <3> QED
      BY <3>1 DEF LineOK
  <2>2. PICK accepted \in SUBSET collector[s].ids :
          /\ Range(queue') \subseteq Waiting \cup accepted
          /\ collector' = [collector EXCEPT ![s] = [pc |-> "release", ids |-> @.ids \ accepted]]
    BY <1>6, EnqueueEffect
  <2>5. collector'[s].pc = "release" /\ \A t \in Sources \ {s} : collector'[t] = collector[t]
    BY <1>0, <2>2
  <2>6. a \notin accepted
    BY <1>3, <2>1 DEF Bound
  <2> QED
    BY <1>3, <2>2, <2>5, <2>6 DEF Bound
<1>7. CASE EnqueueFails(s)
  <2>1. queue' = queue /\ collector'[s].pc = "release"
        /\ \A t \in Sources \ {s} : collector'[t] = collector[t]
    BY <1>0, <1>7 DEF EnqueueFails, CollectorType
  <2> QED
    BY <1>3, <2>1 DEF Bound, Waiting
<1> QED
  BY <1>4, <1>5, <1>6, <1>7 DEF Collect

LEMMA NextTold ==
  ASSUME NewsInvariant, [Next]_vars
  PROVE  ToldOK'
<1>0. /\ TypeOK /\ LineOK /\ CycleOK /\ OrderOK /\ TrackerOK /\ ReportOK /\ ToldOK
      /\ report \in ReportType
  BY DEF NewsInvariant, TypeOK
<1>1. CASE StartReport
  <2>1. \A a \in told \ doubt : Gone(a) => Gone(a)'
    BY <1>0, <1>1 DEF StartReport, Gone, Bound, Waiting, tracker, history, ReportType
  <2> QED
    BY <1>0, <1>1, <2>1, ToldKept DEF StartReport, At, history
<1>2. CASE CleanDrop \/ Unreserve
  <2>1. \A a \in told \ doubt : Gone(a) => Gone(a)'
    BY <1>0, <1>2, CleaningEffect, StaysGone DEF Bound
  <2> QED
    BY <1>0, <1>2, <2>1, CleaningEffect, ToldKept DEF history
<1>3. ASSUME NEW m \in Markets, MarketStep(m)
      PROVE  ToldOK'
  <2>1. \A a \in told \ doubt : Gone(a) => Gone(a)'
    BY <1>0, <1>3, MarketStepEffect, StaysGone DEF Bound, Waiting, tracker
  <2> QED
    BY <1>0, <1>3, <2>1, MarketStepEffect, ToldKept DEF history
<1>4. ASSUME NEW m \in Markets, Send(m)
      PROVE  ToldOK'
  BY <1>0, <1>4, SendTold
<1>5. ASSUME NEW m \in Markets, RecordPublished(m)
      PROVE  ToldOK'
  <2>1. /\ report.pc = "record" /\ report'.items = report.items
        /\ UNCHANGED <<queue, sentFile, collector, told, doubt>>
    BY <1>0, <1>5 DEF RecordPublished, At, ReportType, tracker, history
  <2>2. \A a \in told \ doubt : Gone(a) => Gone(a)'
    BY <2>1, StaysGone DEF Bound, Waiting
  <2> QED
    BY <1>0, <2>1, <2>2, ToldKept
<1>6. CASE StartPosting \/ EndReport
  <2>1. /\ report.pc \in {"judge", "record"} /\ report'.items \subseteq report.items
        /\ UNCHANGED <<queue, sentFile, collector, told, doubt>>
    <3>1. CASE StartPosting
      BY <1>0, <3>1 DEF StartPosting, At, ReportType, tracker, history
    <3>2. CASE EndReport
      BY <3>2 DEF EndReport, IdleReport, At, tracker, history
    <3> QED
      BY <1>6, <3>1, <3>2
  <2>2. \A a \in told \ doubt : Gone(a) => Gone(a)'
    BY <2>1, StaysGone DEF Bound, Waiting
  <2> QED
    BY <1>0, <2>1, <2>2, ToldKept
<1>7. CASE NothingToSay \/ NothingPosted \/ SaveFails \/ DropFails
  <2>1. EndEarly /\ UNCHANGED <<queue, sentFile, collector, told>>
    BY <1>7 DEF NothingToSay, NothingPosted, SaveFails, DropFails, tracker
  <2> QED
    BY <1>0, <2>1, EndEarlyTold DEF Bound
<1>8. CASE Restart
  <2>1. EndEarly /\ UNCHANGED <<queue, sentFile, told>>
        /\ \A s \in Sources : collector'[s].pc = "idle"
    BY <1>8 DEF Restart, IdleCollector
  <2> QED
    BY <1>0, <2>1, EndEarlyTold DEF Bound
<1>9. CASE Confirm \/ Save
  <2>1. /\ report.pc \in {"post", "save"} /\ report'.pc \in {"save", "drop"}
        /\ report'.items = report.items /\ report'.chosen = report.chosen
        /\ sentFile \subseteq sentFile'
        /\ UNCHANGED <<queue, collector, told, doubt>>
    BY <1>0, <1>9 DEF Confirm, Save, At, ReportType, TrackerOK, history
  <2>2. \A a \in told \ doubt : Gone(a) => Gone(a)'
    BY <2>1, StaysGone DEF Bound, Waiting
  <2>3. Chosen' = Chosen
    BY <2>1 DEF Chosen
  <2> QED
    BY <1>0, <2>1, <2>2, <2>3 DEF ToldOK, At
<1>10. CASE Drop
  BY <1>0, <1>10, DropTold
<1>11. ASSUME NEW specs \in SUBSET Sources, StartCycle(specs)
       PROVE  ToldOK'
  <2>1. /\ \A s \in Sources : collector'[s].pc \in {"look", "idle"}
        /\ UNCHANGED <<queue, sentFile, report, told, doubt>>
    BY <1>11 DEF StartCycle, IdleCollector, tracker, history
  <2>2. \A a \in told \ doubt : Gone(a) => Gone(a)'
    BY <2>1, StaysGone DEF Bound, Waiting
  <2> QED
    BY <1>0, <2>1, <2>2, ToldKept
<1>12. ASSUME NEW s \in Sources, Collect(s)
       PROVE  ToldOK'
  BY <1>0, <1>12, CollectTold
<1>13. CASE EndGather \/ EndCycle
  <2>1. /\ sentFile \subseteq sentFile'
        /\ UNCHANGED <<queue, collector, report, told, doubt>>
    BY <1>0, <1>13 DEF EndGather, EndCycle, TrackerOK, history
  <2>2. \A a \in told \ doubt : Gone(a) => Gone(a)'
    BY <2>1, StaysGone DEF Bound, Waiting
  <2> QED
    BY <1>0, <2>1, <2>2, ToldKept
<1>14. ASSUME UNCHANGED <<queue, sentFile, collector, report, told, doubt>>
       PROVE  ToldOK'
  <2>1. \A a \in told \ doubt : Gone(a) => Gone(a)'
    BY <1>14, StaysGone DEF Bound, Waiting
  <2> QED
    BY <1>0, <1>14, <2>1, ToldKept
<1>15. ASSUME NEW m \in Markets, HoursPass(m)
       PROVE  ToldOK'
  BY <1>14, <1>15 DEF HoursPass, tracker, history
<1>16. CASE UNCHANGED vars
  BY <1>14, <1>16 DEF vars, tracker, history
<1> QED
  BY <1>1, <1>2, <1>3, <1>4, <1>5, <1>6, <1>7, <1>8, <1>9, <1>10, <1>11, <1>12, <1>13, <1>15, <1>16
     DEF Next, ReportStep, Cycle, Judge, MarketStep

-----------------------------------------------------------------------------
(* The theorems                                                            *)

LEMMA InitInvariant == Init => NewsInvariant
<1> SUFFICES ASSUME Init
             PROVE  NewsInvariant
  OBVIOUS
<1>1. TypeOK
  BY InitType
<1>2. /\ report.pc = "idle" /\ report.items = {} /\ told = {} /\ line = <<>>
      /\ \A s \in Sources : collector[s] = IdleCollector /\ collector[s].pc = "idle"
      /\ sentFile = sent /\ saving = "none" /\ cycle = "idle"
  BY DEF Init, IdleReport, IdleCollector
<1>3. Range(line) = {} /\ NoRepeat(line)
  BY <1>2 DEF Range, NoRepeat
<1>4. LineOK /\ CycleOK /\ OrderOK
  BY <1>2, <1>3 DEF LineOK, InLine, CycleOK, OrderOK, At
<1>5. TrackerOK /\ ReportOK /\ ToldOK
  BY <1>2 DEF TrackerOK, ReportOK, ToldOK, At
<1> QED
  BY <1>1, <1>4, <1>5 DEF NewsInvariant

(* Whatever the tasks of the bot do and wherever it restarts, what was told is  *)
(* either in the report under way or gone for good: out of the queue, in the    *)
(* sent index on disk and with no source that could bring it back.              *)
THEOREM NewsInvariantHolds == Spec => []NewsInvariant
<1>1. ASSUME NewsInvariant, [Next]_vars
      PROVE  NewsInvariant'
  <2>1. TypeOK /\ LineOK /\ CycleOK /\ OrderOK /\ TrackerOK /\ ReportOK /\ ToldOK
    BY <1>1 DEF NewsInvariant
  <2>2. TypeOK'
    BY <1>1, <2>1, NextType
  <2>3. LineOK' /\ CycleOK'
    BY <1>1, <2>1, NextLine, NextCycle
  <2>4. OrderOK' /\ TrackerOK'
    BY <1>1, <2>1, NextOrder, NextTracker
  <2>5. ReportOK' /\ ToldOK'
    BY <1>1, <2>1, NextReport, NextTold
  <2> QED
    BY <2>2, <2>3, <2>4, <2>5 DEF NewsInvariant
<1> QED
  BY <1>1, InitInvariant, PTL DEF Spec

(* The queue, the tracker, the collectors and the report run keep their shape;  *)
(* the queue never grows beyond NEWS_REPORT_QUEUE_MAX_ITEMS.                    *)
THEOREM NewsTypeCorrect == Spec => []TypeOK
<1>1. NewsInvariant => TypeOK
  BY DEF NewsInvariant
<1> QED
  BY <1>1, NewsInvariantHolds, PTL

(* An article that reached the chat is in no later section of a report, unless  *)
(* the report that sent it ended before it dropped it from the queue.           *)
THEOREM NeverToldTwice == Spec => []ToldOnce
<1>1. ASSUME NewsInvariant
      PROVE  ToldOnce
  <2> SUFFICES ASSUME At("post"), NEW m \in report.out,
                      NEW a \in Of(report.items, m), a \in told, a \notin doubt
               PROVE  FALSE
    BY DEF ToldOnce
  <2>1. a \in report.items /\ MarketOf[a] \in report.out
    BY DEF Of
  <2> QED
    BY <1>1, <2>1 DEF NewsInvariant, ToldOK, Gone, At
<1> QED
  BY <1>1, NewsInvariantHolds, PTL

-----------------------------------------------------------------------------
(***************************************************************************)
(* What the queue holds and what the tracker reserves.                     *)
(***************************************************************************)

(* The inductive invariant                                                 *)

(* What a source has reserved and not yet put in the queue or given back. *)
Reserving(s) == IF collector[s].pc \in {"enqueue", "release"} THEN collector[s].ids ELSE {}

(* Items without a title are of an older queue; what is sent is not reserved. *)
PendingOK == pending \cap Untitled = {} /\ pending \cap sent = {}

ReturnedOK ==
  \A a \in pending : a \in Waiting \cup trimmed \/ \E s \in Sources : a \in Reserving(s)

(* Until the first restart no two sources reserve the same article, and none *)
(* reserves an article that waits.                                           *)
ReservedOK ==
  crashes = 0 =>
    /\ Waiting \ Untitled \subseteq pending \cup sent
    /\ \A s \in Sources : Reserving(s) \subseteq pending \cup sent /\ Reserving(s) \cap Waiting = {}
    /\ \A s, t \in Sources : s # t => Reserving(s) \cap Reserving(t) = {}

(* A section that is posted was told; what is dropped follows a posted section. *)
PostedOK ==
  /\ At("idle") => report.posted = {}
  /\ At("save") \/ At("drop") => report.posted # {}
  /\ \A m \in report.posted : Of(report.items, m) \subseteq told

QueueInvariant == OneArticlePerEvent /\ PendingOK /\ ReturnedOK /\ ReservedOK /\ PostedOK

-----------------------------------------------------------------------------
(* Steps that leave the queue, the tracker and the collectors alone        *)

Reservations == <<queue, pending, sent, crashes, trimmed, collector>>

LEMMA Undisturbed ==
  ASSUME OneArticlePerEvent, PendingOK, ReturnedOK, ReservedOK, UNCHANGED Reservations
  PROVE  (OneArticlePerEvent /\ PendingOK /\ ReturnedOK /\ ReservedOK)'
<1>1. /\ queue' = queue /\ pending' = pending /\ sent' = sent
      /\ crashes' = crashes /\ trimmed' = trimmed /\ collector' = collector
  BY DEF Reservations
<1>2. Waiting' = Waiting /\ \A s \in Sources : Reserving(s)' = Reserving(s)
  BY <1>1 DEF Waiting, Reserving
<1>3. (\A a, b \in Waiting : ~SameEvent(a, b))'
  BY <1>2 DEF OneArticlePerEvent, SameEvent
<1>4. PendingOK' /\ ReturnedOK' /\ ReservedOK'
  BY <1>1, <1>2 DEF PendingOK, ReturnedOK, ReservedOK
<1> QED
  BY <1>3, <1>4 DEF OneArticlePerEvent

(* Articles leave the queue and nothing else of it changes: none of them may *)
(* still be reserved.                                                        *)
LEMMA Shrinking ==
  ASSUME OneArticlePerEvent, PendingOK, ReturnedOK, ReservedOK,
         Range(queue') \subseteq Waiting,
         (Waiting \ Range(queue')) \cap pending = {},
         UNCHANGED <<pending, sent, crashes, trimmed, collector>>
  PROVE  (OneArticlePerEvent /\ PendingOK /\ ReturnedOK /\ ReservedOK)'
<1>1. Waiting' \subseteq Waiting /\ (Waiting \ Waiting') \cap pending = {}
  BY DEF Waiting
<1>2. \A s \in Sources : Reserving(s)' = Reserving(s)
  BY DEF Reserving
<1>3. (\A a, b \in Waiting : ~SameEvent(a, b))'
  BY <1>1 DEF OneArticlePerEvent, SameEvent
<1>4. PendingOK' /\ ReturnedOK' /\ ReservedOK'
  BY <1>1, <1>2 DEF PendingOK, ReturnedOK, ReservedOK
<1> QED
  BY <1>3, <1>4 DEF OneArticlePerEvent

-----------------------------------------------------------------------------
(* Collection                                                              *)

LEMMA FetchReserves ==
  ASSUME TypeOK, OneArticlePerEvent, PendingOK, ReturnedOK, ReservedOK,
         NEW s \in Sources, NEW candidates \in SUBSET Articles, Fetch(s, candidates)
  PROVE  (OneArticlePerEvent /\ PendingOK /\ ReturnedOK /\ ReservedOK)'
<1> DEFINE reserved == Reservable(candidates)
<1>0. collector \in [Sources -> CollectorType] /\ collector[s].pc = "fetch"
  BY DEF TypeOK, Fetch
<1>1. /\ UNCHANGED <<queue, sent, crashes, trimmed>>
      /\ reserved \cap (sent \cup pending \cup Untitled) = {}
  BY DEF Fetch, bounds, history, Reservable
<1>2. /\ pending' = pending \cup reserved
      /\ \A t \in Sources : Reserving(t)' = IF t = s THEN reserved ELSE Reserving(t)
  <2>1. CASE reserved = {}
    <3>1. pending' = pending /\ collector' = [collector EXCEPT ![s] = IdleCollector]
      BY <2>1 DEF Fetch
    <3> QED
      BY <1>0, <2>1, <3>1 DEF Reserving, IdleCollector
  <2>2. CASE reserved # {}
    <3>1. /\ pending' = pending \cup reserved
          /\ collector' = [collector EXCEPT ![s] = [pc |-> "enqueue", ids |-> reserved]]
      BY <2>2 DEF Fetch
    <3> HIDE DEF reserved
    <3> QED
      BY <1>0, <3>1 DEF Reserving
  <2> QED
    BY <2>1, <2>2
<1> HIDE DEF reserved
<1>3. Reserving(s) = {} /\ Waiting' = Waiting
  BY <1>0, <1>1 DEF Reserving, Waiting
<1>4. (\A a, b \in Waiting : ~SameEvent(a, b))'
  BY <1>3 DEF OneArticlePerEvent, SameEvent
<1>5. PendingOK'
  BY <1>1, <1>2 DEF PendingOK
<1>6. ReturnedOK'
  BY <1>1, <1>2, <1>3 DEF ReturnedOK
<1>7. ReservedOK'
  BY <1>1, <1>2, <1>3 DEF ReservedOK
<1> QED
  BY <1>4, <1>5, <1>6, <1>7 DEF OneArticlePerEvent

(* Two articles of the queue are of one event only if one was just accepted, *)
(* and enqueue accepts none that shares an event with what is known.         *)
LEMMA EnqueueKeeps ==
  ASSUME TypeOK, OneArticlePerEvent, PendingOK, ReturnedOK, ReservedOK,
         NEW s \in Sources, Enqueue(s), collector[s].pc = "enqueue"
  PROVE  (OneArticlePerEvent /\ PendingOK /\ ReturnedOK /\ ReservedOK)'
<1>0. collector \in [Sources -> CollectorType]
  BY DEF TypeOK
<1>1. PICK accepted \in SUBSET collector[s].ids :
        /\ Range(queue') \subseteq Waiting \cup accepted
        /\ Acceptable(collector[s].ids, accepted)
        /\ trimmed' = trimmed \cup ((Waiting \cup accepted) \ Range(queue'))
        /\ collector' = [collector EXCEPT ![s] = [pc |-> "release", ids |-> @.ids \ accepted]]
  BY EnqueueEffect
<1>2. UNCHANGED <<pending, sent, crashes>>
  BY DEF Enqueue, tracker, bounds
<1>3. /\ Reserving(s) = collector[s].ids
      /\ \A t \in Sources : Reserving(t)' = IF t = s THEN Reserving(s) \ accepted ELSE Reserving(t)
  BY <1>0, <1>1 DEF Reserving
<1>4. Waiting' = Range(queue')
  BY DEF Waiting
<1>5. (\A a, b \in Waiting : ~SameEvent(a, b))'
  <2> SUFFICES ASSUME NEW a \in Waiting', NEW b \in Waiting', SameEvent(a, b)
               PROVE  FALSE
    BY DEF SameEvent
  <2>1. a \in Waiting \cup accepted /\ b \in Waiting \cup accepted
    BY <1>1, <1>4
  <2>2. SameEvent(b, a)
    BY DEF SameEvent
  <2> QED
    BY <1>1, <2>1, <2>2 DEF Acceptable, OneArticlePerEvent
<1>6. PendingOK'
  BY <1>2 DEF PendingOK
<1>7. ReturnedOK'
  BY <1>1, <1>2, <1>3, <1>4 DEF ReturnedOK
<1>8. ReservedOK'
  BY <1>1, <1>2, <1>3, <1>4 DEF ReservedOK
<1> QED
  BY <1>5, <1>6, <1>7, <1>8 DEF OneArticlePerEvent

LEMMA ReleaseReturns ==
  ASSUME TypeOK, OneArticlePerEvent, PendingOK, ReturnedOK, ReservedOK,
         NEW s \in Sources, Release(s)
  PROVE  (OneArticlePerEvent /\ PendingOK /\ ReturnedOK /\ ReservedOK)'
<1>0. collector \in [Sources -> CollectorType] /\ collector[s].pc = "release"
  BY DEF TypeOK, Release
<1>1. /\ UNCHANGED <<queue, sent, crashes, trimmed>>
      /\ pending' = pending \ collector[s].ids
      /\ collector' = [collector EXCEPT ![s] = IdleCollector]
  BY DEF Release, bounds, history
<1>2. /\ Waiting' = Waiting /\ Reserving(s) = collector[s].ids
      /\ \A t \in Sources : Reserving(t)' = IF t = s THEN {} ELSE Reserving(t)
  BY <1>0, <1>1 DEF Waiting, Reserving, IdleCollector
<1>3. (\A a, b \in Waiting : ~SameEvent(a, b))'
  BY <1>2 DEF OneArticlePerEvent, SameEvent
<1>4. PendingOK'
  BY <1>1 DEF PendingOK
<1>5. ReturnedOK'
  BY <1>1, <1>2 DEF ReturnedOK
<1>6. ReservedOK'
  BY <1>1, <1>2 DEF ReservedOK
<1> QED
  BY <1>3, <1>4, <1>5, <1>6 DEF OneArticlePerEvent

(* A step of the cycle whose collectors reserve what they reserved before. *)
LEMMA SameReservations ==
  ASSUME OneArticlePerEvent, PendingOK, ReturnedOK, ReservedOK,
         UNCHANGED <<queue, pending, sent, crashes, trimmed>>,
         \A t \in Sources : Reserving(t)' = Reserving(t)
  PROVE  (OneArticlePerEvent /\ PendingOK /\ ReturnedOK /\ ReservedOK)'
<1>1. Waiting' = Waiting
  BY DEF Waiting
<1>2. (\A a, b \in Waiting : ~SameEvent(a, b))'
  BY <1>1 DEF OneArticlePerEvent, SameEvent
<1>3. PendingOK' /\ ReturnedOK' /\ ReservedOK'
  BY <1>1 DEF PendingOK, ReturnedOK, ReservedOK
<1> QED
  BY <1>2, <1>3 DEF OneArticlePerEvent

LEMMA CycleReservations ==
  ASSUME TypeOK, LineOK, CycleOK, OneArticlePerEvent, PendingOK, ReturnedOK, ReservedOK, Cycle
  PROVE  (OneArticlePerEvent /\ PendingOK /\ ReturnedOK /\ ReservedOK)'
<1>0. collector \in [Sources -> CollectorType]
  BY DEF TypeOK
<1>1. ASSUME NEW specs \in SUBSET Sources, StartCycle(specs)
      PROVE  (OneArticlePerEvent /\ PendingOK /\ ReturnedOK /\ ReservedOK)'
  <2>1. \A s \in Sources : collector[s] = IdleCollector
    BY <1>1 DEF StartCycle, CycleOK
  <2>2. \A t \in Sources : collector'[t].pc \in {"look", "idle"}
    BY <1>1 DEF StartCycle, IdleCollector
  <2>3. \A t \in Sources : Reserving(t)' = Reserving(t)
    BY <2>1, <2>2 DEF Reserving, IdleCollector
  <2> QED
    BY <1>1, <2>3, SameReservations DEF StartCycle, tracker, bounds, history
<1>2. ASSUME NEW s \in Sources, Look(s)
      PROVE  (OneArticlePerEvent /\ PendingOK /\ ReturnedOK /\ ReservedOK)'
  <2>1. \A t \in Sources : Reserving(t)' = Reserving(t)
    BY <1>0, <1>2 DEF Look, Reserving
  <2> QED
    BY <1>2, <2>1, SameReservations DEF Look, tracker, bounds, history
<1>3. ASSUME NEW s \in Sources, NEW candidates \in SUBSET Articles, Fetch(s, candidates)
      PROVE  (OneArticlePerEvent /\ PendingOK /\ ReturnedOK /\ ReservedOK)'
  BY <1>3, FetchReserves
<1>4. ASSUME NEW s \in Sources, Enqueue(s) \/ EnqueueFails(s)
      PROVE  collector[s].pc = "enqueue"
  <2>1. InLine(s)
    BY <1>4 DEF Enqueue, EnqueueFails, Holds, InLine, Range, TypeOK
  <2> QED
    BY <2>1 DEF LineOK
<1>5. ASSUME NEW s \in Sources, Enqueue(s)
      PROVE  (OneArticlePerEvent /\ PendingOK /\ ReturnedOK /\ ReservedOK)'
  BY <1>4, <1>5, EnqueueKeeps
<1>6. ASSUME NEW s \in Sources, EnqueueFails(s)
      PROVE  (OneArticlePerEvent /\ PendingOK /\ ReturnedOK /\ ReservedOK)'
  <2>1. collector[s].pc = "enqueue"
    BY <1>4, <1>6
  <2>2. collector' = [collector EXCEPT ![s].pc = "release"] /\ collector[s] \in CollectorType
    BY <1>0, <1>6 DEF EnqueueFails
  <2>3. collector'[s].pc = "release" /\ collector'[s].ids = collector[s].ids
    BY <1>0, <2>2 DEF CollectorType
  <2>4. \A t \in Sources : Reserving(t)' = Reserving(t)
    BY <1>0, <2>1, <2>2, <2>3 DEF Reserving
  <2> QED
    BY <1>6, <2>4, SameReservations DEF EnqueueFails, tracker, history
<1>7. ASSUME NEW s \in Sources, Release(s)
      PROVE  (OneArticlePerEvent /\ PendingOK /\ ReturnedOK /\ ReservedOK)'
  BY <1>7, ReleaseReturns
<1>8. CASE EndGather \/ EndCycle
  BY <1>8, Undisturbed DEF EndGather, EndCycle, Reservations, bounds, history
<1> QED
  BY <1>1, <1>2, <1>3, <1>5, <1>6, <1>7, <1>8 DEF Cycle, Collect

-----------------------------------------------------------------------------
(* The report                                                              *)

(* What the report drops is sent, so no longer reserved; what it cleans is *)
(* without a title, so never reserved.                                     *)
LEMMA ReportReservations ==
  ASSUME TypeOK, TrackerOK, OneArticlePerEvent, PendingOK, ReturnedOK, ReservedOK, ReportStep
  PROVE  (OneArticlePerEvent /\ PendingOK /\ ReturnedOK /\ ReservedOK)'
<1> DEFINE untitled == Of(report.items, report.market) \cap Untitled
<1>1. CASE CleanDrop
  <2>1. UNCHANGED <<pending, sent, crashes, trimmed, collector>>
    BY <1>1 DEF CleanDrop, tracker, history
  <2>2. CASE queue' \in Without(untitled)
    <3>1. Range(queue') = Waiting \ untitled
      BY <2>2, RestOfQueue
    <3> QED
      BY <2>1, <3>1, Shrinking DEF PendingOK
  <2>3. CASE queue' = queue
    BY <2>1, <2>3, Undisturbed DEF Reservations
  <2> QED
    BY <1>1, <2>2, <2>3 DEF CleanDrop
<1>2. CASE Unreserve
  <2>1. pending' = pending
    BY <1>2 DEF Unreserve, PendingOK
  <2> QED
    BY <1>2, <2>1, Undisturbed DEF Unreserve, Reservations, bounds, history
<1>3. ASSUME NEW m \in Markets, MarketStep(m)
      PROVE  (OneArticlePerEvent /\ PendingOK /\ ReturnedOK /\ ReservedOK)'
  BY <1>3, MarketStepEffect, Undisturbed DEF Reservations, tracker, history
<1>4. ASSUME NEW m \in Markets, Send(m) \/ RecordPublished(m)
      PROVE  (OneArticlePerEvent /\ PendingOK /\ ReturnedOK /\ ReservedOK)'
  <2>1. UNCHANGED Reservations
    BY <1>4 DEF Send, Post, PostFails, PostAnswerLost, RecordPublished, Reservations,
                tracker, bounds, history
  <2> QED
    BY <2>1, Undisturbed
<1>5. CASE NothingToSay \/ StartPosting \/ NothingPosted \/ Save \/ SaveFails \/ DropFails \/ EndReport
  <2>1. UNCHANGED Reservations
    BY <1>5 DEF NothingToSay, StartPosting, NothingPosted, Save, SaveFails, DropFails, EndReport,
                Reservations, tracker, bounds, history
  <2> QED
    BY <2>1, Undisturbed
<1>6. CASE Confirm
  <2>1. /\ UNCHANGED <<queue, collector, crashes, trimmed>>
        /\ pending' = pending \ Chosen /\ sent' = sent \cup Chosen
    BY <1>6 DEF Confirm, bounds, history
  <2>2. Waiting' = Waiting /\ \A s \in Sources : Reserving(s)' = Reserving(s)
    BY <2>1 DEF Waiting, Reserving
  <2>3. (\A a, b \in Waiting : ~SameEvent(a, b))'
    BY <2>2 DEF OneArticlePerEvent, SameEvent
  <2>4. PendingOK'
    BY <2>1 DEF PendingOK
  <2>5. ReturnedOK'
    BY <2>1, <2>2 DEF ReturnedOK
  <2>6. ReservedOK'
    BY <2>1, <2>2 DEF ReservedOK
  <2> QED
    BY <2>3, <2>4, <2>5, <2>6 DEF OneArticlePerEvent
<1>7. CASE Drop
  <2>1. UNCHANGED <<pending, sent, crashes, trimmed, collector>>
    BY <1>7 DEF Drop, tracker, bounds, history
  <2>2. Range(queue') = Waiting \ Chosen
    BY <1>7, RestOfQueue DEF Drop
  <2>3. Chosen \cap pending = {}
    BY <1>7 DEF Drop, TrackerOK, PendingOK
  <2> QED
    BY <2>1, <2>2, <2>3, Shrinking
<1> QED
  BY <1>1, <1>2, <1>3, <1>4, <1>5, <1>6, <1>7 DEF ReportStep, Judge, MarketStep

LEMMA NextReservations ==
  ASSUME NewsInvariant, OneArticlePerEvent, PendingOK, ReturnedOK, ReservedOK, [Next]_vars
  PROVE  (OneArticlePerEvent /\ PendingOK /\ ReturnedOK /\ ReservedOK)'
<1>0. TypeOK /\ LineOK /\ CycleOK /\ TrackerOK
  BY DEF NewsInvariant
<1>1. CASE StartReport
  BY <1>1, Undisturbed DEF StartReport, Reservations, tracker, bounds, history
<1>2. CASE ReportStep
  BY <1>0, <1>2, ReportReservations
<1>3. CASE Cycle
  BY <1>0, <1>3, CycleReservations
<1>4. CASE Restart
  <2>1. pending' = {} /\ queue' = queue /\ crashes' # 0
    BY <1>0, <1>4, NewsAssumption DEF Restart, TypeOK
  <2>2. Waiting' = Waiting
    BY <2>1 DEF Waiting
  <2>3. (\A a, b \in Waiting : ~SameEvent(a, b))'
    BY <2>2 DEF OneArticlePerEvent, SameEvent
  <2>4. PendingOK' /\ ReturnedOK' /\ ReservedOK'
    BY <2>1 DEF PendingOK, ReturnedOK, ReservedOK
  <2> QED
    BY <2>3, <2>4 DEF OneArticlePerEvent
<1>5. ASSUME NEW m \in Markets, HoursPass(m)
      PROVE  (OneArticlePerEvent /\ PendingOK /\ ReturnedOK /\ ReservedOK)'
  BY <1>5, Undisturbed DEF HoursPass, Reservations, tracker, bounds, history
<1>6. CASE UNCHANGED vars
  BY <1>6, Undisturbed DEF vars, Reservations, tracker, bounds, history
<1> QED
  BY <1>1, <1>2, <1>3, <1>4, <1>5, <1>6 DEF Next

(* A section counts as posted after its articles were told; the report comes *)
(* to save and drop only with one that is.                                   *)
LEMMA SamePosted ==
  ASSUME PostedOK, report'.pc \notin {"idle", "save", "drop"},
         report'.posted = report.posted, report'.items \subseteq report.items,
         told \subseteq told'
  PROVE  PostedOK'
<1>1. ASSUME NEW m \in report'.posted
      PROVE  Of(report'.items, m) \subseteq told'
  <2>1. Of(report.items, m) \subseteq told
    BY <1>1 DEF PostedOK
  <2> QED
    BY <2>1 DEF Of
<1>2. (\A m \in report.posted : Of(report.items, m) \subseteq told)'
  BY <1>1 DEF Of
<1> QED
  BY <1>2 DEF PostedOK, At

LEMMA NonePosted ==
  ASSUME report' = IdleReport
  PROVE  PostedOK'
BY DEF PostedOK, IdleReport, At

LEMMA KeptPosted ==
  ASSUME PostedOK, report' = report, told' = told
  PROVE  PostedOK'
BY DEF PostedOK, At, Of

LEMMA ReportPosted ==
  ASSUME TypeOK, PostedOK, ReportStep
  PROVE  PostedOK'
<1>0. report \in ReportType
  BY DEF TypeOK
<1>1. CASE CleanDrop \/ Unreserve
  <2>1. report'.posted = report.posted /\ told' = told
    BY <1>0, <1>1 DEF CleanDrop, Unreserve, ReportType, history
  <2>2. report'.pc \in {"unreserve", "judge"} /\ report'.items \subseteq report.items
    BY <1>1, CleaningEffect
  <2> QED
    BY <2>1, <2>2, SamePosted
<1>2. ASSUME NEW m \in Markets, MarketStep(m)
      PROVE  PostedOK'
  <2>1. report'.posted = report.posted
    BY <1>0, <1>2 DEF MarketStep, Clean, SkipMarket, HoldThin, HoldFailed, HoldJudged, HoldRepeat,
                      RecordHeld, Choose, ReportType
  <2>2. report'.pc \in {"judge", "clean"} /\ report'.items = report.items /\ told' = told
    BY <1>2, MarketStepEffect DEF history
  <2> QED
    BY <2>1, <2>2, SamePosted
<1>3. ASSUME NEW m \in Markets, Post(m)
      PROVE  PostedOK'
  <2>1. /\ report'.pc = "post" /\ report'.items = report.items
        /\ report'.posted = report.posted \cup {m} /\ told' = told \cup Of(report.items, m)
    BY <1>0, <1>3 DEF Post, ReportType, At
  <2>2. ASSUME NEW n \in report'.posted
        PROVE  Of(report.items, n) \subseteq told'
    BY <2>1, <2>2 DEF PostedOK
  <2>3. (\A n \in report.posted : Of(report.items, n) \subseteq told)'
    BY <2>1, <2>2 DEF Of
  <2> QED
    BY <2>1, <2>3 DEF PostedOK, At
<1>4. ASSUME NEW m \in Markets, PostFails(m) \/ PostAnswerLost(m)
      PROVE  PostedOK'
  <2>1. /\ report'.pc = "post" /\ report'.items = report.items
        /\ report'.posted = report.posted /\ told \subseteq told'
    BY <1>0, <1>4 DEF PostFails, PostAnswerLost, ReportType, At, history
  <2> QED
    BY <2>1, SamePosted
<1>5. CASE NothingToSay \/ NothingPosted \/ SaveFails \/ DropFails \/ EndReport
  <2>1. report' = IdleReport
    BY <1>5 DEF NothingToSay, NothingPosted, SaveFails, DropFails, EndReport, EndEarly
  <2> QED
    BY <2>1, NonePosted
<1>6. CASE StartPosting
  <2>1. /\ report'.pc = "post" /\ report'.items = report.items
        /\ report'.posted = report.posted /\ told' = told
    BY <1>0, <1>6 DEF StartPosting, ReportType, history
  <2> QED
    BY <2>1, SamePosted
<1>7. CASE Confirm \/ Save
  <2>1. /\ report'.pc \in {"save", "drop"} /\ report'.items = report.items
        /\ report'.posted = report.posted /\ report.posted # {} /\ told' = told
    BY <1>0, <1>7 DEF Confirm, Save, PostedOK, At, ReportType, history
  <2>2. (\A m \in report.posted : Of(report.items, m) \subseteq told)'
    BY <2>1 DEF PostedOK, Of
  <2> QED
    BY <2>1, <2>2 DEF PostedOK, At
<1>8. CASE Drop
  <2>1. report'.pc = "record" /\ report'.items = {} /\ report'.posted = report.posted
    BY <1>0, <1>8 DEF Drop, ReportType
  <2>2. told' = told
    BY <1>8 DEF Drop, history
  <2> QED
    BY <2>1, <2>2, SamePosted
<1>9. ASSUME NEW m \in Markets, RecordPublished(m)
      PROVE  PostedOK'
  <2>1. /\ report'.pc = "record" /\ report'.items = report.items
        /\ report'.posted = report.posted /\ told' = told
    BY <1>0, <1>9 DEF RecordPublished, ReportType, At, history
  <2> QED
    BY <2>1, SamePosted
<1> QED
  BY <1>1, <1>2, <1>3, <1>4, <1>5, <1>6, <1>7, <1>8, <1>9
     DEF ReportStep, Judge, MarketStep, Send

LEMMA NextPosted ==
  ASSUME TypeOK, PostedOK, [Next]_vars
  PROVE  PostedOK'
<1>0. report \in ReportType
  BY DEF TypeOK
<1>1. CASE StartReport
  <2>1. report'.pc = "judge" /\ report'.posted = {}
    BY <1>0, <1>1 DEF StartReport, PostedOK, At, ReportType
  <2> QED
    BY <2>1 DEF PostedOK, At
<1>2. CASE ReportStep
  BY <1>2, ReportPosted
<1>3. CASE Cycle
  BY <1>3, KeptPosted DEF Cycle, StartCycle, Collect, Look, Fetch, Enqueue, EnqueueFails, Release,
                          EndGather, EndCycle, history
<1>4. CASE Restart
  BY <1>4, NonePosted DEF Restart, EndEarly
<1>5. ASSUME NEW m \in Markets, HoursPass(m)
      PROVE  PostedOK'
  BY <1>5, KeptPosted DEF HoursPass, history
<1>6. CASE UNCHANGED vars
  BY <1>6, KeptPosted DEF vars, history
<1> QED
  BY <1>1, <1>2, <1>3, <1>4, <1>5, <1>6 DEF Next

-----------------------------------------------------------------------------
(* What leaves the queue                                                   *)

(* Only a full queue pushes articles out. *)
LEMMA NewestIsFull ==
  ASSUME NEW p \in Seq(Articles), NEW q \in Seq(Articles)
  PROVE  Len(Newest(p \o q)) = MaxItems \/ Range(p) \subseteq Range(Newest(p \o q))
<1>1. p \o q \in Seq(Articles) /\ MaxItems \in Nat \ {0}
  BY NewsAssumption
<1>2. CASE Len(p \o q) > MaxItems
  <2>1. Newest(p \o q) = SubSeq(p \o q, Len(p \o q) - MaxItems + 1, Len(p \o q))
    BY <1>2 DEF Newest
  <2>2. Len(p \o q) - MaxItems + 1 \in 1..Len(p \o q) /\ Len(p \o q) \in Nat
    BY <1>1, <1>2
  <2> QED
    BY <1>1, <2>1, <2>2
<1>3. CASE ~(Len(p \o q) > MaxItems)
  <2>1. Newest(p \o q) = p \o q
    BY <1>3 DEF Newest
  <2>2. ASSUME NEW i \in DOMAIN p
        PROVE  i \in DOMAIN (p \o q) /\ (p \o q)[i] = p[i]
    OBVIOUS
  <2> QED
    BY <2>1, <2>2 DEF Range
<1> QED
  BY <1>2, <1>3

LEMMA EnqueuePushesOut ==
  ASSUME TypeOK, NEW s \in Sources, Enqueue(s)
  PROVE  Len(queue') = MaxItems \/ Waiting \subseteq Range(queue')
<1>1. PICK accepted \in SUBSET collector[s].ids : \E order \in Orders(accepted) :
        queue' = Newest(queue \o order)
  BY DEF Enqueue
<1>2. PICK order \in Orders(accepted) : queue' = Newest(queue \o order)
  BY <1>1
<1>3. order \in Seq(Articles) /\ queue \in Seq(Articles)
  BY CollectorFields, OrderType DEF TypeOK
<1> QED
  BY <1>2, <1>3, NewestIsFull DEF Waiting

(* What a step may take out of the queue. *)
MayLeave(a) ==
  \/ a \in told
  \/ report.posted # {} /\ MarketOf[a] \in report.chosen \ report.posted
  \/ a \in Untitled

LEMMA Leaves ==
  ASSUME TypeOK, PostedOK, [Next]_vars
  PROVE  Len(queue') = MaxItems \/ \A a \in Waiting \ Range(queue') : MayLeave(a)
<1>1. CASE StartReport \/ Restart
  BY <1>1 DEF StartReport, Restart, Waiting
<1>2. CASE CleanDrop
  <2>1. Waiting \ Range(queue') \subseteq Untitled
    BY <1>2, RestOfQueue DEF CleanDrop, Waiting
  <2> QED
    BY <2>1 DEF MayLeave
<1>3. CASE Unreserve
  BY <1>3 DEF Unreserve, Waiting
<1>4. ASSUME NEW m \in Markets, MarketStep(m)
      PROVE  Waiting \ Range(queue') = {}
  BY <1>4, MarketStepEffect DEF Waiting
<1>5. ASSUME NEW m \in Markets, Send(m) \/ RecordPublished(m) \/ HoursPass(m)
      PROVE  Waiting \ Range(queue') = {}
  BY <1>5 DEF Send, Post, PostFails, PostAnswerLost, RecordPublished, HoursPass, Waiting
<1>6. CASE NothingToSay \/ StartPosting \/ NothingPosted \/ Confirm \/ Save \/ SaveFails
           \/ DropFails \/ EndReport
  BY <1>6 DEF NothingToSay, StartPosting, NothingPosted, Confirm, Save, SaveFails, DropFails,
              EndReport, Waiting
<1>7. CASE Drop
  <2>1. Waiting \ Range(queue') \subseteq Chosen /\ report.posted # {}
    BY <1>7, RestOfQueue DEF Drop, PostedOK
  <2>2. ASSUME NEW a \in Chosen, MarketOf[a] \in report.posted
        PROVE  a \in told
    BY <2>2 DEF PostedOK, Chosen, Of
  <2> QED
    BY <2>1, <2>2 DEF MayLeave, Chosen
<1>8. ASSUME NEW s \in Sources, Enqueue(s)
      PROVE  Len(queue') = MaxItems \/ Waiting \ Range(queue') = {}
  BY <1>8, EnqueuePushesOut
<1>9. ASSUME Cycle, \A s \in Sources : ~Enqueue(s)
      PROVE  Waiting \ Range(queue') = {}
  BY <1>9 DEF Cycle, StartCycle, Collect, Look, Fetch, EnqueueFails, Release, EndGather, EndCycle,
              Waiting
<1>10. CASE UNCHANGED vars
  BY <1>10 DEF vars, Waiting
<1> QED
  BY <1>1, <1>2, <1>3, <1>4, <1>5, <1>6, <1>7, <1>8, <1>9, <1>10
     DEF Next, ReportStep, Judge, MarketStep

-----------------------------------------------------------------------------
(* The theorems                                                            *)

LEMMA InitQueue == Init => QueueInvariant
<1> SUFFICES ASSUME Init
             PROVE  QueueInvariant
  OBVIOUS
<1>1. /\ pending = {} /\ sent = {} /\ Waiting \subseteq Untitled
      /\ report = IdleReport /\ \A s \in Sources : collector[s] = IdleCollector
  BY DEF Init, Waiting, Range
<1>2. \A a, b \in Waiting : a = b
  BY DEF Init, Waiting, Range
<1>3. OneArticlePerEvent
  BY <1>2 DEF OneArticlePerEvent, SameEvent
<1>4. \A s \in Sources : Reserving(s) = {}
  BY <1>1 DEF Reserving, IdleCollector
<1>5. PendingOK /\ ReturnedOK /\ ReservedOK
  BY <1>1, <1>4 DEF PendingOK, ReturnedOK, ReservedOK
<1>6. PostedOK
  BY <1>1 DEF PostedOK, IdleReport, At
<1> QED
  BY <1>3, <1>5, <1>6 DEF QueueInvariant

LEMMA QueueInvariantHolds == Spec => [](NewsInvariant /\ QueueInvariant)
<1>1. ASSUME NewsInvariant, QueueInvariant, [Next]_vars
      PROVE  QueueInvariant'
  <2>1. OneArticlePerEvent /\ PendingOK /\ ReturnedOK /\ ReservedOK /\ PostedOK /\ TypeOK
    BY <1>1 DEF QueueInvariant, NewsInvariant
  <2>2. OneArticlePerEvent' /\ PendingOK' /\ ReturnedOK' /\ ReservedOK'
    BY <1>1, <2>1, NextReservations
  <2>3. PostedOK'
    BY <1>1, <2>1, NextPosted
  <2> QED
    BY <2>2, <2>3 DEF QueueInvariant
<1> QED
  BY <1>1, InitQueue, NewsInvariantHolds, PTL DEF Spec

(* Of the articles that several sources carry for one event one waits, however *)
(* the reads of the sources, the reports and the restarts interleave.          *)
THEOREM OneEventWaitsOnce == Spec => []OneArticlePerEvent
<1>1. QueueInvariant => OneArticlePerEvent
  BY DEF QueueInvariant
<1> QED
  BY <1>1, QueueInvariantHolds, PTL

(* Until the first restart a queued article is reserved or sent; a reservation *)
(* that leads to nothing is given back.                                        *)
THEOREM ReservationsAreKept == Spec => []ReservationsFit
<1>1. ASSUME QueueInvariant
      PROVE  ReservationsFit
  <2>1. ReservedUntilRestart
    BY <1>1 DEF QueueInvariant, ReservedOK, ReservedUntilRestart
  <2>2. ReservationsReturned
    BY <1>1 DEF QueueInvariant, ReturnedOK, Reserving, ReservationsReturned
  <2> QED
    BY <2>1, <2>2 DEF ReservationsFit
<1> QED
  BY <1>1, QueueInvariantHolds, PTL

(* No step takes an article out of the queue that was neither told nor in a    *)
(* section whose chunk failed, except to make room in a full queue or because  *)
(* it has no title.                                                            *)
THEOREM HeldNewsStays == Spec => NothingVanishes
<1>1. ASSUME TypeOK, PostedOK, [Next]_vars
      PROVE  \A a \in Waiting \ Range(queue') :
               \/ a \in told
               \/ report.posted # {} /\ MarketOf[a] \in report.chosen \ report.posted
               \/ Len(queue') = MaxItems
               \/ a \in Untitled
  BY <1>1, Leaves DEF MayLeave
<1>2. NewsInvariant /\ QueueInvariant => TypeOK /\ PostedOK
  BY DEF NewsInvariant, QueueInvariant
<1> QED
  BY <1>1, <1>2, QueueInvariantHolds, PTL DEF Spec, NothingVanishes
====

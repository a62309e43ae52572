----------------------- MODULE ShortsProductionProofs -----------------------
(***************************************************************************)
(* Proofs about what a day's video tells, for every set of events, sectors *)
(* and topics, every number of days, attempts, issues and pages, and every *)
(* period without repetition.                                              *)
(***************************************************************************)
EXTENDS ShortsProduction, FiniteSetTheorems, NaturalsInduction, TLAPS

-----------------------------------------------------------------------------
(* What is taken of an answer of the model.                                  *)

Varied(S) == \A i, j \in S : i # j => SectorOf[i] # SectorOf[j] /\ TopicOf[i] # TopicOf[j]

LEMMA SmallestNumber ==
  ASSUME NEW T, T \subseteq Nat, T # {}
  PROVE  \E x \in T : \A y \in T : x <= y
<1>1. PICK x \in T : \A y \in T : ~(<<y, x>> \in OpToRel(<, Nat))
  BY NatLessThanWellFounded, WFMin, Zenon
<1>2. \A y \in T : ~(y < x)
  BY <1>1, Zenon DEF OpToRel
<1> QED
  BY <1>2

Before(rows, n, places) == {rows[m] : m \in {k \in places : k < n}}
Takes(rows, wrong, places, n) == rows[n] \notin wrong /\ ~Clashes(rows[n], Before(rows, n, places))
TakenUpTo(rows, wrong, places, n) ==
  places \subseteq 1..n /\ \A m \in 1..n : m \in places <=> Takes(rows, wrong, places, m)

(* Every answer has rows that are taken, one after the other. *)
LEMMA RowsAreTaken ==
  ASSUME NEW n \in Nat, NEW rows, NEW wrong
  PROVE  \E places : TakenUpTo(rows, wrong, places, n)
<1> DEFINE bad == {m \in Nat : ~\E places : TakenUpTo(rows, wrong, places, m)}
<1> SUFFICES ASSUME bad # {} PROVE FALSE
  OBVIOUS
<1>1. PICK m \in bad : \A k \in bad : m <= k
  BY SmallestNumber
<1>2. m # 0
  <2>1. TakenUpTo(rows, wrong, {}, 0)
    BY DEF TakenUpTo
  <2> QED
    BY <2>1
<1>3. m - 1 \in Nat /\ m - 1 \notin bad /\ m \in Nat
  BY <1>1, <1>2
<1>4. PICK places : TakenUpTo(rows, wrong, places, m - 1)
  BY <1>3
<1> DEFINE more == IF Takes(rows, wrong, places, m) THEN places \cup {m} ELSE places
<1>5. places \subseteq 1..(m - 1) /\ \A k \in 1..(m - 1) : k \in places <=> Takes(rows, wrong, places, k)
  BY <1>4 DEF TakenUpTo
<1>6. more \subseteq 1..m /\ \A k \in 1..m : {l \in more : l < k} = {l \in places : l < k}
  BY <1>3, <1>5
<1>7. \A k \in 1..m : Before(rows, k, more) = Before(rows, k, places)
  BY <1>6 DEF Before
<1>8. \A k \in 1..m : Takes(rows, wrong, more, k) <=> Takes(rows, wrong, places, k)
  BY <1>7 DEF Takes
<1>9. m \in more <=> Takes(rows, wrong, places, m)
  BY <1>3, <1>5
<1>10. \A k \in 1..(m - 1) : k \in more <=> k \in places
  BY <1>3
<1> HIDE DEF more
<1>11. \A k \in 1..m : k = m \/ k \in 1..(m - 1)
  BY <1>3
<1>12. \A k \in 1..m : k \in more <=> Takes(rows, wrong, more, k)
  BY <1>3, <1>5, <1>8, <1>9, <1>10, <1>11
<1>13. TakenUpTo(rows, wrong, more, m)
  BY <1>6, <1>12 DEF TakenUpTo
<1> QED
  BY <1>1, <1>13

LEMMA AcceptedAre ==
  ASSUME NEW n \in Nat, NEW known, NEW rows \in [1..n -> known], NEW wrong
  PROVE  Accepted(rows, wrong) \subseteq known /\ Varied(Accepted(rows, wrong))
<1> DEFINE Taken(places) == \A m \in 1..n : m \in places <=> Takes(rows, wrong, places, m)
           kept == CHOOSE places \in SUBSET (1..n) : Taken(places)
<1>1. \E places \in SUBSET (1..n) : Taken(places)
  BY RowsAreTaken DEF TakenUpTo
<1>2. kept \subseteq 1..n /\ Taken(kept)
  <2> HIDE DEF Taken
  <2> QED
    BY <1>1
<1>3. Accepted(rows, wrong) = {rows[m] : m \in kept}
  <2>1. DOMAIN rows = 1..n
    OBVIOUS
  <2> QED
    BY <2>1 DEF Accepted, Takes, Before
<1> HIDE DEF kept
<1>4. ASSUME NEW k \in kept, NEW m \in kept, k < m
      PROVE  /\ rows[k] # rows[m] /\ SectorOf[rows[k]] # SectorOf[rows[m]]
             /\ TopicOf[rows[k]] # TopicOf[rows[m]]
  <2>1. ~Clashes(rows[m], Before(rows, m, kept)) /\ rows[k] \in Before(rows, m, kept)
    BY <1>2, <1>4 DEF Takes, Before
  <2> QED
    BY <2>1 DEF Clashes
<1>5. ASSUME NEW k \in kept, NEW m \in kept, rows[k] # rows[m]
      PROVE  SectorOf[rows[k]] # SectorOf[rows[m]] /\ TopicOf[rows[k]] # TopicOf[rows[m]]
  <2>1. k < m \/ m < k
    BY <1>2, <1>5
  <2> QED
    BY <2>1, <1>4
<1>6. Varied(Accepted(rows, wrong))
  BY <1>3, <1>5 DEF Varied
<1> QED
  BY <1>2, <1>3, <1>6

-----------------------------------------------------------------------------
(* A production holds issues that are new to the last days and tell apart,   *)
(* and those it has scripts for are in the day's source.json; while it       *)
(* chooses, the day has no video or is made again.                           *)

Choosing == {"reads", "selects", "gathers", "confirms", "writes"}
Working == Choosing \cup {"refills", "builds", "renders"}

Shape(p) ==
  p = [pc |-> p.pc, by |-> p.by, candidates |-> p.candidates, selected |-> p.selected,
       rejected |-> p.rejected, gathered |-> p.gathered, issues |-> p.issues, planned |-> p.planned,
       details |-> p.details, filling |-> p.filling]

IdleOK(p) == p.pc = "none" => p = NoProcess

ShapeOK(p) ==
  /\ Shape(p)
  /\ p.pc \in Working \cup {"none", "succeeds", "unsuitable"}
  /\ p.by \in {"none", "timer", "operator"}
  /\ p.planned \in Nat /\ p.details \in 0..MaxDetails /\ p.filling \in BOOLEAN
  /\ IdleOK(p)

ChoiceFor(p, filed) ==
  /\ p.candidates \subseteq Fresh(day)
  /\ p.gathered \subseteq Fresh(day)
  /\ p.issues \subseteq Fresh(day)
  /\ Varied(p.gathered \cup p.issues)
  /\ p.issues \subseteq filed
  /\ p.pc = "writes" => p.gathered \subseteq filed
  /\ ~p.filling /\ p.pc \in Choosing => p.issues = {}
  /\ p.pc \in Working => made[day] = {} \/ day \in redone

ChoiceOK(p) == ChoiceFor(p, source[day])

Attempt == [tried : Nat, gaveUp : BOOLEAN, succeeded : BOOLEAN, notified : BOOLEAN]
Attempts == [Days -> Attempt]

RecordOK ==
  /\ \A d \in Days : d > day => made[d] = {}
  /\ \A e \in Days \ redone : e <= day /\ day - e <= RepeatDays => made[e] \subseteq source[e]

ProductionInvariant ==
  TypeOK /\ ShapeOK(proc) /\ ChoiceOK(proc) /\ RecordOK /\ VideosAreFresh

shown == <<day, source, scenario, made, redone>>

LEMMA FreshIssues == ASSUME NEW d PROVE Fresh(d) \subseteq Issues
BY DEF Fresh

LEMMA PartVaried == ASSUME NEW S, Varied(S), NEW T, T \subseteq S PROVE Varied(T)
BY DEF Varied

LEMMA RecentStays ==
  ASSUME day' = day, \A e \in LatelyBefore(day) : source'[e] = source[e] /\ scenario'[e] = scenario[e]
  PROVE  Fresh(day)' = Fresh(day)
<1>1. LatelyBefore(day)' = LatelyBefore(day)
  BY DEF LatelyBefore
<1>2. UNION {source'[e] : e \in LatelyBefore(day)} = UNION {source[e] : e \in LatelyBefore(day)}
  OBVIOUS
<1>3. UNION {source'[e] \cup scenario'[e] : e \in LatelyBefore(day)}
        = UNION {source[e] \cup scenario[e] : e \in LatelyBefore(day)}
  OBVIOUS
<1>4. RecentIds(day)' = RecentIds(day) /\ RecentTopics(day)' = RecentTopics(day)
  BY <1>1, <1>2, <1>3 DEF RecentIds, RecentTopics
<1> QED
  BY <1>4 DEF Fresh

LEMMA SameFresh == ASSUME UNCHANGED shown PROVE Fresh(day)' = Fresh(day)
BY RecentStays DEF shown

LEMMA ProcessFields ==
  ASSUME NEW next, NEW by, NEW issues, NEW p, p = Process(next, by, issues)
  PROVE  /\ Shape(p) /\ p.pc = next /\ p.by = by /\ p.candidates = {} /\ p.gathered = {}
         /\ p.issues = issues /\ p.planned = 0 /\ p.details = 0 /\ p.filling \in BOOLEAN
<1>1. NoProcess = [pc |-> "none", by |-> "none", candidates |-> {}, selected |-> {}, rejected |-> {},
                   gathered |-> {}, issues |-> {}, planned |-> 0, details |-> 0, filling |-> FALSE]
  BY DEF NoProcess
<1>2. p = [NoProcess EXCEPT !.pc = next, !.by = by, !.issues = issues]
  BY DEF Process
<1>3. p = [pc |-> next, by |-> by, candidates |-> {}, selected |-> {}, rejected |-> {}, gathered |-> {},
           issues |-> issues, planned |-> 0, details |-> 0, filling |-> FALSE]
  BY <1>1, <1>2
<1> QED
  BY <1>3 DEF Shape

LEMMA Nothing ==
  /\ Shape(NoProcess) /\ NoProcess.pc = "none" /\ NoProcess.by = "none" /\ NoProcess.candidates = {}
  /\ NoProcess.gathered = {} /\ NoProcess.issues = {} /\ NoProcess.planned = 0
  /\ NoProcess.details = 0 /\ NoProcess.filling \in BOOLEAN
BY DEF NoProcess, Shape

(* Processes without issues. *)
LEMMA EmptyIsOK ==
  ASSUME NEW p, Shape(p), p.pc \in {"none", "succeeds", "unsuitable"}, p.by \in {"none", "timer", "operator"},
         p.candidates = {}, p.gathered = {}, p.issues = {}, p.planned = 0, p.details = 0,
         p.filling \in BOOLEAN, IdleOK(p)
  PROVE  ShapeOK(p) /\ \A filed : ChoiceFor(p, filed)
<1>1. 0 \in 0..MaxDetails
  <2>1. MaxDetails \in Nat
    BY ProductionAssumption
  <2> QED
    BY ONLY <2>1
<1>2. Varied({} \cup {})
  BY DEF Varied
<1>3. ShapeOK(p)
  <2>1. p.details \in 0..MaxDetails /\ p.planned \in Nat
    <3>1. 0 \in Nat
      OBVIOUS
    <3> QED
      BY <1>1, <3>1, Zenon
  <2>2. p.pc \in Working \cup {"none", "succeeds", "unsuitable"}
    OBVIOUS
  <2> QED
    BY <2>1, <2>2 DEF ShapeOK
<1>4. \A filed : ChoiceFor(p, filed)
  BY <1>2 DEF ChoiceFor, Working, Choosing
<1> QED
  BY <1>3, <1>4

LEMMA SettledIsOK ==
  ASSUME ProductionInvariant, NEW filed, NEW issues, issues \subseteq Fresh(day), Varied(issues),
         issues \subseteq filed, proc.pc \in Working
  PROVE  ShapeOK(Settled(issues)) /\ ChoiceFor(Settled(issues), filed)
<1> DEFINE p == Settled(issues)
<1>1. proc.by \in {"none", "timer", "operator"} /\ MaxDetails \in Nat
  BY ProductionAssumption DEF ProductionInvariant, ShapeOK
<1>2. p = Process("builds", proc.by, issues)
  BY DEF Settled
<1> HIDE DEF p
<1>3. made[day] = {} \/ day \in redone
  BY DEF ProductionInvariant, ChoiceOK, ChoiceFor
<1>4. /\ Shape(p) /\ p.pc = "builds" /\ p.by = proc.by /\ p.candidates = {} /\ p.gathered = {}
      /\ p.issues = issues /\ p.planned = 0 /\ p.details = 0 /\ p.filling \in BOOLEAN
  BY <1>2, ProcessFields
<1>5. ShapeOK(p)
  <2>1. IdleOK(p)
    BY <1>4 DEF IdleOK
  <2> QED
    BY <1>1, <1>4, <2>1 DEF ShapeOK, Working
<1>6. Varied(p.gathered \cup p.issues)
  <2>1. p.gathered \cup p.issues = issues
    BY <1>4
  <2> QED
    BY <2>1
<1>7. ChoiceFor(p, filed)
  BY <1>3, <1>4, <1>6 DEF ChoiceFor, Choosing
<1> QED
  BY <1>5, <1>7 DEF p

(* A step that leaves the folders alone. *)
LEMMA GoesOn ==
  ASSUME ProductionInvariant, UNCHANGED shown, NEW p, ShapeOK(p), ChoiceOK(p), proc' = p,
         unit' \in {"waits", "runs", "restarts", "ended"},
         attempts' \in Attempts,
         told' \subseteq Days
  PROVE  ProductionInvariant'
<1>1. Fresh(day)' = Fresh(day)
  BY SameFresh
<1>2. ShapeOK(proc)'
  BY DEF ShapeOK
<1>3. ChoiceOK(proc)'
  BY <1>1 DEF ChoiceOK, ChoiceFor, shown
<1>4. RecordOK'
  BY DEF ProductionInvariant, RecordOK, shown
<1>5. VideosAreFresh'
  <2>1. made' = made /\ redone' = redone
    BY DEF shown
  <2>2. VideoIsVaried'
    BY <2>1 DEF ProductionInvariant, VideosAreFresh, VideoIsVaried
  <2>3. NotShownAgain'
    <3>1. \A d, e : RepeatsNothing(d, e)' <=> RepeatsNothing(d, e)
      BY <2>1 DEF RepeatsNothing
    <3>2. \A d : LatelyBefore(d)' = LatelyBefore(d)
      BY DEF LatelyBefore
    <3> QED
      BY <2>1, <3>1, <3>2 DEF ProductionInvariant, VideosAreFresh, NotShownAgain
  <2> QED
    BY <2>2, <2>3 DEF VideosAreFresh
<1>6. p.issues \subseteq Issues
  BY FreshIssues DEF ChoiceOK, ChoiceFor
<1>7. TypeOK'
  BY <1>6 DEF ProductionInvariant, TypeOK, ShapeOK, Attempts, Attempt, shown
<1> QED
  BY <1>2, <1>3, <1>4, <1>5, <1>7 DEF ProductionInvariant

LEMMA AttemptChanged ==
  ASSUME NEW r \in Attempt
  PROVE  /\ Tried(r) \in Attempt /\ Failed(r) \in Attempt /\ NoAttempts \in Attempt
         /\ [r EXCEPT !.gaveUp = TRUE] \in Attempt /\ [r EXCEPT !.succeeded = TRUE] \in Attempt
         /\ [r EXCEPT !.notified = TRUE] \in Attempt
         /\ UnitAfter(r) \in {"waits", "runs", "restarts", "ended"}
<1>1. Tried(r) \in Attempt
  BY DEF Attempt, Tried
<1>2. Failed(r) \in Attempt
  <2>1. CASE r.tried >= MaxAttempts
    <3>1. Failed(r) = [r EXCEPT !.gaveUp = TRUE]
      BY <2>1, Zenon DEF Failed
    <3> QED
      BY <3>1 DEF Attempt
  <2>2. CASE ~(r.tried >= MaxAttempts)
    <3>1. (r.tried >= MaxAttempts) = FALSE
      BY <2>2
    <3>2. Failed(r) = [r EXCEPT !.gaveUp = FALSE]
      BY <3>1, Zenon DEF Failed
    <3> QED
      BY <3>2 DEF Attempt
  <2> QED
    BY <2>1, <2>2
<1>3. NoAttempts \in Attempt
  BY DEF Attempt, NoAttempts
<1>4. [r EXCEPT !.gaveUp = TRUE] \in Attempt
  BY DEF Attempt
<1>5. [r EXCEPT !.succeeded = TRUE] \in Attempt
  BY DEF Attempt
<1>6. [r EXCEPT !.notified = TRUE] \in Attempt
  BY DEF Attempt
<1>7. UnitAfter(r) \in {"waits", "runs", "restarts", "ended"}
  BY DEF UnitAfter
<1> QED
  BY <1>1, <1>2, <1>3, <1>4, <1>5, <1>6, <1>7

LEMMA Typed ==
  ASSUME ProductionInvariant
  PROVE  /\ day \in Days /\ unit \in {"waits", "runs", "restarts", "ended"} /\ attempts \in Attempts
         /\ source \in [Days -> SUBSET Issues] /\ scenario \in [Days -> SUBSET Issues]
         /\ made \in [Days -> SUBSET Issues] /\ redone \subseteq Days /\ told \subseteq Days
         /\ ShapeOK(proc) /\ ChoiceOK(proc)
BY DEF ProductionInvariant, TypeOK, Attempts, Attempt

(* The ends of a production, and what the timer, the bot and a reboot do. *)
LEMMA NextAround ==
  ASSUME ProductionInvariant,
         \/ TimerGivesUp \/ Succeed \/ Fail \/ Killed \/ Reboot
         \/ \E d \in Days : BotTells(d) \/ BotAcknowledges(d)
         \/ UNCHANGED vars
  PROVE  ProductionInvariant'
<1>1. UNCHANGED shown /\ proc' \in {proc, NoProcess}
  BY DEF TimerGivesUp, Succeed, Fail, Killed, Reboot, BotTells, BotAcknowledges, vars, files, shown
<1>2. unit' \in {"waits", "runs", "restarts", "ended"}
  BY Typed, AttemptChanged
     DEF TimerGivesUp, Succeed, Fail, Killed, Reboot, BotTells, BotAcknowledges, vars, files, Attempts
<1>3. told' \subseteq Days
  BY Typed DEF TimerGivesUp, Succeed, Fail, Killed, Reboot, BotTells, BotAcknowledges, vars, files
<1>4. attempts' \in Attempts
  <2>1. \A d \in Days : attempts[d] \in Attempt
    BY Typed DEF Attempts
  <2>2. \/ attempts' = attempts
        \/ \E d \in Days, new \in Attempt : attempts' = [attempts EXCEPT ![d] = new]
    <3>1. CASE TimerGivesUp
      BY <3>1, <2>1, Typed, AttemptChanged DEF TimerGivesUp
    <3>2. CASE Succeed
      BY <3>2, <2>1, Typed, AttemptChanged DEF Succeed
    <3>3. CASE Fail
      BY <3>3, <2>1, Typed, AttemptChanged DEF Fail
    <3>4. CASE Killed \/ Reboot \/ UNCHANGED vars
      BY <3>4 DEF Killed, Reboot, files, vars
    <3>5. ASSUME NEW d \in Days, BotTells(d) \/ BotAcknowledges(d)
          PROVE  \/ attempts' = attempts
                 \/ \E new \in Attempt : attempts' = [attempts EXCEPT ![d] = new]
      BY <3>5, <2>1, AttemptChanged DEF BotTells, BotAcknowledges, files
    <3> QED
      BY <3>1, <3>2, <3>3, <3>4, <3>5
  <2> QED
    BY <2>2, Typed DEF Attempts
<1>5. ShapeOK(NoProcess) /\ ChoiceOK(NoProcess)
  <2>1. IdleOK(NoProcess)
    BY DEF IdleOK
  <2> QED
    BY <2>1, Nothing, EmptyIsOK DEF ChoiceOK
<1> QED
  BY <1>1, <1>2, <1>3, <1>4, <1>5, Typed, GoesOn
-----------------------------------------------------------------------------
(* Starts of a production: what they prune is older than what is read.       *)

LEMMA LatelyKept ==
  ASSUME day \in Days
  PROVE  /\ \A e \in Days : day - e <= RepeatDays => e \in Kept(day)
         /\ LatelyBefore(day) \subseteq Kept(day) /\ day \in Kept(day)
<1>1. RetentionDays \in Nat /\ RepeatDays \in Nat /\ Days \subseteq Nat
  BY ProductionAssumption DEF Days
<1> DEFINE both == {RetentionDays, RepeatDays + 1}
<1>2. \E x \in both : \A y \in both : x >= y
  <2>1. CASE RetentionDays >= RepeatDays + 1
    BY <2>1, <1>1
  <2>2. CASE ~(RetentionDays >= RepeatDays + 1)
    BY <2>2, <1>1
  <2> QED
    BY <2>1, <2>2
<1>3. Max(both) \in both /\ \A y \in both : Max(both) >= y
  <2> HIDE DEF both
  <2> QED
    BY <1>2, Zenon DEF Max
<1>4. Max(both) \in Nat /\ RepeatDays < Max(both)
  BY <1>1, <1>3
<1>5. \A e \in Days : day - e <= RepeatDays => e \in Kept(day)
  <2> TAKE e \in Days
  <2>1. day - e <= RepeatDays => day - e < Max(both)
    <3> HIDE DEF both
    <3> QED
      BY <1>1, <1>4
  <2> QED
    BY <2>1 DEF Kept
<1>6. day - day <= RepeatDays
  BY <1>1
<1> QED
  BY <1>5, <1>6 DEF LatelyBefore

(* Folders go, and a process takes the place of another. *)
LEMMA NextPruned ==
  ASSUME ProductionInvariant,
         day' = day, made' = made, redone \subseteq redone', redone' \subseteq Days, told' = told,
         source' = [d \in Days |-> IF d \in Kept(day) THEN source[d] ELSE {}],
         scenario' = [d \in Days |-> IF d \in Kept(day) THEN scenario[d] ELSE {}],
         attempts' \in Attempts, unit' \in {"waits", "runs", "restarts", "ended"},
         ShapeOK(proc'), ChoiceOK(proc)'
  PROVE  ProductionInvariant'
<1>1. day \in Days /\ \A e \in Days : day - e <= RepeatDays => source'[e] = source[e]
  BY Typed, LatelyKept
<1>2. ShapeOK(proc)'
  BY DEF ShapeOK
<1>3. RecordOK'
  BY <1>1 DEF ProductionInvariant, RecordOK
<1>4. VideosAreFresh'
  <2>1. VideoIsVaried'
    BY DEF ProductionInvariant, VideosAreFresh, VideoIsVaried
  <2>2. \A d, e : RepeatsNothing(d, e)' <=> RepeatsNothing(d, e)
    BY DEF RepeatsNothing
  <2>3. \A d : LatelyBefore(d)' = LatelyBefore(d)
    BY DEF LatelyBefore
  <2>4. NotShownAgain'
    BY <2>2, <2>3 DEF ProductionInvariant, VideosAreFresh, NotShownAgain
  <2> QED
    BY <2>1, <2>4 DEF VideosAreFresh
<1>5. proc'.issues \subseteq Issues
  BY FreshIssues, <1>1 DEF ChoiceOK, ChoiceFor, Fresh
<1>6. TypeOK'
  BY <1>5, Typed DEF TypeOK, ShapeOK, Attempts, Attempt
<1> QED
  BY <1>2, <1>3, <1>4, <1>5, <1>6 DEF ProductionInvariant

(* The folders read are kept. *)
LEMMA PrunedFresh ==
  ASSUME day \in Days, day' = day,
         source' = [d \in Days |-> IF d \in Kept(day) THEN source[d] ELSE {}],
         scenario' = [d \in Days |-> IF d \in Kept(day) THEN scenario[d] ELSE {}]
  PROVE  Fresh(day)' = Fresh(day) /\ source'[day] = source[day]
<1>1. \A e \in LatelyBefore(day) : source'[e] = source[e] /\ scenario'[e] = scenario[e]
  BY LatelyKept DEF LatelyBefore
<1> QED
  BY <1>1, LatelyKept, RecentStays

LEMMA PrunedAttempts ==
  ASSUME NEW record \in Attempts PROVE Pruned(record) \in Attempts
BY AttemptChanged DEF Pruned, Attempts, Attempt, NoAttempts


LEMMA NextBegin ==
  ASSUME ProductionInvariant, NEW by \in {"timer", "operator"}, NEW force \in BOOLEAN, Begin(by, force),
         day' = day, redone' = IF force /\ made[day] # {} THEN redone \cup {day} ELSE redone, told' = told,
         attempts' \in Attempts, unit' \in {"waits", "runs", "restarts", "ended"}
  PROVE  ProductionInvariant'
<1>1. /\ source' = [d \in Days |-> IF d \in Kept(day) THEN source[d] ELSE {}]
      /\ scenario' = [d \in Days |-> IF d \in Kept(day) THEN scenario[d] ELSE {}]
      /\ proc' = Process(IF made[day] # {} /\ ~force THEN "succeeds" ELSE "reads", by, {})
      /\ made' = made
  BY DEF Begin
<1>2. redone \subseteq redone' /\ redone' \subseteq Days
  BY Typed
<1>3. ShapeOK(proc)' /\ ChoiceOK(proc)'
  <2>1. CASE made[day] # {} /\ ~force
    <3>1. proc' = Process("succeeds", by, {})
      BY <1>1, <2>1
    <3>2. /\ Shape(proc)' /\ proc'.pc = "succeeds" /\ proc'.by = by /\ proc'.candidates = {}
          /\ proc'.gathered = {} /\ proc'.issues = {} /\ proc'.planned = 0
          /\ proc'.details = 0 /\ proc'.filling \in BOOLEAN
      BY <3>1, ProcessFields DEF Shape
    <3>3. IdleOK(proc)'
      BY <3>2 DEF IdleOK
    <3>4. Varied({})'
      BY DEF Varied
    <3>5. MaxDetails \in Nat
      BY ProductionAssumption
    <3>6. 0 \in 0..MaxDetails
      BY ONLY <3>5
    <3>7. ShapeOK(proc)'
      BY <3>2, <3>3, <3>6 DEF ShapeOK
    <3>8. (proc.gathered \cup proc.issues)' = {}
      BY <3>2
    <3>9. Varied(proc.gathered \cup proc.issues)'
      BY <3>2 DEF Varied
    <3>10. ChoiceOK(proc)'
      BY <3>2, <3>9 DEF ChoiceOK, ChoiceFor, Working, Choosing
    <3> QED
      BY <3>7, <3>10
  <2>2. CASE ~(made[day] # {} /\ ~force)
    <3>1. proc' = Process("reads", by, {})
      BY <1>1, <2>2
    <3>2. /\ Shape(proc)' /\ proc'.pc = "reads" /\ proc'.by = by /\ proc'.candidates = {}
          /\ proc'.gathered = {} /\ proc'.issues = {} /\ proc'.planned = 0
          /\ proc'.details = 0 /\ proc'.filling \in BOOLEAN
      BY <3>1, ProcessFields DEF Shape
    <3>3. IdleOK(proc)'
      BY <3>2 DEF IdleOK
    <3>4. MaxDetails \in Nat
      BY ProductionAssumption
    <3>5. 0 \in 0..MaxDetails
      BY ONLY <3>4
    <3>6. ShapeOK(proc)'
      BY <3>2, <3>3, <3>5 DEF ShapeOK, Working, Choosing
    <3>7. made'[day'] = {} \/ day' \in redone'
      BY <1>1, <2>2
    <3>8. Varied(proc.gathered \cup proc.issues)'
      BY <3>2 DEF Varied
    <3>9. ChoiceOK(proc)'
      BY <3>2, <3>7, <3>8 DEF ChoiceOK, ChoiceFor
    <3> QED
      BY <3>6, <3>9
  <2> QED
    BY <2>1, <2>2
<1>4. ShapeOK(proc')
  BY <1>3 DEF ShapeOK, Shape, IdleOK, NoProcess
<1> QED
  BY <1>1, <1>2, <1>3, <1>4, NextPruned

LEMMA NextTimerStarts ==
  ASSUME ProductionInvariant, TimerStarts PROVE ProductionInvariant'
<1>1. [attempts EXCEPT ![day] = Tried(@)] \in Attempts
  BY Typed, AttemptChanged DEF Attempts
<1>2. attempts' \in Attempts
  BY <1>1, PrunedAttempts DEF TimerStarts
<1>3. redone' = IF FALSE /\ made[day] # {} THEN redone \cup {day} ELSE redone
  BY DEF TimerStarts
<1>4. Begin("timer", FALSE) /\ day' = day /\ told' = told /\ unit' = "runs"
  BY DEF TimerStarts
<1> QED
  BY <1>2, <1>3, <1>4, NextBegin

LEMMA NextOperatorStarts ==
  ASSUME ProductionInvariant, NEW force \in BOOLEAN, OperatorStarts(force) PROVE ProductionInvariant'
<1>1. attempts' \in Attempts
  BY Typed, PrunedAttempts DEF OperatorStarts
<1>2. unit' \in {"waits", "runs", "restarts", "ended"}
  BY Typed DEF OperatorStarts
<1>3. /\ Begin("operator", force) /\ day' = day /\ told' = told
      /\ redone' = IF force /\ made[day] # {} THEN redone \cup {day} ELSE redone
  BY DEF OperatorStarts
<1> QED
  BY <1>1, <1>2, <1>3, NextBegin

LEMMA NextRefused ==
  ASSUME ProductionInvariant, TimerIsRefused PROVE ProductionInvariant'
<1>1. /\ day' = day /\ made' = made /\ redone' = redone /\ told' = told /\ proc' = proc
      /\ source' = [d \in Days |-> IF d \in Kept(day) THEN source[d] ELSE {}]
      /\ scenario' = [d \in Days |-> IF d \in Kept(day) THEN scenario[d] ELSE {}]
  BY DEF TimerIsRefused
<1>2. [attempts EXCEPT ![day] = Failed(Tried(attempts[day]))] \in Attempts
  BY Typed, AttemptChanged DEF Attempts
<1>3. attempts' \in Attempts
  BY <1>2, PrunedAttempts DEF TimerIsRefused
<1>4. unit' \in {"waits", "runs", "restarts", "ended"}
  BY DEF TimerIsRefused, UnitAfter
<1>5. Fresh(day)' = Fresh(day) /\ source'[day] = source[day]
  BY <1>1, Typed, PrunedFresh
<1>6. ShapeOK(proc') /\ ChoiceOK(proc)'
  BY <1>1, <1>5, Typed DEF ChoiceOK, ChoiceFor
<1>7. redone \subseteq redone' /\ redone' \subseteq Days
  BY <1>1, Typed
<1> QED
  BY <1>1, <1>3, <1>4, <1>6, <1>7, NextPruned

LEMMA NextDayKeeps ==
  ASSUME ProductionInvariant, NextDay PROVE ProductionInvariant'
<1>1. /\ day' = day + 1 /\ day < MaxDays /\ unit' = "waits" /\ proc.pc = "none"
      /\ UNCHANGED <<attempts, source, scenario, made, redone, proc, told>>
  BY DEF NextDay, LockFree, At, files
<1>2. proc = NoProcess /\ proc' = NoProcess
  BY <1>1, Typed DEF ShapeOK, IdleOK
<1>3. MaxDays \in Nat /\ MaxDetails \in Nat /\ RepeatDays \in Nat
  BY ProductionAssumption
<1>4. Days \subseteq Nat /\ day \in Nat /\ day' \in Days
  BY <1>1, <1>3, Typed DEF Days
<1>5. RecordOK'
  BY <1>1, <1>3, <1>4 DEF ProductionInvariant, RecordOK
<1>6. ShapeOK(proc)' /\ ChoiceOK(proc)'
  <2>1. ShapeOK(proc)'
    BY <1>1, Typed DEF ShapeOK
  <2>2. Varied(proc.gathered \cup proc.issues)'
    BY <1>2, Nothing DEF Varied
  <2>3. ChoiceOK(proc)'
    BY <1>2, <2>2, Nothing DEF ChoiceOK, ChoiceFor, Working, Choosing
  <2> QED
    BY <2>1, <2>3
<1>7. VideosAreFresh'
  <2>1. \A d, e : RepeatsNothing(d, e)' <=> RepeatsNothing(d, e)
    BY <1>1 DEF RepeatsNothing
  <2>2. \A d : LatelyBefore(d)' = LatelyBefore(d)
    BY DEF LatelyBefore
  <2> QED
    BY <1>1, <2>1, <2>2 DEF ProductionInvariant, VideosAreFresh, VideoIsVaried, NotShownAgain
<1>8. TypeOK'
  BY <1>1, <1>2, <1>4, Nothing, Typed DEF ProductionInvariant, TypeOK
<1> QED
  BY <1>5, <1>6, <1>7, <1>8 DEF ProductionInvariant

-----------------------------------------------------------------------------
(* Steps of the choice.                                                      *)

LEMMA NextContinue ==
  ASSUME ProductionInvariant, NEW p, Continue(p), UNCHANGED <<source, scenario>>,
         ShapeOK(p), ChoiceOK(p)
  PROVE  ProductionInvariant'
<1>1. /\ UNCHANGED shown /\ proc' = p
      /\ UNCHANGED <<unit, attempts, told>>
  BY DEF Continue, shown
<1> QED
  BY <1>1, Typed, GoesOn

LEMMA Steps ==
  ASSUME ProductionInvariant, NEW next
  PROVE  LET p == Step(next) IN
         /\ Shape(p) /\ p.pc = next /\ p.by = proc.by /\ p.candidates = proc.candidates
         /\ p.gathered = proc.gathered /\ p.issues = proc.issues /\ p.planned = proc.planned
         /\ p.details = proc.details /\ p.filling = proc.filling /\ p.selected = proc.selected
         /\ p.rejected = proc.rejected
<1>1. Shape(proc)
  BY Typed DEF ShapeOK
<1> DEFINE p == Step(next)
<1>2. p = [proc EXCEPT !.pc = next]
  BY DEF Step
<1> HIDE DEF p
<1>3. p = [pc |-> next, by |-> proc.by, candidates |-> proc.candidates, selected |-> proc.selected,
           rejected |-> proc.rejected, gathered |-> proc.gathered, issues |-> proc.issues,
           planned |-> proc.planned, details |-> proc.details, filling |-> proc.filling]
  BY <1>1, <1>2 DEF Shape
<1> QED
  BY <1>3 DEF Shape, p

(* A process that is at work and has the issues it had. *)
LEMMA WorkGoesOn ==
  ASSUME ProductionInvariant, proc.pc \in Working, NEW p, Shape(p), p.pc \in Working,
         p.by = proc.by, p.issues = proc.issues, p.planned = proc.planned, p.filling = proc.filling,
         p.candidates \subseteq Fresh(day), p.gathered \subseteq Fresh(day),
         Varied(p.gathered \cup p.issues),
         p.details \in 0..MaxDetails, p.pc # "writes",
         p.pc \in Choosing => proc.pc \in Choosing \/ p.filling
  PROVE  ShapeOK(p) /\ ChoiceOK(p)
<1>1. IdleOK(p)
  BY DEF IdleOK, Working, Choosing
<1>2. ShapeOK(p)
  BY <1>1, Typed DEF ShapeOK
<1>3. ChoiceOK(p)
  BY Typed DEF ChoiceOK, ChoiceFor, ShapeOK
<1> QED
  BY <1>2, <1>3

LEMMA NextReads ==
  ASSUME ProductionInvariant, ReadSnapshot PROVE ProductionInvariant'
<1> DEFINE next == IF Fresh(day) = {} THEN "gathers" ELSE "selects"
           p == [proc EXCEPT !.pc = next, !.candidates = Fresh(day)]
<1>1. Continue(p) /\ UNCHANGED <<source, scenario>> /\ proc.pc = "reads"
  BY DEF ReadSnapshot, At
<1>2. Shape(proc)
  BY Typed DEF ShapeOK
<1>3. next \in {"gathers", "selects"}
  OBVIOUS
<1>4. p = [proc EXCEPT !.pc = next, !.candidates = Fresh(day)]
  OBVIOUS
<1> HIDE DEF p, next
<1>5. p = [pc |-> next, by |-> proc.by, candidates |-> Fresh(day), selected |-> proc.selected,
           rejected |-> proc.rejected, gathered |-> proc.gathered, issues |-> proc.issues,
           planned |-> proc.planned, details |-> proc.details, filling |-> proc.filling]
  BY <1>2, <1>4 DEF Shape
<1>6. /\ Shape(p) /\ p.pc = next /\ p.by = proc.by /\ p.candidates = Fresh(day)
      /\ p.gathered = proc.gathered /\ p.issues = proc.issues /\ p.planned = proc.planned
      /\ p.details = proc.details /\ p.filling = proc.filling
  BY <1>5 DEF Shape
<1>7. p.pc \in Working /\ proc.pc \in Working /\ proc.pc \in Choosing /\ p.pc # "writes"
  BY <1>1, <1>3, <1>6 DEF Working, Choosing
<1>8. p.gathered \subseteq Fresh(day) /\ Varied(p.gathered \cup p.issues) /\ p.details \in 0..MaxDetails
  BY <1>6, Typed DEF ChoiceOK, ChoiceFor, ShapeOK
<1>9. ShapeOK(p) /\ ChoiceOK(p)
  BY <1>6, <1>7, <1>8, WorkGoesOn
<1> QED
  BY <1>1, <1>9, NextContinue

LEMMA NextSelects ==
  ASSUME ProductionInvariant, proc.pc = "selects", NEW known, known \subseteq proc.candidates,
         \A i \in known : ~Clashes(i, proc.issues), NEW maximum \in Int, Selection(known, maximum),
         UNCHANGED <<source, scenario>>
  PROVE  ProductionInvariant'
<1>1. PICK rows \in Answers(known, Least(MaxGroups, maximum)) : \E wrong \in SUBSET Range(rows) :
        LET chosen == Accepted(rows, wrong) IN
          Continue([proc EXCEPT !.pc = "gathers", !.selected = @ \cup chosen,
                  !.rejected = @ \cup (Range(rows) \ chosen), !.gathered = chosen])
  BY DEF Selection
<1>0. PICK wrong \in SUBSET Range(rows) :
        LET chosen == Accepted(rows, wrong) IN
          Continue([proc EXCEPT !.pc = "gathers", !.selected = @ \cup chosen,
                  !.rejected = @ \cup (Range(rows) \ chosen), !.gathered = chosen])
  BY <1>1
<1> DEFINE chosen == Accepted(rows, wrong)
           selected == proc.selected \cup chosen
           rejected == proc.rejected \cup (Range(rows) \ chosen)
           p == [proc EXCEPT !.pc = "gathers", !.selected = selected, !.rejected = rejected,
                   !.gathered = chosen]
<1>2. Continue(p)
  BY <1>0
<1>3. chosen \subseteq known /\ Varied(chosen)
  <2>1. Least(MaxGroups, maximum) \in Int
    BY ProductionAssumption DEF Least
  <2>2. PICK n \in Nat : rows \in [1..n -> known]
    BY <2>1 DEF Answers
  <2> QED
    BY <2>2, AcceptedAre
<1>4. Shape(proc)
  BY Typed DEF ShapeOK
<1>5. p = [proc EXCEPT !.pc = "gathers", !.selected = selected, !.rejected = rejected,
             !.gathered = chosen]
  OBVIOUS
<1> HIDE DEF p, chosen, selected, rejected
<1>6. p = [pc |-> "gathers", by |-> proc.by, candidates |-> proc.candidates, selected |-> selected,
           rejected |-> rejected, gathered |-> chosen, issues |-> proc.issues,
           planned |-> proc.planned, details |-> proc.details, filling |-> proc.filling]
  BY <1>4, <1>5 DEF Shape
<1>7. /\ Shape(p) /\ p.pc = "gathers" /\ p.by = proc.by /\ p.candidates = proc.candidates
      /\ p.gathered = chosen /\ p.issues = proc.issues /\ p.planned = proc.planned
      /\ p.details = proc.details /\ p.filling = proc.filling
  BY <1>6 DEF Shape
<1>8. p.pc \in Working /\ proc.pc \in Working /\ proc.pc \in Choosing /\ p.pc # "writes"
  BY <1>7 DEF Working, Choosing
<1>9. Varied(chosen \cup proc.issues)
  <2>1. Varied(proc.issues)
    BY Typed, PartVaried DEF ChoiceOK, ChoiceFor
  <2> QED
    BY <2>1, <1>3 DEF Varied, Clashes
<1>10. p.candidates \subseteq Fresh(day) /\ p.gathered \subseteq Fresh(day)
  BY <1>3, <1>7, Typed DEF ChoiceOK, ChoiceFor
<1>11. Varied(p.gathered \cup p.issues) /\ p.details \in 0..MaxDetails
  BY <1>7, <1>9, Typed DEF ShapeOK
<1>12. ShapeOK(p) /\ ChoiceOK(p)
  BY <1>7, <1>8, <1>10, <1>11, WorkGoesOn
<1> QED
  BY <1>2, <1>12, NextContinue

LEMMA NextSelect ==
  ASSUME ProductionInvariant, Select PROVE ProductionInvariant'
<1>1. /\ proc.pc = "selects" /\ ~proc.filling /\ Selection(proc.candidates, MaxGroups)
      /\ UNCHANGED <<source, scenario>>
  BY DEF Select, At
<1>2. proc.issues = {}
  BY <1>1, Typed DEF ChoiceOK, ChoiceFor, Choosing
<1>3. \A i \in proc.candidates : ~Clashes(i, proc.issues)
  BY <1>2 DEF Clashes
<1>4. MaxGroups \in Int
  BY ProductionAssumption
<1> QED
  BY <1>1, <1>3, <1>4, NextSelects

LEMMA Finite ==
  ASSUME NEW S, S \subseteq Issues PROVE Cardinality(S) \in Nat
BY ProductionAssumption, FS_Subset, FS_CardinalityType

LEMMA NextRefill ==
  ASSUME ProductionInvariant, Refill PROVE ProductionInvariant'
<1>1. /\ proc.pc = "selects" /\ Selection(Reserve, proc.planned - Cardinality(proc.issues))
      /\ UNCHANGED <<source, scenario>>
  BY DEF Refill, At
<1>2. Reserve \subseteq proc.candidates /\ \A i \in Reserve : ~Clashes(i, proc.issues)
  BY DEF Reserve
<1>3. proc.issues \subseteq Issues /\ proc.planned \in Nat
  BY Typed DEF ChoiceOK, ChoiceFor, Fresh, ShapeOK
<1>4. proc.planned - Cardinality(proc.issues) \in Int
  BY <1>3, Finite
<1> QED
  BY <1>1, <1>2, <1>4, NextSelects

LEMMA NextGather ==
  ASSUME ProductionInvariant, Gather PROVE ProductionInvariant'
<1>1. PICK sound \in SUBSET proc.gathered :
        Continue([proc EXCEPT !.pc = "confirms", !.details = @ + Cardinality(proc.gathered),
                   !.rejected = @ \cup (proc.gathered \ sound), !.gathered = sound])
  BY DEF Gather
<1> DEFINE details == proc.details + Cardinality(proc.gathered)
           rejected == proc.rejected \cup (proc.gathered \ sound)
           p == [proc EXCEPT !.pc = "confirms", !.details = details, !.rejected = rejected,
                   !.gathered = sound]
<1>2. Continue(p) /\ UNCHANGED <<source, scenario>> /\ proc.pc = "gathers" /\ details <= MaxDetails
  BY <1>1 DEF Gather, At, Readable
<1>3. details \in 0..MaxDetails
  <2>1. MaxDetails \in Nat /\ proc.details \in 0..MaxDetails
    BY ProductionAssumption, Typed DEF ShapeOK
  <2>2. Cardinality(proc.gathered) \in Nat
    BY Typed, Finite DEF ChoiceOK, ChoiceFor, Fresh
  <2> QED
    BY <1>2, <2>1, <2>2
<1>4. Shape(proc)
  BY Typed DEF ShapeOK
<1>5. p = [proc EXCEPT !.pc = "confirms", !.details = details, !.rejected = rejected,
             !.gathered = sound]
  OBVIOUS
<1> HIDE DEF p, details, rejected
<1>6. p = [pc |-> "confirms", by |-> proc.by, candidates |-> proc.candidates, selected |-> proc.selected,
           rejected |-> rejected, gathered |-> sound, issues |-> proc.issues,
           planned |-> proc.planned, details |-> details, filling |-> proc.filling]
  BY <1>4, <1>5 DEF Shape
<1>7. /\ Shape(p) /\ p.pc = "confirms" /\ p.by = proc.by /\ p.candidates = proc.candidates
      /\ p.gathered = sound /\ p.issues = proc.issues /\ p.planned = proc.planned
      /\ p.details = details /\ p.filling = proc.filling
  BY <1>6 DEF Shape
<1>8. p.pc \in Working /\ proc.pc \in Working /\ proc.pc \in Choosing /\ p.pc # "writes"
  BY <1>2, <1>7 DEF Working, Choosing
<1>9. p.candidates \subseteq Fresh(day) /\ p.gathered \subseteq Fresh(day)
  BY <1>7, Typed DEF ChoiceOK, ChoiceFor
<1>10. Varied(p.gathered \cup p.issues)
  BY <1>7, Typed DEF ChoiceOK, ChoiceFor, Varied
<1>11. p.details \in 0..MaxDetails
  BY <1>3, <1>7
<1>12. ShapeOK(p) /\ ChoiceOK(p)
  BY <1>7, <1>8, <1>9, <1>10, <1>11, WorkGoesOn
<1> QED
  BY <1>2, <1>12, NextContinue

-----------------------------------------------------------------------------
(* Steps that file something, and those that end the choice.                 *)

(* source.json of today is written anew; no earlier day reads it. *)
LEMMA NextFiled ==
  ASSUME ProductionInvariant, NEW p, Continue(p), NEW filed, filed \subseteq Issues,
         source' = [source EXCEPT ![day] = filed], scenario' = scenario,
         ShapeOK(p), ChoiceFor(p, filed),
         filed = source[day] \/ made[day] = {} \/ day \in redone
  PROVE  ProductionInvariant'
<1>1. proc' = p /\ UNCHANGED <<day, unit, attempts, made, redone, told>>
  BY DEF Continue
<1>2. day \in Days /\ day \in Nat
  BY Typed DEF Days
<1>3. \A e \in Days : e # day => source'[e] = source[e]
  BY Typed
<1>4. source'[day] = filed /\ source' \in [Days -> SUBSET Issues]
  BY Typed
<1>5. Fresh(day)' = Fresh(day)
  <2>1. \A e \in LatelyBefore(day) : source'[e] = source[e] /\ scenario'[e] = scenario[e]
    BY <1>2, <1>3 DEF LatelyBefore, Days
  <2> QED
    BY <1>1, <2>1, RecentStays
<1>6. ShapeOK(proc)' /\ ChoiceOK(proc)'
  <2>1. ShapeOK(proc)'
    BY <1>1 DEF ShapeOK
  <2>2. ChoiceOK(proc)'
    BY <1>1, <1>4, <1>5 DEF ChoiceOK, ChoiceFor
  <2> QED
    BY <2>1, <2>2
<1>7. RecordOK'
  BY <1>1, <1>3, <1>4 DEF ProductionInvariant, RecordOK
<1>8. VideosAreFresh'
  <2>1. \A d, e : RepeatsNothing(d, e)' <=> RepeatsNothing(d, e)
    BY <1>1 DEF RepeatsNothing
  <2>2. \A d : LatelyBefore(d)' = LatelyBefore(d)
    BY DEF LatelyBefore
  <2> QED
    BY <1>1, <2>1, <2>2 DEF ProductionInvariant, VideosAreFresh, VideoIsVaried, NotShownAgain
<1>9. p.issues \subseteq Issues
  BY FreshIssues DEF ChoiceFor
<1>10. TypeOK'
  BY <1>1, <1>4, <1>6, <1>9, Typed DEF ProductionInvariant, TypeOK, ShapeOK
<1> QED
  BY <1>6, <1>7, <1>8, <1>10 DEF ProductionInvariant

LEMMA UnsuitableIsOK ==
  ASSUME ProductionInvariant, NEW filed
  PROVE  /\ ShapeOK(Process("unsuitable", proc.by, {}))
         /\ ChoiceFor(Process("unsuitable", proc.by, {}), filed)
<1> DEFINE p == Process("unsuitable", proc.by, {})
<1>1. proc.by \in {"none", "timer", "operator"}
  BY Typed DEF ShapeOK
<1>2. p = Process("unsuitable", proc.by, {})
  OBVIOUS
<1> HIDE DEF p
<1>3. /\ Shape(p) /\ p.pc = "unsuitable" /\ p.by = proc.by /\ p.candidates = {} /\ p.gathered = {}
      /\ p.issues = {} /\ p.planned = 0 /\ p.details = 0 /\ p.filling \in BOOLEAN
  BY <1>2, ProcessFields
<1>4. p.by \in {"none", "timer", "operator"}
  BY <1>1, <1>3
<1>5. IdleOK(p)
  BY <1>3 DEF IdleOK
<1>6. ShapeOK(p) /\ \A any : ChoiceFor(p, any)
  BY <1>3, <1>4, <1>5, EmptyIsOK
<1> QED
  BY <1>6 DEF p

LEMMA WithoutMoreIsOK ==
  ASSUME ProductionInvariant, proc.pc \in Working, NEW filed, proc.filling => proc.issues \subseteq filed
  PROVE  ShapeOK(WithoutMore) /\ ChoiceFor(WithoutMore, filed)
<1>1. CASE proc.filling
  <2>1. WithoutMore = Settled(proc.issues)
    BY <1>1 DEF WithoutMore
  <2>2. proc.issues \subseteq Fresh(day) /\ Varied(proc.issues)
    BY Typed, PartVaried DEF ChoiceOK, ChoiceFor
  <2> QED
    BY <1>1, <2>1, <2>2, SettledIsOK
<1>2. CASE ~proc.filling
  <2>1. WithoutMore = Process("unsuitable", proc.by, {})
    BY <1>2 DEF WithoutMore
  <2> QED
    BY <2>1, UnsuitableIsOK
<1> QED
  BY <1>1, <1>2

LEMMA NextConfirm ==
  ASSUME ProductionInvariant, Confirm PROVE ProductionInvariant'
<1> DEFINE filed == proc.gathered \cup (IF proc.filling THEN source[day] ELSE {})
           p == IF proc.gathered # {} THEN Step("writes") ELSE WithoutMore
<1>1. proc.pc = "confirms" /\ proc.pc \in Choosing /\ proc.pc \in Working
  BY DEF Confirm, At, Choosing, Working
<1>2. Continue(p) /\ source' = [source EXCEPT ![day] = filed] /\ scenario' = scenario
  BY DEF Confirm
<1>3. filed \subseteq Issues
  BY Typed, FreshIssues DEF ChoiceOK, ChoiceFor
<1>4. proc.issues \subseteq filed /\ (made[day] = {} \/ day \in redone)
  BY <1>1, Typed DEF ChoiceOK, ChoiceFor
<1>5. CASE proc.gathered # {}
  <2>1. p = Step("writes")
    BY <1>5
  <2>2. proc.gathered \subseteq filed
    OBVIOUS
  <2> HIDE DEF p, filed
  <2>3. /\ Shape(p) /\ p.pc = "writes" /\ p.by = proc.by /\ p.candidates = proc.candidates
        /\ p.gathered = proc.gathered /\ p.issues = proc.issues /\ p.planned = proc.planned
        /\ p.details = proc.details /\ p.filling = proc.filling
    BY <2>1, Steps
  <2>4. IdleOK(p)
    BY <2>3 DEF IdleOK
  <2>5. ShapeOK(p)
    BY <2>3, <2>4, Typed DEF ShapeOK, Working, Choosing
  <2>6. ChoiceFor(p, filed)
    BY <1>1, <1>4, <2>2, <2>3, Typed DEF ChoiceOK, ChoiceFor
  <2> QED
    BY <1>2, <1>3, <1>4, <2>5, <2>6, NextFiled
<1>6. CASE proc.gathered = {}
  <2>1. ShapeOK(p) /\ ChoiceFor(p, filed)
    BY <1>1, <1>4, <1>6, WithoutMoreIsOK
  <2> QED
    BY <1>2, <1>3, <1>4, <2>1, NextFiled
<1> QED
  BY <1>5, <1>6

LEMMA NextNothing ==
  ASSUME ProductionInvariant, NothingSelected PROVE ProductionInvariant'
<1> DEFINE filed == IF proc.filling THEN source[day] ELSE {}
<1>1. proc.pc = "gathers" /\ proc.pc \in Working
  BY DEF NothingSelected, At, Choosing, Working
<1>2. Continue(WithoutMore) /\ source' = [source EXCEPT ![day] = filed] /\ scenario' = scenario
  BY DEF NothingSelected
<1>3. filed \subseteq Issues
  BY Typed
<1>4. proc.filling => proc.issues \subseteq filed
  BY Typed DEF ChoiceOK, ChoiceFor
<1>5. made[day] = {} \/ day \in redone
  BY <1>1, Typed DEF ChoiceOK, ChoiceFor
<1>6. ShapeOK(WithoutMore) /\ ChoiceFor(WithoutMore, filed)
  BY <1>1, <1>4, WithoutMoreIsOK
<1> QED
  BY <1>2, <1>3, <1>5, <1>6, NextFiled

LEMMA NextSettled ==
  ASSUME ProductionInvariant, NEW issues, issues \subseteq Fresh(day), Varied(issues),
         issues \subseteq source[day], proc.pc \in Working, Continue(Settled(issues)),
         UNCHANGED <<source, scenario>>
  PROVE  ProductionInvariant'
BY SettledIsOK, NextContinue DEF ChoiceOK

LEMMA NextWrite ==
  ASSUME ProductionInvariant, Write PROVE ProductionInvariant'
<1>1. proc.pc = "writes" /\ proc.pc \in Working /\ proc.pc \in Choosing /\ UNCHANGED <<source, scenario>>
  BY DEF Write, At, Working, Choosing
<1>2. PICK written \in SUBSET proc.gathered \ {{}} :
       Continue(IF proc.filling \/ written = proc.gathered
                THEN Settled(proc.issues \cup written)
                ELSE [Step("refills") EXCEPT !.issues = written, !.gathered = {},
                        !.planned = Cardinality(proc.gathered),
                        !.rejected = @ \cup (proc.gathered \ written)])
  BY DEF Write
<1>3. /\ proc.issues \cup written \subseteq Fresh(day) /\ Varied(proc.issues \cup written)
      /\ proc.issues \cup written \subseteq source[day]
  BY <1>1, Typed DEF ChoiceOK, ChoiceFor, Varied
<1>4. CASE proc.filling \/ written = proc.gathered
  <2>1. Continue(Settled(proc.issues \cup written))
    BY <1>2, <1>4
  <2> QED
    BY <1>1, <1>3, <2>1, NextSettled
<1>5. CASE ~(proc.filling \/ written = proc.gathered)
  <2> DEFINE q == Step("refills")
             planned == Cardinality(proc.gathered)
             rejected == q.rejected \cup (proc.gathered \ written)
             p == [q EXCEPT !.issues = written, !.gathered = {}, !.planned = planned,
                     !.rejected = rejected]
  <2>1. Continue(p)
    BY <1>2, <1>5
  <2>2. planned \in Nat
    BY Typed, Finite, FreshIssues DEF ChoiceOK, ChoiceFor
  <2>3. p = [q EXCEPT !.issues = written, !.gathered = {}, !.planned = planned, !.rejected = rejected]
    OBVIOUS
  <2>4. /\ Shape(q) /\ q.pc = "refills" /\ q.by = proc.by /\ q.candidates = proc.candidates
        /\ q.details = proc.details /\ q.filling = proc.filling
    BY Steps
  <2> HIDE DEF p, q, planned, rejected
  <2>5. p = [pc |-> q.pc, by |-> q.by, candidates |-> q.candidates, selected |-> q.selected,
             rejected |-> rejected, gathered |-> {}, issues |-> written,
             planned |-> planned, details |-> q.details, filling |-> q.filling]
    BY <2>3, <2>4 DEF Shape
  <2>6. /\ Shape(p) /\ p.pc = "refills" /\ p.by = proc.by /\ p.candidates = proc.candidates
        /\ p.gathered = {} /\ p.issues = written /\ p.planned = planned
        /\ p.details = proc.details /\ p.filling = proc.filling
    BY <2>4, <2>5 DEF Shape
  <2>7. IdleOK(p)
    BY <2>6 DEF IdleOK
  <2>8. ShapeOK(p)
    BY <2>2, <2>6, <2>7, Typed DEF ShapeOK, Working
  <2>9. Varied(p.gathered \cup p.issues)
    BY <1>3, <2>6, PartVaried
  <2>10. ChoiceOK(p)
    BY <1>1, <1>3, <2>6, <2>9, Typed DEF ChoiceOK, ChoiceFor, Choosing
  <2> QED
    BY <1>1, <2>1, <2>8, <2>10, NextContinue
<1> QED
  BY <1>4, <1>5

LEMMA Held ==
  ASSUME ProductionInvariant
  PROVE  proc.issues \subseteq Fresh(day) /\ Varied(proc.issues) /\ proc.issues \subseteq source[day]
BY Typed, PartVaried DEF ChoiceOK, ChoiceFor

LEMMA NextStartRefill ==
  ASSUME ProductionInvariant, StartRefill PROVE ProductionInvariant'
<1>1. proc.pc = "refills" /\ proc.pc \in Working /\ UNCHANGED <<source, scenario>>
  BY DEF StartRefill, At, Working
<1>2. CASE Reserve = {}
  BY <1>1, <1>2, Held, NextSettled DEF StartRefill
<1>3. CASE Reserve # {}
  <2> DEFINE q == Step("selects")
             p == [q EXCEPT !.filling = TRUE]
  <2>1. Continue(p)
    BY <1>3 DEF StartRefill
  <2>2. p = [q EXCEPT !.filling = TRUE]
    OBVIOUS
  <2>3. /\ Shape(q) /\ q.pc = "selects" /\ q.by = proc.by /\ q.candidates = proc.candidates
        /\ q.gathered = proc.gathered /\ q.issues = proc.issues /\ q.planned = proc.planned
        /\ q.details = proc.details
    BY Steps
  <2> HIDE DEF p, q
  <2>4. p = [pc |-> q.pc, by |-> q.by, candidates |-> q.candidates, selected |-> q.selected,
             rejected |-> q.rejected, gathered |-> q.gathered, issues |-> q.issues,
             planned |-> q.planned, details |-> q.details, filling |-> TRUE]
    BY <2>2, <2>3 DEF Shape
  <2>5. /\ Shape(p) /\ p.pc = "selects" /\ p.by = proc.by /\ p.candidates = proc.candidates
        /\ p.gathered = proc.gathered /\ p.issues = proc.issues /\ p.planned = proc.planned
        /\ p.details = proc.details /\ p.filling = TRUE
    BY <2>3, <2>4 DEF Shape
  <2>6. IdleOK(p)
    BY <2>5 DEF IdleOK
  <2>7. ShapeOK(p)
    BY <2>5, <2>6, Typed DEF ShapeOK, Working, Choosing
  <2>8. ChoiceOK(p)
    BY <1>1, <2>5, Typed DEF ChoiceOK, ChoiceFor
  <2> QED
    BY <1>1, <2>1, <2>7, <2>8, NextContinue
<1> QED
  BY <1>2, <1>3

LEMMA NextRefillFails ==
  ASSUME ProductionInvariant, RefillFails PROVE ProductionInvariant'
<1>1. proc.pc \in Working /\ Continue(Settled(proc.issues)) /\ UNCHANGED <<source, scenario>>
  BY DEF RefillFails, Working, Choosing
<1> QED
  BY <1>1, Held, NextSettled

(* scenario.json of today; no earlier day reads it. *)
LEMMA NextBuild ==
  ASSUME ProductionInvariant, Build PROVE ProductionInvariant'
<1> DEFINE p == Step("renders")
<1>1. /\ proc.pc = "builds" /\ proc.pc \in Working /\ proc' = p
      /\ scenario' = [scenario EXCEPT ![day] = proc.issues]
      /\ UNCHANGED <<day, unit, attempts, source, made, redone, told>>
  BY DEF Build, Continue, At, Working
<1> HIDE DEF p
<1>2. /\ Shape(p) /\ p.pc = "renders" /\ p.by = proc.by /\ p.candidates = proc.candidates
      /\ p.gathered = proc.gathered /\ p.issues = proc.issues /\ p.planned = proc.planned
      /\ p.details = proc.details /\ p.filling = proc.filling
  BY Steps DEF p
<1>3. p.pc \in Working /\ p.pc # "writes" /\ p.pc \notin Choosing
  BY <1>2 DEF Working, Choosing
<1>4. /\ p.candidates \subseteq Fresh(day) /\ p.gathered \subseteq Fresh(day)
      /\ Varied(p.gathered \cup p.issues) /\ p.details \in 0..MaxDetails
  BY <1>2, Typed DEF ChoiceOK, ChoiceFor, ShapeOK
<1>5. ShapeOK(p) /\ ChoiceOK(p)
  BY <1>1, <1>2, <1>3, <1>4, WorkGoesOn
<1>6. day \in Days /\ day \in Nat
  BY Typed DEF Days
<1>7. \A e \in LatelyBefore(day) : source'[e] = source[e] /\ scenario'[e] = scenario[e]
  BY <1>1, <1>6, Typed DEF LatelyBefore, Days
<1>8. Fresh(day)' = Fresh(day)
  BY <1>1, <1>7, RecentStays
<1>9. ShapeOK(proc)' /\ ChoiceOK(proc)'
  <2>1. ShapeOK(proc)'
    BY <1>1, <1>5 DEF ShapeOK
  <2>2. ChoiceOK(proc)'
    BY <1>1, <1>5, <1>8 DEF ChoiceOK, ChoiceFor
  <2> QED
    BY <2>1, <2>2
<1>10. RecordOK'
  BY <1>1 DEF ProductionInvariant, RecordOK
<1>11. VideosAreFresh'
  <2>1. \A d, e : RepeatsNothing(d, e)' <=> RepeatsNothing(d, e)
    BY <1>1 DEF RepeatsNothing
  <2>2. \A d : LatelyBefore(d)' = LatelyBefore(d)
    BY DEF LatelyBefore
  <2> QED
    BY <1>1, <2>1, <2>2 DEF ProductionInvariant, VideosAreFresh, VideoIsVaried, NotShownAgain
<1>12. p.issues \subseteq Issues
  BY <1>2, Held, FreshIssues
<1>13. scenario' \in [Days -> SUBSET Issues]
  BY <1>1, <1>2, <1>12, Typed
<1>14. TypeOK'
  BY <1>1, <1>9, <1>12, <1>13, Typed DEF ProductionInvariant, TypeOK, ShapeOK
<1> QED
  BY <1>9, <1>10, <1>11, <1>14 DEF ProductionInvariant

(* The video of today: its issues are new to the last days, whose files name *)
(* all that their videos tell; no later day has one.                         *)
LEMMA NextRender ==
  ASSUME ProductionInvariant, Render PROVE ProductionInvariant'
<1>1. /\ proc.pc = "renders" /\ proc.pc \in Working /\ proc' = Process("succeeds", proc.by, {})
      /\ made' = [made EXCEPT ![day] = proc.issues]
      /\ UNCHANGED <<day, unit, attempts, source, scenario, redone, told>>
  BY DEF Render, At, Working
<1>2. day \in Days /\ day \in Nat /\ Days \subseteq Nat /\ RepeatDays \in Nat
  BY Typed, ProductionAssumption DEF Days
<1>3. made'[day] = proc.issues /\ \A e \in Days : e # day => made'[e] = made[e]
  BY <1>1, <1>2, Typed
<1>4. ShapeOK(proc)' /\ ChoiceOK(proc)'
  <2>1. /\ Shape(proc)' /\ proc'.pc = "succeeds" /\ proc'.by = proc.by /\ proc'.candidates = {}
        /\ proc'.gathered = {} /\ proc'.issues = {} /\ proc'.planned = 0 /\ proc'.details = 0
        /\ proc'.filling \in BOOLEAN
    BY <1>1, ProcessFields DEF Shape
  <2>2. MaxDetails \in Nat
    BY ProductionAssumption
  <2>3. 0 \in 0..MaxDetails
    BY ONLY <2>2
  <2>4. IdleOK(proc)'
    BY <2>1 DEF IdleOK
  <2>5. ShapeOK(proc)'
    BY <2>1, <2>3, <2>4, Typed DEF ShapeOK
  <2>6. Varied(proc.gathered \cup proc.issues)'
    BY <2>1 DEF Varied
  <2>7. ChoiceOK(proc)'
    BY <2>1, <2>6 DEF ChoiceOK, ChoiceFor, Working, Choosing
  <2> QED
    BY <2>5, <2>7
<1>5. RecordOK'
  <2>1. proc.issues \subseteq source[day]
    BY Held
  <2> QED
    BY <1>1, <1>2, <1>3, <2>1 DEF ProductionInvariant, RecordOK
<1>6. VideoIsVaried'
  <2>1. Varied(proc.issues)
    BY Held
  <2> QED
    BY <1>3, <2>1 DEF ProductionInvariant, VideosAreFresh, VideoIsVaried, Varied
<1>7. NotShownAgain'
  <2> SUFFICES ASSUME NEW d \in Days, NEW e \in LatelyBefore(d) \ redone PROVE RepeatsNothing(d, e)'
    BY <1>1 DEF NotShownAgain, LatelyBefore
  <2>1. e \in Days /\ e < d /\ d - e <= RepeatDays
    BY DEF LatelyBefore
  <2>2. CASE d = day
    <3>1. made'[e] = made[e] /\ made[e] \subseteq source[e]
      BY <1>2, <1>3, <2>1, <2>2 DEF ProductionInvariant, RecordOK
    <3>2. made'[d] \subseteq Fresh(day)
      BY <1>3, <2>2, Held
    <3>3. \A i \in Fresh(day), j \in source[e] :
            i # j /\ (TopicOf[i] = TopicOf[j] => TopicOf[i] = NoTopic)
      BY <2>2 DEF Fresh, RecentIds, RecentTopics
    <3> QED
      BY <3>1, <3>2, <3>3 DEF RepeatsNothing
  <2>3. CASE d # day /\ e = day
    <3>1. made'[d] = {}
      BY <1>2, <1>3, <2>1, <2>3 DEF ProductionInvariant, RecordOK
    <3> QED
      BY <3>1 DEF RepeatsNothing
  <2>4. CASE d # day /\ e # day
    <3>1. RepeatsNothing(d, e)
      BY DEF ProductionInvariant, VideosAreFresh, NotShownAgain
    <3> QED
      BY <1>3, <2>1, <2>4, <3>1 DEF RepeatsNothing
  <2> QED
    BY <2>2, <2>3, <2>4
<1>8. made' \in [Days -> SUBSET Issues]
  BY <1>1, Held, FreshIssues, Typed
<1>9. proc'.issues \subseteq Issues
  BY <1>4, FreshIssues DEF ChoiceOK, ChoiceFor, Fresh
<1>10. TypeOK'
  BY <1>1, <1>4, <1>8, <1>9, Typed DEF ProductionInvariant, TypeOK, ShapeOK
<1> QED
  BY <1>4, <1>5, <1>6, <1>7, <1>10 DEF ProductionInvariant, VideosAreFresh

-----------------------------------------------------------------------------
LEMMA FirstProduction == Init => ProductionInvariant
<1> SUFFICES ASSUME Init PROVE ProductionInvariant
  OBVIOUS
<1>1. MaxDays \in Nat \ {0} /\ MaxDetails \in Nat
  BY ProductionAssumption
<1>2. 0 \in 0..MaxDetails
  BY ONLY <1>1
<1>3. day \in Days /\ day = 1
  BY <1>1 DEF Init, Days
<1>4. proc = NoProcess /\ IdleOK(proc)
  BY DEF Init, IdleOK
<1>5. ShapeOK(proc) /\ ChoiceOK(proc)
  BY <1>4, Nothing, EmptyIsOK DEF ChoiceOK
<1>6. RecordOK /\ VideosAreFresh
  BY DEF Init, RecordOK, VideosAreFresh, VideoIsVaried, NotShownAgain, RepeatsNothing, LatelyBefore
<1>7. [d \in Days |-> {}] \in [Days -> SUBSET Issues]
  OBVIOUS
<1>8. [d \in Days |-> NoAttempts] \in [Days -> Attempt]
  BY DEF NoAttempts, Attempt
<1>9. attempts \in [Days -> Attempt] /\ {source, scenario, made} \subseteq [Days -> SUBSET Issues]
  BY <1>7, <1>8 DEF Init
<1>10. unit = "waits" /\ redone = {} /\ told = {}
  BY DEF Init
<1>11. proc.issues \subseteq Issues /\ proc.details \in 0..MaxDetails
       /\ proc.by \in {"none", "timer", "operator"}
  BY <1>2, <1>4, Nothing
<1>12. TypeOK
  BY <1>3, <1>9, <1>10, <1>11 DEF TypeOK, Attempt
<1> QED
  BY <1>5, <1>6, <1>12 DEF ProductionInvariant

(* Every step keeps the invariant: each operation of the module has its      *)
(* lemma above.                                                              *)
LEMMA NextProduction == ProductionInvariant /\ [Next]_vars => ProductionInvariant'
<1> SUFFICES ASSUME ProductionInvariant, [Next]_vars PROVE ProductionInvariant'
  OBVIOUS
<1>1. CASE TimerStep
  BY <1>1, NextTimerStarts, NextRefused, NextAround DEF TimerStep
<1>2. CASE ProductionStep
  BY <1>2, NextReads, NextSelect, NextRefill, NextGather, NextConfirm, NextNothing, NextWrite,
     NextStartRefill, NextRefillFails, NextBuild, NextRender, NextAround DEF ProductionStep
<1>3. CASE NextDay
  BY <1>3, NextDayKeeps
<1>4. CASE Killed \/ Reboot \/ UNCHANGED vars \/ \E d \in Days : BotTells(d) \/ BotAcknowledges(d)
  BY <1>4, NextAround
<1>5. CASE \E force \in BOOLEAN : OperatorStarts(force)
  BY <1>5, NextOperatorStarts
<1> QED
  BY <1>1, <1>2, <1>3, <1>4, <1>5 DEF Next

(* The variables keep their types and the production under way its duties:   *)
(* what it has chosen is new to the last days and in its source.json, and    *)
(* while it works the day has no video or is made again (prepare_daily,      *)
(* select, gather, write_issues, attempts.run).                              *)
THEOREM ProductionIsSound == Spec => []ProductionInvariant
BY FirstProduction, NextProduction, PTL DEF Spec

THEOREM ProductionTypes == Spec => []TypeOK
<1>1. ProductionInvariant => TypeOK
  BY DEF ProductionInvariant
<1> QED
  BY <1>1, ProductionIsSound, PTL

(* A video tells a sector and a topic once, and none that a video of the     *)
(* last repeat_days told, however the attempts of those days were cut short  *)
(* and begun again; days made again with --force excepted                    *)
(* (recently_featured, prune_old_days, validate_selection, _backfill).       *)
THEOREM VideosStayFresh == Spec => []VideosAreFresh
<1>1. ProductionInvariant => VideosAreFresh
  BY DEF ProductionInvariant
<1> QED
  BY <1>1, ProductionIsSound, PTL
=============================================================================

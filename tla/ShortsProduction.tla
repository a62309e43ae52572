-------------------------- MODULE ShortsProduction --------------------------
(***************************************************************************)
(* How a day's short comes to be (shorts/src/polymarket_shorts): the       *)
(* attempts of the evening's systemd unit (attempts.py), the choice of the *)
(* issues and their scripts with the single refill (pipeline.prepare_daily,*)
(* highlights.py), the files later days read to avoid repeating themselves,*)
(* and the notice the bot sends for a day that was given up.               *)
(*                                                                         *)
(* What happens to a finished video is ShortsGate's matter.  The language  *)
(* model is external: its answer is any answer, and only what the code     *)
(* accepts of it is kept.  Every call to it, to the web API, to the speech *)
(* and rendering programs may fail, and the process may be killed at any   *)
(* step (TimeoutStartSec, MemoryMax); a reboot also loses the pending      *)
(* restart of the unit.                                                    *)
(*                                                                         *)
(* Assumed: a production ends on the day it began on.                      *)
(***************************************************************************)
EXTENDS Naturals, Sequences, FiniteSets, FiniteSetsExt, SequencesExt

CONSTANTS
  Issues,         \* the events of the collected data
  SectorOf,       \* SectorOf[i]: the sector of an event
  TopicOf,        \* TopicOf[i]: its title without dates and numbers
  MaxAttempts,    \* MAX_ATTEMPTS of the timer's productions a day
  MaxGroups,      \* settings.max_groups, most issues of a video
  MaxDetails,     \* MAX_DETAILS, event pages read by one client
  RepeatDays,     \* settings.repeat_days
  RetentionDays,  \* RETENTION_DAYS
  MaxDays,        \* bound: days
  MaxManual,      \* bound: productions the operator starts
  MaxReboots      \* bound: reboots

ASSUME ProductionAssumption ==
  /\ IsFiniteSet(Issues)
  /\ SectorOf \in [Issues -> STRING]
  /\ TopicOf \in [Issues -> STRING]
  /\ {MaxAttempts, MaxGroups, MaxDetails, RepeatDays, MaxDays} \subseteq Nat \ {0}
  /\ {RetentionDays, MaxManual, MaxReboots} \subseteq Nat

VARIABLES
  day,         \* today
  unit,        \* the systemd unit of today: "waits", "runs", "restarts", "ended"
  attempts,    \* attempts[d]: attempts.json of the folder of day d
  source,      \* source[d]: issues of its source.json
  scenario,    \* scenario[d]: issues of its scenario.json
  made,        \* made[d]: issues of the video state.json names ({}: none)
  redone,      \* days the operator had made again with --force
  proc,        \* the production under way and its local variables; it holds .workflow.lock
  told,        \* days whose notice reached Telegram
  manual,      \* productions the operator has started
  cut          \* days on which the machine was rebooted

files == <<attempts, source, scenario, made>>
vars == <<day, unit, files, redone, proc, told, manual, cut>>

-----------------------------------------------------------------------------
Days == 1..MaxDays

NoAttempts ==
  [tried |-> 0, gaveUp |-> FALSE, succeeded |-> FALSE, notified |-> FALSE]

NoProcess ==
  [pc |-> "none", by |-> "none", candidates |-> {}, selected |-> {},
   rejected |-> {}, gathered |-> {}, issues |-> {}, planned |-> 0, details |-> 0,
   filling |-> FALSE]

Step(next) == [proc EXCEPT !.pc = next]

Process(next, by, issues) == [NoProcess EXCEPT !.pc = next, !.by = by, !.issues = issues]

(* The choice is over: only its issues are still needed                      *)
Settled(issues) == Process("builds", proc.by, issues)

At(step) == proc.pc = step
LockFree == At("none")
Timed == proc.by = "timer"

(* validate_selection: an event, a sector and a topic are taken once         *)
Clashes(i, chosen) ==
  \E j \in chosen : i = j \/ SectorOf[i] = SectorOf[j] \/ TopicOf[i] = TopicOf[j]

(* The rows of the model's answer are taken in order: a row whose title and *)
(* topic do not fit its id (`wrong`), or that clashes with one already      *)
(* taken, is rejected and the rest are kept.                                *)
Accepted(rows, wrong) ==
  LET before(n, places) == {rows[m] : m \in {k \in places : k < n}}
      kept == CHOOSE places \in SUBSET DOMAIN rows : \A n \in DOMAIN rows :
                n \in places <=> rows[n] \notin wrong /\ ~Clashes(rows[n], before(n, places))
  IN {rows[n] : n \in kept}

(* Answers to one selection: at most `maximum` known ids, repetitions included *)
Answers(known, maximum) == UNION {[1..n -> known] : n \in 0..maximum}

(* The earlier days whose folders tell what was shown lately                 *)
LatelyBefore(d) == {e \in Days : e < d /\ d - e <= RepeatDays}

(* A title of dates and numbers only                                         *)
NoTopic == ""

(* recently_featured: ids from both files, topics from source.json           *)
RecentIds(d) == UNION {source[e] \cup scenario[e] : e \in LatelyBefore(d)}
RecentTopics(d) == {TopicOf[i] : i \in UNION {source[e] : e \in LatelyBefore(d)}} \ {NoTopic}

(* defect: variants of a topic count as fresh                                *)
FreshIds(d) == Issues \ RecentIds(d)

Fresh(d) == {i \in Issues : i \notin RecentIds(d) /\ TopicOf[i] \notin RecentTopics(d)}

(* prune_old_days: the folders that survive the start of a production        *)
Kept(d) == {e \in Days : d - e < Max({RetentionDays, RepeatDays + 1})}

(* _backfill: what may fill the place of an issue whose script was refused   *)
Reserve ==
  {i \in proc.candidates \ (proc.selected \cup proc.rejected) : ~Clashes(i, proc.issues)}

-----------------------------------------------------------------------------
Init ==
  /\ day = 1
  /\ unit = "waits"
  /\ attempts = [d \in Days |-> NoAttempts]
  /\ source = [d \in Days |-> {}]
  /\ scenario = [d \in Days |-> {}]
  /\ made = [d \in Days |-> {}]
  /\ redone = {}
  /\ proc = NoProcess
  /\ told = {}
  /\ manual = 0
  /\ cut = {}

NextDay ==
  /\ day < MaxDays /\ unit = "ended" /\ LockFree
  /\ day' = day + 1
  /\ unit' = "waits"
  /\ UNCHANGED <<files, redone, proc, told, manual, cut>>

(* The start of a production: old folders go, and a day that has its video  *)
(* is left as it is unless the operator insists.                            *)
Begin(by, force) ==
  /\ source' = [d \in Days |-> IF d \in Kept(day) THEN source[d] ELSE {}]
  /\ scenario' = [d \in Days |-> IF d \in Kept(day) THEN scenario[d] ELSE {}]
  /\ proc' = Process(IF made[day] # {} /\ ~force THEN "succeeds" ELSE "reads", by, {})
  /\ UNCHANGED made

Pruned(record) == [d \in Days |-> IF d \in Kept(day) THEN record[d] ELSE NoAttempts]

(* defect: the attempt is counted when it fails                              *)
TriedAtTheEnd(record) == record

Tried(record) == [record EXCEPT !.tried = IF record.succeeded THEN @ ELSE @ + 1]

(* attempts.run, first half: the attempt is counted before it begins.       *)
(* Refused by .workflow.lock it fails at once.                              *)
Due == unit \in {"waits", "restarts"}
Spent(record) == ~record.succeeded /\ record.tried >= MaxAttempts

TimerStarts ==
  /\ Due /\ ~attempts[day].gaveUp /\ ~Spent(attempts[day])
  /\ unit' = "runs"
  /\ LockFree
  /\ Begin("timer", FALSE)
  /\ attempts' = Pruned([attempts EXCEPT ![day] = Tried(@)])
  /\ UNCHANGED <<day, redone, told, manual, cut>>

(* attempts._failed: a failed attempt gives the day up once all are spent;  *)
(* until then the process ends badly and systemd starts it again.           *)
Failed(record) == [record EXCEPT !.gaveUp = record.tried >= MaxAttempts]
UnitAfter(record) == IF Failed(record).gaveUp THEN "ended" ELSE "restarts"

TimerIsRefused ==
  /\ Due /\ ~attempts[day].gaveUp /\ ~Spent(attempts[day]) /\ ~LockFree
  /\ LET counted == Tried(attempts[day]) IN
       /\ attempts' = Pruned([attempts EXCEPT ![day] = Failed(counted)])
       /\ unit' = UnitAfter(counted)
  /\ source' = [d \in Days |-> IF d \in Kept(day) THEN source[d] ELSE {}]
  /\ scenario' = [d \in Days |-> IF d \in Kept(day) THEN scenario[d] ELSE {}]
  /\ UNCHANGED <<day, made, redone, proc, told, manual, cut>>

(* The attempts before left no result: the day is given up, nothing is made. *)
TimerGivesUp ==
  /\ Due /\ (attempts[day].gaveUp \/ Spent(attempts[day]))
  /\ attempts' = [attempts EXCEPT ![day].gaveUp = TRUE]
  /\ unit' = "ended"
  /\ UNCHANGED <<day, source, scenario, made, redone, proc, told, manual, cut>>

(* /shorts run and /shorts run force: not counted                            *)
OperatorStarts(force) ==
  /\ manual < MaxManual /\ LockFree
  /\ Begin("operator", force)
  /\ attempts' = Pruned(attempts)
  /\ redone' = IF force /\ made[day] # {} THEN redone \cup {day} ELSE redone
  /\ manual' = manual + 1
  /\ UNCHANGED <<day, unit, told, cut>>

-----------------------------------------------------------------------------
(* Steps of the production under way                                         *)

Continue(p) ==
  /\ proc' = p
  /\ UNCHANGED <<day, unit, attempts, made, redone, told, manual, cut>>

(* prepare_daily: one generation of the dashboard, without what was shown    *)
ReadSnapshot ==
  /\ At("reads")
  /\ Continue([proc EXCEPT !.pc = IF Fresh(day) = {} THEN "gathers" ELSE "selects",
                 !.candidates = Fresh(day)])
  /\ UNCHANGED <<source, scenario>>

Least(a, b) == IF a < b THEN a ELSE b

Selection(known, maximum) ==
  \E rows \in Answers(known, Least(MaxGroups, maximum)) : \E wrong \in SUBSET Range(rows) :
    LET chosen == Accepted(rows, wrong) IN
      Continue([proc EXCEPT !.pc = "gathers", !.selected = @ \cup chosen,
                  !.rejected = @ \cup (Range(rows) \ chosen), !.gathered = chosen])

Select ==
  /\ At("selects") /\ ~proc.filling
  /\ Selection(proc.candidates, MaxGroups)
  /\ UNCHANGED <<source, scenario>>

(* The refill asks once more, for as many as were lost                       *)
Refill ==
  /\ At("selects") /\ proc.filling
  /\ Selection(Reserve, proc.planned - Cardinality(proc.issues))
  /\ UNCHANGED <<source, scenario>>

(* client.detail refuses a page beyond its budget, and the caller then loses *)
(* the whole batch; a page of another generation is refused too, and so is a *)
(* batch at whose end the generation changed: these are among the errors of  *)
(* Fail and RefillFails.                                                     *)
Readable == proc.details + Cardinality(proc.gathered) <= MaxDetails

(* gather: an event whose page is incomplete is dropped, the others are      *)
(* written to source.json if the generation is still the same at the end.    *)
Gather ==
  /\ At("gathers") /\ proc.gathered # {} /\ Readable
  /\ \E sound \in SUBSET proc.gathered :
       Continue([proc EXCEPT !.pc = "confirms", !.details = @ + Cardinality(proc.gathered),
                   !.rejected = @ \cup (proc.gathered \ sound), !.gathered = sound])
  /\ UNCHANGED <<source, scenario>>

WithoutMore == IF proc.filling THEN Settled(proc.issues)
               ELSE Process("unsuitable", proc.by, {})

Confirm ==
  /\ At("confirms")
  /\ source' = [source EXCEPT ![day] = proc.gathered \cup (IF proc.filling THEN @ ELSE {})]
  /\ Continue(IF proc.gathered # {} THEN Step("writes") ELSE WithoutMore)
  /\ UNCHANGED scenario

(* Nothing was selected: the refill ends with what there is, the first       *)
(* selection ends the day without a video.                                   *)
NothingSelected ==
  /\ At("gathers") /\ proc.gathered = {}
  /\ source' = [source EXCEPT ![day] = IF proc.filling THEN @ ELSE {}]
  /\ Continue(WithoutMore)
  /\ UNCHANGED scenario

(* write_issues: the scripts that pass, after one correction; the issues     *)
(* that still fail are left out, and all failing is an error.                *)
Write ==
  /\ At("writes")
  /\ \E written \in SUBSET proc.gathered \ {{}} :
       Continue(IF proc.filling \/ written = proc.gathered
                THEN Settled(proc.issues \cup written)
                ELSE [Step("refills") EXCEPT !.issues = written, !.gathered = {},
                        !.planned = Cardinality(proc.gathered),
                        !.rejected = @ \cup (proc.gathered \ written)])
  /\ UNCHANGED <<source, scenario>>

StartRefill ==
  /\ At("refills")
  /\ Continue(IF Reserve = {} THEN Settled(proc.issues)
              ELSE [Step("selects") EXCEPT !.filling = TRUE])
  /\ UNCHANGED <<source, scenario>>

(* An error of the refill leaves the video its first issues                  *)
RefillFails ==
  /\ proc.filling /\ proc.pc \in {"selects", "gathers", "confirms", "writes"}
  /\ Continue(Settled(proc.issues))
  /\ UNCHANGED <<source, scenario>>

(* build_scenario, and scenario.json before anything is rendered             *)
Build ==
  /\ At("builds")
  /\ scenario' = [scenario EXCEPT ![day] = proc.issues]
  /\ Continue(Step("renders"))
  /\ UNCHANGED source

Render ==
  /\ At("renders")
  /\ made' = [made EXCEPT ![day] = proc.issues]
  /\ proc' = Process("succeeds", proc.by, {})
  /\ UNCHANGED <<day, unit, attempts, source, scenario, redone, told, manual, cut>>

(* The end without an error; no suitable issue is one of them                *)
Succeed ==
  /\ proc.pc \in {"succeeds", "unsuitable"}
  /\ proc' = NoProcess
  /\ IF Timed THEN /\ attempts' = [attempts EXCEPT ![day].succeeded = TRUE]
                   /\ unit' = "ended"
              ELSE UNCHANGED <<attempts, unit>>
  /\ UNCHANGED <<day, source, scenario, made, redone, told, manual, cut>>

CanFail == ~LockFree /\ proc.pc \notin {"succeeds", "unsuitable", "refills"}

(* An error that reaches the caller                                          *)
Fail ==
  /\ CanFail
  /\ proc.filling => proc.pc \in {"builds", "renders"}
  /\ proc' = NoProcess
  /\ IF Timed THEN /\ attempts' = [attempts EXCEPT ![day] = Failed(@)]
                   /\ unit' = UnitAfter(attempts[day])
              ELSE UNCHANGED <<attempts, unit>>
  /\ UNCHANGED <<day, source, scenario, made, redone, told, manual, cut>>

(* Killed by a time or memory limit: nothing is recorded                     *)
Killed ==
  /\ ~LockFree
  /\ proc' = NoProcess
  /\ unit' = IF Timed THEN "restarts" ELSE unit
  /\ UNCHANGED <<day, files, redone, told, manual, cut>>

(* After a reboot the timer finds that it fired today already                *)
Reboot ==
  /\ Cardinality(cut) < MaxReboots
  /\ cut' = cut \cup {day}
  /\ proc' = NoProcess
  /\ unit' = IF unit = "waits" THEN "waits" ELSE "ended"
  /\ UNCHANGED <<day, files, redone, told, manual>>

-----------------------------------------------------------------------------
(* The bot's poll, every minute                                              *)

Untold(d) == attempts[d].gaveUp /\ ~attempts[d].notified

BotTells(d) ==
  /\ Untold(d) /\ d \notin told
  /\ told' = told \cup {d}
  /\ UNCHANGED <<day, unit, files, redone, proc, manual, cut>>

(* attempts.acknowledge                                                      *)
BotAcknowledges(d) ==
  /\ Untold(d) /\ d \in told
  /\ attempts' = [attempts EXCEPT ![d].notified = TRUE]
  /\ UNCHANGED <<day, unit, source, scenario, made, redone, proc, told, manual, cut>>

TimerStep == TimerStarts \/ TimerIsRefused \/ TimerGivesUp

ProductionStep ==
  \/ ReadSnapshot \/ Select \/ Refill \/ Gather \/ Confirm \/ NothingSelected \/ Write
  \/ StartRefill \/ RefillFails \/ Build \/ Render \/ Succeed \/ Fail

Next ==
  \/ TimerStep \/ ProductionStep \/ NextDay \/ Killed \/ Reboot
  \/ \E force \in BOOLEAN : OperatorStarts(force)
  \/ \E d \in Days : BotTells(d) \/ BotAcknowledges(d)

(* systemd starts a unit that is due, a production goes on or is ended, and *)
(* the bot polls every minute and its message gets through in the end.      *)
Fairness ==
  /\ WF_vars(TimerStep)
  /\ WF_vars(ProductionStep \/ Killed)
  /\ \A d \in Days : WF_vars(BotTells(d))

Spec == Init /\ [][Next]_vars /\ Fairness

-----------------------------------------------------------------------------
TypeOK ==
  /\ day \in Days
  /\ unit \in {"waits", "runs", "restarts", "ended"}
  /\ attempts \in [Days -> [tried : Nat, gaveUp : BOOLEAN, succeeded : BOOLEAN, notified : BOOLEAN]]
  /\ {source, scenario, made} \subseteq [Days -> SUBSET Issues]
  /\ redone \subseteq Days /\ told \subseteq Days
  /\ proc.issues \subseteq Issues /\ proc.details \in 0..MaxDetails
  /\ proc.by \in {"none", "timer", "operator"}

(* A video never tells one sector or one topic twice, whichever of its      *)
(* issues came in with the refill after others had lost their place          *)
(* (validate_selection, _backfill).                                          *)
VideoIsVaried ==
  \A d \in Days : \A i, j \in made[d] :
    i # j => SectorOf[i] # SectorOf[j] /\ TopicOf[i] # TopicOf[j]

RepeatsNothing(d, e) ==
  \A i \in made[d], j \in made[e] : i # j /\ (TopicOf[i] = TopicOf[j] => TopicOf[i] = NoTopic)

(* A topic that was shown is not shown again for repeat_days, however the   *)
(* productions of those days were cut short and begun again                  *)
(* (recently_featured reads files that a failed attempt also writes).        *)
NotShownAgain ==
  \A d \in Days : \A e \in LatelyBefore(d) \ redone : RepeatsNothing(d, e)

(* A video tells a sector and a topic once, and none that a video of the last *)
(* repeat_days told, however the attempts of those days ended.                *)
VideosAreFresh == VideoIsVaried /\ NotShownAgain

(* The same of the days that were made again with --force, as the docstring *)
(* of recently_featured promises it.                                         *)
NeverShownAgain == \A d \in Days : \A e \in LatelyBefore(d) : RepeatsNothing(d, e)

(* A day the timer began on ends well or its failure reaches the operator,  *)
(* though its attempts may be killed before they can record anything         *)
(* (attempts.run counts an attempt before it begins).  A day with a reboot   *)
(* may end in silence: the unit's pending restart is lost.                   *)
DayIsAccounted ==
  \A d \in Days : attempts[d].tried > 0 \/ (d = day /\ unit = "runs")
    ~> attempts[d].succeeded \/ d \in told \cup cut

=============================================================================

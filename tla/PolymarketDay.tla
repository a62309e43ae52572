---------------------------- MODULE PolymarketDay ----------------------------
(***************************************************************************)
(* The four one-shots around the dashboard's generations: refresh.py, which *)
(* promotes one every four hours within a budget, and what systemd starts   *)
(* after it succeeded: trending.py, sector_brief.py and annotate.py.  They   *)
(* run at the same time, read current.json once and each write a file of    *)
(* their own; the brief also reads the annotations.  Any of them may fail    *)
(* or be killed by its unit's limits.                                        *)
(*                                                                         *)
(* A slot is one turn of the timer.  GenerationStore has the steps of a     *)
(* promotion; here it is one.  What the language model writes is a choice:  *)
(* accepted, rejected for one of the reasons that matter later, or refused. *)
(***************************************************************************)
EXTENDS Consensus

CONSTANTS
  Events,             \* identities
  Contents,           \* what a walk may find: events that are open, normalized
  SlotsPerDay,        \* 6
  QuietSlots,         \* POLYMARKET_BRIEF_QUIET_HOURS
  RefreshBudget,      \* POLYMARKET_WEB_MAX_DAILY_REQUESTS
  NeuronBudget,       \* POLYMARKET_ANNOTATE_MAX_DAILY_NEURONS
  Costs,              \* what a walk or a call of the annotator may cost
  MaxBatches,         \* POLYMARKET_ANNOTATE_MAX_BATCHES_PER_RUN
  MinEvents,          \* POLYMARKET_BRIEF_MIN_EVENTS(_BY_GROUP)
  KeptGenerations,    \* KEEP_GENERATIONS
  OldBrief,           \* the sector_brief.json found: none, or of an earlier paragraph format
  MaxSlot, MaxKills   \* bounds

Groups == DOMAIN MinEvents

ASSUME DayAssumption ==
  /\ SlotsPerDay \in Nat \ {0}
  /\ IsFiniteSet(Events)
  /\ \A c \in Contents :
       /\ DOMAIN c \subseteq Events
       /\ \A e \in DOMAIN c : c[e].id = e /\ {c[e].volume, c[e].p} \subseteq Int \cup {NoValue}
  /\ RefreshBudget \in Nat /\ NeuronBudget \in Nat
  /\ Costs \subseteq Nat \ {0}
  /\ \E most \in Costs : \A c \in Costs : c <= most
  /\ OldBrief # NoValue => \A g \in DOMAIN OldBrief.rows :
       "text" \in DOMAIN OldBrief.rows[g] => OldBrief.rows[g].text.format # "current"

VARIABLES
  slot, served,       \* the clock, and the last slot the timer started
  promoted,           \* the contents of all generations; the last is current
  refresh, walks,     \* the run, and cpu_samples of status.json
  trending, moved,    \* the run, and trending.json
  brief, written,     \* the run, and sector_brief.json
  annotate, index, calls,   \* the run, search_index.json and samples of annotate_status.json
  kills,
  \* history
  spent               \* what runs that were not killed did cost in a day's time

vars == <<slot, served, promoted, refresh, walks, trending, moved, brief, written, annotate, index, calls, kills, spent>>

-----------------------------------------------------------------------------
Current == Len(promoted)
Day == slot \div SlotsPerDay
Idle == [at |-> "idle"]

Init ==
  /\ slot = 0 /\ served = -1
  /\ promoted = <<>>
  /\ refresh = Idle /\ trending = Idle /\ brief = Idle /\ annotate = Idle
  /\ walks = {} /\ calls = {}
  /\ moved = NoValue /\ written = OldBrief
  /\ index = [e \in {} |-> NoValue]
  /\ kills = 0
  /\ spent = [file \in {"walks", "calls"} |-> {}]

Sample(cost) == [at |-> slot, cost |-> cost]
InDay(samples) == {s \in samples : slot - s.at < SlotsPerDay}

(* Samples of the last 24 hours; one that is just as old is in or out, by seconds. *)
(* A turn has one run, so one sample                                               *)
Recent(samples) == {InDay(samples), {s \in samples : slot - s.at <= SlotsPerDay}}
Used(samples) == MapThenSumSet(LAMBDA s : s.cost, samples)
Pay(file, cost) == spent' = [spent EXCEPT ![file] = InDay(@ \cup {Sample(cost)})]

(* TimeoutStartSec ends every unit long before the next turn *)
TimePasses ==
  /\ slot < MaxSlot
  /\ served = slot
  /\ refresh = Idle /\ trending = Idle /\ brief = Idle /\ annotate = Idle
  /\ slot' = slot + 1
  /\ UNCHANGED <<served, promoted, refresh, walks, trending, moved, brief, written, annotate, index, calls, kills, spent>>

-----------------------------------------------------------------------------
(* refresh.py *)

(* OnSuccess: starting a unit that runs does nothing *)
StartOthers ==
  /\ trending' = IF trending = Idle THEN [at |-> "read"] ELSE trending
  /\ brief' = IF brief = Idle THEN [at |-> "read"] ELSE brief
  /\ annotate' = IF annotate = Idle THEN [at |-> "read"] ELSE annotate

notRefresh == <<slot, moved, written, index, calls>>

(* Over the budget of 24 hours the turn is skipped, which is a success *)
RefreshStarts == \E recent \in Recent(walks) :
  /\ refresh = Idle /\ served < slot
  /\ served' = slot
  /\ IF Used(recent) >= RefreshBudget
     THEN /\ walks' = recent
          /\ StartOthers
          /\ UNCHANGED refresh
     ELSE /\ refresh' = [at |-> "walk", samples |-> recent]
          /\ UNCHANGED <<walks, trending, brief, annotate>>
  /\ UNCHANGED <<promoted, notRefresh, kills, spent>>

Promote == \E c \in Contents :
  /\ refresh.at = "walk"
  /\ promoted' = Append(promoted, c)
  /\ refresh' = [refresh EXCEPT !.at = "report"]
  /\ UNCHANGED <<served, walks, trending, brief, annotate, notRefresh, kills, spent>>

(* defect: a failed walk is not counted *)
RefreshFailsFree ==
  /\ refresh # Idle
  /\ refresh' = Idle
  /\ \E cost \in Costs : Pay("walks", cost)
  /\ UNCHANGED <<served, walks, promoted, trending, brief, annotate, notRefresh, kills>>

(* status.json gets this walk's cost whether it succeeded or not *)
Counted == \E cost \in Costs :
  walks' = refresh.samples \cup {Sample(cost)} /\ Pay("walks", cost)

RefreshSucceeds ==
  /\ refresh.at = "report"
  /\ Counted
  /\ StartOthers
  /\ refresh' = Idle
  /\ UNCHANGED <<served, promoted, notRefresh, kills>>

RefreshFails ==
  /\ refresh # Idle
  /\ Counted
  /\ refresh' = Idle
  /\ UNCHANGED <<served, promoted, trending, brief, annotate, notRefresh, kills>>

Killed == kills < MaxKills /\ kills' = kills + 1

RefreshKilled ==
  /\ refresh # Idle
  /\ Killed
  /\ refresh' = Idle
  /\ UNCHANGED <<served, walks, promoted, trending, brief, annotate, notRefresh, spent>>

-----------------------------------------------------------------------------
(* trending.py *)

(* The manifest's events, in some order *)
Listing(content) == LET ids == SetToSeq(DOMAIN content) IN [i \in DOMAIN ids |-> content[ids[i]]]

notTrending == <<slot, served, promoted, refresh, walks, brief, written, annotate, index, calls, spent>>

(* Without a generation the run fails *)
TrendingReads ==
  /\ trending.at = "read"
  /\ trending' = IF Current = 0 THEN Idle ELSE [at |-> "write", gen |-> Current]
  /\ UNCHANGED <<moved, kills, notTrending>>

(* defect: the baseline stays when the day changes *)
BaselineKept(gen, snapshot) ==
  IF moved = NoValue THEN [day |-> Day, gen |-> gen, events |-> snapshot] ELSE moved.baseline

(* The first run of a day sets the day's baseline *)
Baseline(gen, snapshot) ==
  IF moved = NoValue \/ moved.baseline.day # Day THEN [day |-> Day, gen |-> gen, events |-> snapshot]
  ELSE moved.baseline

NoEvents == [gen |-> 0, events |-> [e \in {} |-> NoValue]]
Previous == IF moved = NoValue THEN NoEvents ELSE moved.previous

TrendingWrites ==
  /\ trending.at = "write"
  /\ LET selected == Candidates(Listing(promoted[trending.gen]))
         snapshot == Snapshot(selected)
         baseline == Baseline(trending.gen, snapshot)
         fresh == moved = NoValue \/ moved.baseline.day # Day
         basis == IF fresh THEN "previous" ELSE "day"
         rows == BuildRows(selected, baseline.events, Previous.events)
         warming == fresh /\ DOMAIN Previous.events = {}
     IN moved' = [gen |-> trending.gen, day |-> Day, basis |-> basis, warming |-> warming,
                  basisAt |-> IF fresh THEN Previous.gen ELSE baseline.gen,
                  spotlight |-> IF warming THEN <<>> ELSE Spotlight(rows, basis),
                  baseline |-> baseline,
                  previous |-> [gen |-> trending.gen, events |-> snapshot]]
  /\ trending' = Idle
  /\ UNCHANGED <<kills, notTrending>>

TrendingKilled ==
  /\ trending # Idle
  /\ Killed
  /\ trending' = Idle
  /\ UNCHANGED <<moved, notTrending>>

-----------------------------------------------------------------------------
(* sector_brief.py *)

notBrief == <<slot, served, promoted, refresh, walks, trending, moved, annotate, index, calls, spent>>

Selected(gen, group) ==
  {e \in DOMAIN promoted[gen] : /\ Amount(promoted[gen][e].volume) >= MinVolume
                                /\ BriefGroup(promoted[gen][e].tags) = group}

(* Not at night; the file stays *)
BriefReads ==
  /\ brief.at = "read"
  /\ brief' = IF slot % SlotsPerDay \in QuietSlots \/ Current = 0 THEN Idle
              ELSE [at |-> "labels", gen |-> Current]
  /\ UNCHANGED <<written, kills, notBrief>>

NoRow == [status |-> "todo"]

BriefReadsLabels ==
  /\ brief.at = "labels"
  /\ brief' = [at |-> "groups", gen |-> brief.gen, labels |-> index,
               rows |-> [g \in Groups |-> NoRow], named |-> {}]
  /\ UNCHANGED <<written, kills, notBrief>>

(* defect: a summary is used whatever title it was made for *)
AnyLabel(labels, e, title) == IF e \in DOMAIN labels THEN labels[e] ELSE title

(* The annotation's summary if its hash is that of the title, else the title *)
Label(labels, e, title) == IF e \in DOMAIN labels /\ labels[e] = title THEN labels[e] ELSE title

(* Options of a question with several answers are in its detail, which goes *)
(* with its generation                                                      *)
DetailReadable(gen) == gen > Current - KeptGenerations
HasFact(event, readable) ==
  CASE event.type = "independent" -> readable
    [] event.type = "binary" /\ TitleProbability(event) # NoValue -> TRUE
    [] OTHER -> event.leader # NoValue /\ event.p # NoValue

(* What the analyzer makes of the model's answers: a rejected first answer is *)
(* corrected once, a call that fails ends it                                  *)
Answers == {"accepted", "rejected", "refused"}
Analysis(first, second) ==
  IF first = "accepted" \/ (first = "rejected" /\ second = "accepted") THEN "ok" ELSE "failed"

Published == IF written = NoValue THEN [g \in {} |-> NoRow] ELSE written.rows
Text(g) == IF g \in DOMAIN Published /\ "text" \in DOMAIN Published[g] THEN Published[g].text ELSE NoValue

(* defect: it is forgotten that a carried text is made of facts only *)
CarriedPlain(g) == [status |-> "failed", text |-> Text(g), at |-> Published[g].at, stale |-> TRUE, factsOnly |-> FALSE]

(* The last paragraph stays with the time it was written and what it is made of *)
Carried(g) ==
  [status |-> "failed", text |-> Text(g), at |-> Published[g].at, stale |-> TRUE,
   factsOnly |-> Published[g].factsOnly]

Fresh(status, by) ==
  [status |-> status, text |-> [by |-> by, gen |-> brief.gen, made |-> slot, format |-> "current"],
   at |-> slot, stale |-> FALSE, factsOnly |-> by = "server"]

(* After a failure: the last text of this format, else what the server can say *)
Fallback(g, facts) ==
  IF Text(g) # NoValue /\ Text(g).format = "current" THEN Carried(g)
  ELSE IF facts THEN Fresh("failed", "server") ELSE [status |-> "failed"]

BriefGroupDone(g) ==
  /\ brief.at = "groups" /\ brief.rows[g] = NoRow
  /\ LET selected == Selected(brief.gen, g)
         facts == \E e \in selected : HasFact(promoted[brief.gen][e], DetailReadable(brief.gen))
     IN IF Cardinality(selected) < MinEvents[g]
        THEN brief' = [brief EXCEPT !.rows[g] = [status |-> "insufficient"]]
        ELSE \E first, second \in Answers :
               brief' = [brief EXCEPT
                 !.rows[g] = IF Analysis(first, second) = "ok" THEN Fresh("ok", "model") ELSE Fallback(g, facts),
                 !.named = @ \cup {<<e, Label(brief.labels, e, promoted[brief.gen][e].title)>> : e \in selected}]
  /\ UNCHANGED <<written, kills, notBrief>>

(* All of it at once; nothing when every group was too small *)
BriefWrites ==
  /\ brief.at = "groups"
  /\ \A g \in Groups : brief.rows[g] # NoRow
  /\ written' = IF \A g \in Groups : brief.rows[g].status = "insufficient" THEN written
                ELSE [gen |-> brief.gen, rows |-> brief.rows]
  /\ brief' = Idle
  /\ UNCHANGED <<kills, notBrief>>

BriefKilled ==
  /\ brief # Idle
  /\ Killed
  /\ brief' = Idle
  /\ UNCHANGED <<written, notBrief>>

-----------------------------------------------------------------------------
(* annotate.py *)

notAnnotate == <<slot, served, promoted, refresh, walks, trending, moved, brief, written>>

Pending(gen, labels) ==
  {e \in DOMAIN promoted[gen] : e \notin DOMAIN labels \/ labels[e] # promoted[gen][e].title}

Annotates(run) == annotate' = run /\ UNCHANGED <<index, calls, kills, spent, notAnnotate>>

(* Closed events go; without a pending one or a budget there is no call *)
AnnotateReads == \E recent \in Recent(calls) :
  /\ annotate.at = "read"
  /\ IF Current = 0 THEN Annotates(Idle)
     ELSE LET left == Restrict(index, DOMAIN index \cap DOMAIN promoted[Current])
              todo == Pending(Current, left)
          IN Annotates([at |-> IF todo = {} \/ Used(recent) >= NeuronBudget THEN "index" ELSE "batch",
                        gen |-> Current, labels |-> left, samples |-> recent, cost |-> 0, batches |-> 0,
                        todo |-> todo, changed |-> DOMAIN left # DOMAIN index])

MayCall == /\ annotate.todo # {} /\ annotate.batches < MaxBatches
           /\ Used(annotate.samples) + annotate.cost < NeuronBudget

(* The busiest pending event; a batch is one *)
Chunk == CHOOSE e \in annotate.todo :
           \A f \in annotate.todo : promoted[annotate.gen][f].volume <= promoted[annotate.gen][e].volume

Called(cost) == [annotate EXCEPT !.cost = @ + cost, !.batches = @ + 1, !.todo = @ \ {Chunk}]

(* A row that is in order is kept, another leaves the event for later *)
BatchAnswered == \E cost \in Costs, good \in BOOLEAN :
  /\ annotate.at = "batch" /\ MayCall
  /\ Annotates([Called(cost) EXCEPT
       !.labels = IF good THEN (Chunk :> promoted[annotate.gen][Chunk].title) @@ @ ELSE @,
       !.changed = @ \/ good])

(* A failed call costs too; an exhausted quota or an open circuit ends the run *)
BatchFails == \E cost \in Costs, stop \in BOOLEAN :
  /\ annotate.at = "batch" /\ MayCall
  /\ Annotates([Called(cost) EXCEPT !.at = IF stop THEN "index" ELSE "batch"])

NoMoreCalls ==
  /\ annotate.at = "batch" /\ ~MayCall
  /\ Annotates([annotate EXCEPT !.at = "index"])

AnnotateIndexed ==
  /\ annotate.at = "index"
  /\ index' = IF annotate.changed THEN annotate.labels ELSE index
  /\ annotate' = [annotate EXCEPT !.at = "status"]
  /\ UNCHANGED <<calls, kills, spent, notAnnotate>>

AnnotateReports ==
  /\ annotate.at = "status"
  /\ calls' = IF annotate.batches = 0 THEN annotate.samples
              ELSE annotate.samples \cup {Sample(annotate.cost)}
  /\ IF annotate.batches = 0 THEN UNCHANGED spent ELSE Pay("calls", annotate.cost)
  /\ annotate' = Idle
  /\ UNCHANGED <<index, kills, notAnnotate>>

AnnotateKilled ==
  /\ annotate # Idle
  /\ Killed
  /\ annotate' = Idle
  /\ UNCHANGED <<index, calls, spent, notAnnotate>>

-----------------------------------------------------------------------------
Next ==
  \/ TimePasses
  \/ RefreshStarts \/ Promote \/ RefreshSucceeds \/ RefreshFails \/ RefreshKilled
  \/ TrendingReads \/ TrendingWrites \/ TrendingKilled
  \/ BriefReads \/ BriefReadsLabels \/ BriefWrites \/ BriefKilled
  \/ \E g \in Groups : BriefGroupDone(g)
  \/ AnnotateReads \/ BatchAnswered \/ BatchFails \/ NoMoreCalls
  \/ AnnotateIndexed \/ AnnotateReports \/ AnnotateKilled

Spec == Init /\ [][Next]_vars

-----------------------------------------------------------------------------
(* The page's "moved since ..." is true: whatever was skipped, failed or      *)
(* killed and however the day changed, each row of the spotlight says what    *)
(* happened between the generation that basis_at names and the one on the     *)
(* page, and "today" means a baseline of that day.                            *)
SpotlightTellsTheTruth ==
  moved # NoValue =>
    /\ moved.basis = "day" => moved.baseline.day = moved.day
    /\ \A i \in DOMAIN moved.spotlight :
         LET row == moved.spotlight[i]
             now == promoted[moved.gen][row.id]
             then == promoted[moved.basisAt][row.id]
         IN /\ moved.basisAt # 0 /\ row.id \in DOMAIN promoted[moved.basisAt]
            /\ IF row.flipped THEN now.leader # then.leader
               ELSE /\ now.type = "binary" \/ now.leader = then.leader
                    /\ Change(row, moved.basis) = TitleProbability(now) - TitleProbability(then)

(* The Korean name a model reads for a question was made for the title the    *)
(* question has in the generation the brief is about, whatever annotate.py    *)
(* wrote between the two reads.                                               *)
LabelFitsTitle ==
  brief.at = "groups" => \A pair \in brief.named : pair[2] = promoted[brief.gen][pair[1]].title

(* A paragraph that outlives failing runs keeps saying when it was written,   *)
(* that it is old, and that it holds facts only; none of an older format is   *)
(* published again.                                                           *)
CarriedTextIsHonest ==
  written # NoValue /\ written # OldBrief =>
    \A g \in DOMAIN written.rows : "text" \in DOMAIN written.rows[g] =>
      LET row == written.rows[g]
      IN /\ row.at = row.text.made /\ row.text.format = "current"
         /\ row.factsOnly = (row.text.by = "server")
         /\ row.text.gen # written.gen => row.stale

(* In 24 hours the walks, and the calls of the model, of all runs that were    *)
(* not killed stay within their budgets but for the last of them: also when   *)
(* runs fail, a turn is skipped or a file is pruned.                          *)
BudgetsHold ==
  \A file \in {"walks", "calls"} :
    LET most == CHOOSE c \in Costs : \A d \in Costs : d <= c
        limit == IF file = "walks" THEN RefreshBudget ELSE NeuronBudget
    IN Used(InDay(spent[file])) <= limit + most - 1
=============================================================================

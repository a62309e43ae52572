-------------------------- MODULE PrefilterLearning --------------------------
(***************************************************************************)
(* How the prefilter learns which headlines matter                         *)
(* (features/news_prefilter: learning.py, optimizer.py, the chunks of      *)
(* service.py and the maintenance of feature.py).  Rankings and reports    *)
(* append lines to the observation file; the maintenance reads what was    *)
(* appended since its last chunk, searches for better weights in slices of *)
(* CPU and stores a model only when it beats what is stored.               *)
(*                                                                         *)
(* A line stands for its bytes; weights stand for the average precision    *)
(* they reach on the validation days, in a few steps from 0 to MaxScore.   *)
(***************************************************************************)
EXTENDS Integers, Sequences, FiniteSets, SequencesExt

CONSTANTS Ids,
          RetentionDays,        \* observation_retention_days
          PendingMax,           \* PENDING_CANDIDATE_LIMIT
          SampleMax,            \* _MAX_TRAINING_SAMPLES
          MinLabels, MinDays,   \* MIN_TRAINING_LABELS, MIN_TRAINING_DAYS
          MinTrain, MinTest,    \* labels of each kind a split must hold
          SearchTrials,         \* MAX_SEARCH_TRIALS
          MaxScore, Prevalence, \* scores a trial may reach, that of a constant model
          MaxLines, MaxDay, MaxRestarts  \* bounds of the model

VARIABLES file,      \* observations.jsonl
          today,     \* UTC date
          learner,   \* ObservationLearner: what it has read, its offset, compacted
          search,    \* _training_state, or NoSearch
          inFlight,  \* the score of a model on its way to the file, or None
          modelFile, \* [stored, score on the samples of the search]
          slice,     \* a maintenance run is going on
          burst,     \* core/workers.is_burst_active
          restarts

vars == <<file, today, learner, search, inFlight, modelFile, slice, burst, restarts>>

None == -1
NoSearch == [samples |-> <<>>, trials |-> 0, best |-> None]
Nothing == [samples |-> <<>>, pending |-> <<>>]
Unread == [read |-> Nothing, offset |-> 0]
Most(a, b) == IF a > b THEN a ELSE b

Candidate(id) == [kind |-> "candidate", id |-> id, day |-> today, label |-> 0]
Outcome(id, label) == [kind |-> "outcome", id |-> id, day |-> today, label |-> label]
(* The start of a line whose end was never written, and the line that an   *)
(* append makes of it (or any other the learner passes over, such as the   *)
(* counts of a cycle).                                                     *)
Torn == [kind |-> "torn", id |-> "none", day |-> 0, label |-> 0]
Unreadable == [kind |-> "unreadable", id |-> "none", day |-> 0, label |-> 0]

-----------------------------------------------------------------------------
(* Reading observations *)

Tail2(seq, n) == SubSeq(seq, Most(1, Len(seq) - n + 1), Len(seq))
Waits(m, id) == \E i \in DOMAIN m.pending : m.pending[i].id = id

(* _consume_observation: a candidate waits for its outcome, the longest    *)
(* waiting give way, and an outcome makes a sample of the features and the *)
(* day the candidate was last seen with; "none" is an impact that is not   *)
(* high, medium or low.                                                    *)
Consume(m, line) ==
    CASE line.kind = "candidate" ->
           LET entry == [id |-> line.id, day |-> line.day]
               placed == IF Waits(m, line.id)
                         THEN [i \in DOMAIN m.pending |->
                                 IF m.pending[i].id = line.id THEN entry ELSE m.pending[i]]
                         ELSE Append(m.pending, entry)
           IN  [m EXCEPT !.pending = Tail2(placed, PendingMax)]
      [] line.kind = "outcome" /\ Waits(m, line.id) ->
           LET seen == CHOOSE e \in ToSet(m.pending) : e.id = line.id
               left == SelectSeq(m.pending, LAMBDA e : e.id # line.id)
               grown == Append(m.samples, [day |-> seen.day, label |-> line.label])
           IN  [m EXCEPT !.pending = left,
                         !.samples = IF line.label = None THEN @ ELSE Tail2(grown, SampleMax)]
      [] OTHER -> m

(* The lines after the first `from` of them, up to line `to`. *)
Read(m, lines, from, to) ==
    LET read[i \in from..to] == IF i = from THEN m ELSE Consume(read[i - 1], lines[i])
    IN  read[to]

Whole(lines) == IF lines # <<>> /\ Last(lines) = Torn THEN Len(lines) - 1 ELSE Len(lines)

(* _compact_observations_if_needed drops what is old or unreadable. *)
Retained(lines) ==
    LET kept == {i \in DOMAIN lines : /\ lines[i].kind \notin {"torn", "unreadable"}
                                     /\ lines[i].day >= today - RetentionDays}
        place(n) == CHOOSE i \in kept : Cardinality({j \in kept : j <= i}) = n
    IN  [n \in 1..Cardinality(kept) |-> lines[place(n)]]

CompactsToday == learner.compacted # today /\ file # <<>>

\* defect: a compacted file is read on from where the old one ended
StartKept(lines) == IF Len(lines) < learner.offset THEN Unread
                    ELSE [read |-> learner.read, offset |-> learner.offset]

(* Where load_training_samples goes on reading: at the start when the file *)
(* was rewritten or has shrunk.                                            *)
Start(lines) == IF CompactsToday THEN Unread ELSE StartKept(lines)

Loaded(lines) ==
    LET start == Start(lines)
    IN  [read |-> Read(start.read, lines, start.offset, Whole(lines)), offset |-> Whole(lines),
         compacted |-> IF CompactsToday THEN today ELSE learner.compacted]

-----------------------------------------------------------------------------
(* Searching *)

Days(samples) == {samples[i].day : i \in DOMAIN samples}
(* The last fifth of the days, one at least, validates. *)
TestDays(samples) ==
    LET n == Most(1, Cardinality(Days(samples)) \div 5)
    IN  {d \in Days(samples) : Cardinality({e \in Days(samples) : e > d}) < n}
Holds(samples, days, label) ==
    Cardinality({i \in DOMAIN samples : samples[i].day \in days /\ samples[i].label = label})

Enough(samples) == Len(samples) >= MinLabels /\ Cardinality(Days(samples)) >= MinDays

Splits(samples) ==
    LET test == TestDays(samples) train == Days(samples) \ test
    IN  \A label \in {0, 1} : /\ Holds(samples, train, label) >= MinTrain
                              /\ Holds(samples, test, label) >= MinTest

(* What optimize_for_cpu_budget works with: the search it has while the    *)
(* samples are the same ones, otherwise a new one that starts from the     *)
(* prevalence and from the stored model measured on the new days.          *)
Searches(samples) ==
    IF ~Enough(samples) \/ ~Splits(samples) THEN {NoSearch}
    ELSE IF search # NoSearch /\ search.samples = samples THEN {search}
    ELSE {[samples |-> samples, trials |-> 0, best |-> Most(Prevalence, again)]
          : again \in IF modelFile.stored THEN 0..MaxScore ELSE {0}}

Measured(s) ==
    IF search # NoSearch /\ search.samples = s.samples THEN modelFile.score
    ELSE s.best

(* What the trials of a chunk may make of a search, if it finishes any. *)
Tried(s) ==
    {s} \cup {[samples |-> s.samples, trials |-> s.trials + n, best |-> Most(s.best, score)] :
              n \in 1..(SearchTrials - s.trials), score \in 0..MaxScore}

-----------------------------------------------------------------------------
Init ==
    /\ file = <<>> /\ today = 0
    /\ learner = [read |-> Nothing, offset |-> 0, compacted |-> None]
    /\ search = NoSearch /\ inFlight = None
    /\ modelFile = [stored |-> FALSE, score |-> 0]
    /\ slice = FALSE /\ burst = FALSE
    /\ restarts = 0

(* _append_observations of a ranking or of a report's outcomes: the first  *)
(* line is glued to a torn one.                                            *)
Appended(lines) ==
    IF Whole(file) < Len(file) THEN SubSeq(file, 1, Len(file) - 1) \o <<Unreadable>> \o Tail(lines)
    ELSE file \o lines

Observe(lines) ==
    /\ Len(file) + Len(lines) <= MaxLines
    /\ file' = Appended(lines)
    /\ UNCHANGED <<today, learner, search, inFlight, modelFile, slice, burst, restarts>>

Ranked == \E id \in Ids : Observe(<<Candidate(id)>>)
Reported == \E id \in Ids, label \in {None, 0, 1} : Observe(<<Outcome(id, label)>>)

(* run_prefilter_maintenance begins, and ends its slice when a burst of    *)
(* reports or the load of the machine asks for it, when there is nothing   *)
(* to learn from or when its CPU is used up.                               *)
Maintain ==
    /\ ~slice /\ ~burst
    /\ slice' = TRUE
    /\ UNCHANGED <<file, today, learner, search, inFlight, modelFile, burst, restarts>>

EndSlice ==
    /\ slice /\ inFlight = None
    /\ slice' = FALSE
    /\ UNCHANGED <<file, today, learner, search, inFlight, modelFile, burst, restarts>>

(* optimize_chunk up to its result: compaction, reading and some trials. *)
Chunk ==
    /\ slice /\ ~burst /\ inFlight = None
    /\ LET lines == IF CompactsToday THEN Retained(file) ELSE file
           loaded == Loaded(lines)
       IN  /\ file' = lines
           /\ learner' = loaded
           /\ \E s \in Searches(loaded.read.samples) :
                \/ /\ s = NoSearch /\ search' = NoSearch
                   /\ slice' = FALSE /\ UNCHANGED <<inFlight, modelFile>>
                \/ /\ s # NoSearch /\ search' \in Tried(s)
                   /\ inFlight' = IF search'.best > s.best THEN search'.best ELSE None
                   /\ modelFile' = [modelFile EXCEPT !.score = Measured(s)]
                   /\ slice' = (search'.trials < SearchTrials \/ inFlight' # None)
    /\ UNCHANGED <<today, burst, restarts>>

(* The model is written and used from then on. *)
Save ==
    /\ inFlight # None
    /\ modelFile' = [stored |-> TRUE, score |-> inFlight]
    /\ inFlight' = None
    /\ UNCHANGED <<file, today, learner, search, slice, burst, restarts>>

(* A write that fails ends the slice and forgets the search. *)
SaveFails ==
    /\ inFlight # None
    /\ inFlight' = None /\ slice' = FALSE
    /\ search' = NoSearch
    /\ UNCHANGED <<file, today, learner, modelFile, burst, restarts>>

NextDay ==
    /\ today < MaxDay
    /\ today' = today + 1
    /\ UNCHANGED <<file, learner, search, inFlight, modelFile, slice, burst, restarts>>

Burst ==
    /\ burst' = ~burst
    /\ UNCHANGED <<file, today, learner, search, inFlight, modelFile, slice, restarts>>

(* The process ends, perhaps in the middle of an append, and starts again. *)
Restart ==
    /\ restarts < MaxRestarts
    /\ restarts' = restarts + 1
    /\ \/ UNCHANGED file
       \/ Len(file) < MaxLines /\ Whole(file) = Len(file) /\ file' = Append(file, Torn)
    /\ learner' = [read |-> Nothing, offset |-> 0, compacted |-> None]
    /\ search' = NoSearch /\ inFlight' = None /\ slice' = FALSE /\ burst' = FALSE
    /\ UNCHANGED <<today, modelFile>>

Next == \/ Ranked \/ Reported \/ Maintain \/ EndSlice \/ Chunk \/ Save \/ SaveFails
        \/ NextDay \/ Burst \/ Restart

Spec == Init /\ [][Next]_vars

-----------------------------------------------------------------------------
(* Reading on from an offset gives what reading the file anew would give:  *)
(* through appends, torn lines, the daily compaction that rewrites the     *)
(* file under the reader, and restarts.                                    *)
ReadsLikeAnew ==
    learner.offset <= Len(file) => learner.read = Read(Nothing, file, 0, learner.offset)

(* The bar a trial must beat is always the one the stored model sets (or   *)
(* the prevalence): no better model is turned away because of one that was *)
(* found and never stored, and none is replaced by a worse one.            *)
BarIsWhatIsStored ==
    (search # NoSearch /\ inFlight = None) =>
        search.best = Most(Prevalence, modelFile.score)
=============================================================================

--------------------------- MODULE SourceRegistry ---------------------------
(***************************************************************************)
(* The news sources of the bot and their failover: the list built from the *)
(* configuration and the health of every source (news/registry.py), shared *)
(* by the hourly collection of the report (news/report.py,                 *)
(* news/collection.py), which notes each answer when it comes, and by the  *)
(* collection for an analysis (research/news.py), which waits for all      *)
(* answers and notes them afterwards, in the order of the sources.         *)
(***************************************************************************)
EXTENDS Integers, Sequences, FiniteSets, SequencesExt

CONSTANTS SourceKeys,       \* NEWS_SOURCES, as configured
          Builtin,          \* keys the code knows
          RssLabels,        \* labels of NEWS_RSS_FEEDS
          FailureThreshold, Cooldown,
          MaxClock          \* bound of the model

VARIABLES clock,     \* time in units of the gap between two collections
          health,    \* _SourceHealth of each source
          reporting, \* sources the report's collection still waits for
          research,  \* what the analysis asked and the answers it holds, or NoResearch
          since      \* answers noted of each source since its last good one, oldest first

vars == <<clock, health, reporting, research, since>>

-----------------------------------------------------------------------------
(* build_source_specs: the keys in their order, unknown ones and           *)
(* repetitions left out, then the feeds.                                   *)
Specs ==
    LET rows == [i \in DOMAIN SourceKeys |-> [key |-> SourceKeys[i], rss |-> FALSE]]
                  \o [i \in DOMAIN RssLabels |-> [key |-> RssLabels[i], rss |-> TRUE]]
        Listed(row) == row.rss \/ row.key \in Builtin
    IN  FoldLeft(LAMBDA specs, row : IF Listed(row) /\ row \notin ToSet(specs)
                                     THEN Append(specs, row) ELSE specs, <<>>, rows)

Keys == {spec.key : spec \in ToSet(Specs)}
Rss == {spec.key : spec \in {s \in ToSet(Specs) : s.rss}}

Well == [failures |-> 0, until |-> 0]
NoResearch == [asked |-> <<>>, answers |-> <<>>]

Cooling(k) == clock < health[k].until
ActiveSpecs == SelectSeq([i \in DOMAIN Specs |-> Specs[i].key], LAMBDA k : ~Cooling(k))

\* defect: a good answer ends the rest and leaves the count of failures
SuccessKeepsCount(h) == [h EXCEPT !.until = 0]

RecordSuccess(h) == [h EXCEPT !.failures = 0, !.until = 0]

RecordFailure(h) ==
    [failures |-> h.failures + 1,
     until |-> IF h.failures + 1 >= FailureThreshold THEN clock + Cooldown ELSE h.until]

(* record_rate_limited and record_unavailable *)
RecordRefusal == [failures |-> FailureThreshold, until |-> clock + Cooldown]

-----------------------------------------------------------------------------
(* How an answer is noted.  "late" is the 45 seconds of the collection     *)
(* itself, "timeout" the one of the request.                               *)

Outcomes == {"ok", "late", "timeout", "http403", "http429", "error"}

Refuses(k, o) == o = "http429" \/ (k \in Rss /\ o \in {"timeout", "http403"})

NotedByReport(k, o) ==
    CASE o = "ok"      -> RecordSuccess(health[k])
      [] Refuses(k, o) -> RecordRefusal
      [] OTHER         -> RecordFailure(health[k])

NotedByResearch(k, o) == IF o = "ok" THEN RecordSuccess(health[k]) ELSE RecordFailure(health[k])

Longer(k, o, refused) ==
    IF o = "ok" THEN <<>>
    ELSE LET all == Append(since[k], [refused |-> refused, at |-> clock])
         IN  SubSeq(all, IF Len(all) > FailureThreshold THEN 2 ELSE 1, Len(all))

-----------------------------------------------------------------------------
Init ==
    /\ clock = 1
    /\ health = [k \in Keys |-> Well]
    /\ reporting = {}
    /\ research = NoResearch
    /\ since = [k \in Keys |-> <<>>]

(* collect_report_articles asks every active source at once. *)
StartReport ==
    /\ reporting = {}
    /\ ActiveSpecs # <<>>
    /\ reporting' = ToSet(ActiveSpecs)
    /\ UNCHANGED <<clock, health, research, since>>

(* collect_source_candidates, as far as the registry is concerned; an      *)
(* answer is noted at its own moment.                                      *)
ReportAnswer(k, o) ==
    /\ k \in reporting
    /\ reporting' = reporting \ {k}
    /\ health' = [health EXCEPT ![k] = NotedByReport(k, o)]
    /\ since' = [since EXCEPT ![k] = Longer(k, o, Refuses(k, o))]
    /\ UNCHANGED <<clock, research>>

StartResearch ==
    /\ research = NoResearch
    /\ ActiveSpecs # <<>>
    /\ research' = [asked |-> ActiveSpecs, answers |-> <<>>]
    /\ UNCHANGED <<clock, health, reporting, since>>

(* An answer gather holds back until the last one is there. *)
ResearchAnswer(o) ==
    /\ Len(research.answers) < Len(research.asked)
    /\ research' = [research EXCEPT !.answers = Append(@, o)]
    /\ UNCHANGED <<clock, health, reporting, since>>

ResearchNotes ==
    /\ research # NoResearch
    /\ Len(research.answers) = Len(research.asked)
    /\ LET Answer(k) == research.answers[CHOOSE i \in DOMAIN research.asked : research.asked[i] = k]
           asked == ToSet(research.asked)
       IN  /\ health' = [k \in Keys |-> IF k \in asked THEN NotedByResearch(k, Answer(k)) ELSE health[k]]
           /\ since' = [k \in Keys |-> IF k \in asked THEN Longer(k, Answer(k), FALSE) ELSE since[k]]
    /\ research' = NoResearch
    /\ UNCHANGED <<clock, reporting>>

(* A collection ends within its 45 seconds, long before the next one. *)
Tick ==
    /\ reporting = {}
    /\ clock < MaxClock
    /\ clock' = clock + 1
    /\ UNCHANGED <<health, reporting, research, since>>

Next ==
    \/ \E k \in Keys, o \in Outcomes : ReportAnswer(k, o)
    \/ \E o \in {"ok", "error"} : ResearchAnswer(o)
    \/ StartReport \/ StartResearch \/ ResearchNotes \/ Tick

Spec == Init /\ [][Next]_vars

-----------------------------------------------------------------------------
(* No source is left out without a reason: since its last good answer,     *)
(* whoever noted it, it has refused once or failed as often as the         *)
(* threshold says, and it rests no longer than the cooldown from the last  *)
(* of those answers - although two collections count on the same record    *)
(* and one of them notes answers that are older than what it finds there.  *)
OutForAReason ==
    \A k \in Keys : Cooling(k) =>
        /\ \/ Len(since[k]) >= FailureThreshold
           \/ \E i \in DOMAIN since[k] : since[k][i].refused
        /\ health[k].until <= since[k][Len(since[k])].at + Cooldown
=============================================================================

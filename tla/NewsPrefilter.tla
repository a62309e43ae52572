---------------------------- MODULE NewsPrefilter ----------------------------
(***************************************************************************)
(* The local prefilter of the news pipeline (features/news_prefilter): the *)
(* memory of events, the gates that keep an event from being offered       *)
(* twice, the order in which the candidates of a source are returned, and  *)
(* the mark a published report leaves on an event.                         *)
(*                                                                         *)
(* A text is a model value and Likeness says how much two texts resemble   *)
(* each other (0 when their signatures share no band).  The score of an    *)
(* article is a weighted sum of features: here any order of the candidates *)
(* may come out of it.                                                     *)
(***************************************************************************)
EXTENDS Integers, Sequences, FiniteSets, SequencesExt

CONSTANTS Texts, Likeness, Threshold,   \* similarity_threshold
          Sources, Feeds,               \* Feeds[s]: the answers a source may give
          Mode,                         \* "shadow" or "active"
          Limit, Slots,                 \* selection_limit, exploration_slots
          Window, MaxEvents,            \* how long and how many events are kept
          ReportedCooldown, RecapBucket, RecapMaxAge,
          PendingLimit,                 \* PENDING_CANDIDATE_LIMIT
          MaxCycles, MaxRestarts        \* bounds of the model

VARIABLES clock,       \* hours
          events,      \* event memory: key -> [seen, reported]
          stored,      \* the same in event_memory.json
          recently,    \* the file was written less than 60 seconds ago
          candidates,  \* _candidate_events: sequence of [id, event], oldest first
          cycle,       \* [id, claimed]: _cycle_id and _cycle_claimed
          collecting,  \* the collector's cycle and the sources it still has to ask
          offer,       \* what rank_articles has just returned, or NoOffer
          queue,       \* report queue: set of [id, event]
          truth,       \* when a report has last used each event
          forgotten,   \* events whose mark was lost with the memory
          restarts

vars == <<clock, events, stored, recently, candidates, cycle, collecting, offer, queue,
          truth, forgotten, restarts>>

Never == -100
NoOffer == [source |-> "none"]
NoIndex == "none"     \* market_recap_index of an ordinary article

Row(source, article) == <<source, article.id>>   \* _candidate_id

-----------------------------------------------------------------------------
(* Event memory *)

TextKey(t) == <<"text", t, 0>>
RecapKey(index) == <<"recap", index, clock - (clock % RecapBucket)>>
IsRecap(key) == key[1] = "recap"

(* _evict_events: what was last seen before the window goes, then the      *)
(* longest unseen beyond MaxEvents; of equals, any.                        *)
Keepable(memory) ==
    LET inWindow == {k \in DOMAIN memory : memory[k].seen >= clock - Window}
        size == IF Cardinality(inWindow) < MaxEvents THEN Cardinality(inWindow) ELSE MaxEvents
    IN  {kept \in SUBSET inWindow :
           /\ Cardinality(kept) = size
           /\ \A k \in kept, gone \in inWindow \ kept : memory[k].seen >= memory[gone].seen}

(* _match_event: the same text, or the most similar event among those of   *)
(* a shared band when it is similar enough.                                *)
Matching(memory, text) ==
    LET like == {k \in DOMAIN memory : ~IsRecap(k) /\ Likeness[text, k[2]] > 0}
        best == {k \in like : \A o \in like : Likeness[text, k[2]] >= Likeness[text, o[2]]}
    IN  IF TextKey(text) \in DOMAIN memory THEN {TextKey(text)}
        ELSE {k \in best : Likeness[text, k[2]] >= Threshold}

(* The event of an article: a market recap belongs to its market's index   *)
(* and bucket of hours and is compared with nothing else.                  *)
EventOf(memory, article) ==
    IF article.recap # NoIndex THEN RecapKey(article.recap)
    ELSE LET found == Matching(memory, article.text)
         IN  IF found = {} THEN TextKey(article.text) ELSE CHOOSE k \in found : TRUE

\* defect: a new sighting makes a new record of the event
ObservedAnew(memory, article) ==
    LET key == EventOf(memory, article)
    IN  [k \in DOMAIN memory \cup {key} |->
           IF k = key THEN [seen |-> clock, reported |-> Never] ELSE memory[k]]

Observed(memory, article) ==
    LET key == EventOf(memory, article)
        old == IF key \in DOMAIN memory THEN memory[key].reported ELSE Never
    IN  [k \in DOMAIN memory \cup {key} |->
           IF k = key THEN [seen |-> clock, reported |-> old] ELSE memory[k]]

(* The memory after the articles of a feed, and the event of each. *)
Remember(memory, feed) ==
    LET after[n \in 0..Len(feed)] == IF n = 0 THEN memory ELSE Observed(after[n - 1], feed[n])
    IN  [memory |-> after[Len(feed)],
         keys |-> [n \in 1..Len(feed) |-> EventOf(after[n - 1], feed[n])]]

RecentlyReported(memory, key) ==
    /\ key \in DOMAIN memory
    /\ memory[key].reported # Never
    /\ clock - memory[key].reported < ReportedCooldown

-----------------------------------------------------------------------------
(* Gates *)

Floor == clock - RecapMaxAge
Unknown == -1                          \* published time that could not be read
Moment(a) == IF a.published = Unknown THEN Floor ELSE a.published

(* The newest recap of an event among those not too old, the first of      *)
(* several: newest_recap.                                                  *)
NewestRecap(feed, keys, i) ==
    LET fit(j) == /\ feed[j].recap # NoIndex /\ keys[j] = keys[i]
                  /\ (feed[j].published = Unknown \/ feed[j].published >= Floor)
    IN  /\ fit(i)
        /\ \A j \in DOMAIN feed : fit(j) =>
             (Moment(feed[i]) > Moment(feed[j]) \/ (Moment(feed[i]) = Moment(feed[j]) /\ i <= j))

(* The articles that pass the gates: none of an event reported of late,    *)
(* waiting in the queue or claimed by another source in this cycle; of a   *)
(* recap only the newest, and of one event only the first.                 *)
Passed(memory, feed, keys, excluded, claimed) ==
    LET open(i) == /\ ~RecentlyReported(memory, keys[i]) /\ keys[i] \notin excluded \cup claimed
                   /\ feed[i].recap = NoIndex \/ NewestRecap(feed, keys, i)
    IN  {i \in DOMAIN feed : open(i) /\ \A j \in 1..(i - 1) : keys[j] = keys[i] => ~open(j)}

-----------------------------------------------------------------------------
(* Order *)

Fixed == IF Limit - Slots > 1 THEN Limit - Slots ELSE 1

Orders(open) == {p \in [1..Cardinality(open) -> open] : ToSet(p) = open}
InFeedOrder(p, from, to) == \A i, j \in from..to : i < j => p[i] < p[j]
InTheOrderOf(ranked, p, from, to) ==
    \A i, j \in from..to : i < j => \E m, n \in DOMAIN ranked : m < n /\ ranked[m] = p[i] /\ ranked[n] = p[j]

(* The orders the ranking may end in when the scores order the candidates  *)
(* as ranked: a sample of those below the fixed places moves up behind     *)
(* them, in the order of the feed.                                         *)
Explored(ranked) ==
    LET size == IF Len(ranked) - Fixed < Slots THEN Len(ranked) - Fixed ELSE Slots
    IN  IF Slots = 0 \/ Len(ranked) <= Limit THEN {ranked}
        ELSE {p \in Orders(ToSet(ranked)) :
                /\ \A i \in 1..Fixed : p[i] = ranked[i]
                /\ InFeedOrder(p, Fixed + 1, Fixed + size)
                /\ InTheOrderOf(ranked, p, Fixed + size + 1, Len(ranked))}

(* Shadow returns the feed's order, active the ranking's; the events of    *)
(* the first Limit are claimed for the cycle.                              *)
Returned(ranked) ==
    IF Mode = "shadow" THEN {p \in Orders(ToSet(ranked)) : InFeedOrder(p, 1, Len(ranked))}
    ELSE Explored(ranked)
Top(rows) == {rows[n] : n \in DOMAIN rows \cap 1..Limit}
Claimed(rows, keys) == {keys[i] : i \in Top(rows)}

(* _candidate_events keeps the place of a candidate it already holds and   *)
(* drops the oldest beyond its limit.                                      *)
Noted(held, id, event) ==
    IF \E j \in DOMAIN held : held[j].id = id
    THEN [j \in DOMAIN held |-> IF held[j].id = id THEN [id |-> id, event |-> event] ELSE held[j]]
    ELSE Append(held, [id |-> id, event |-> event])

Pending(held, source, feed, keys) ==
    LET all == FoldLeft(LAMBDA h, i : Noted(h, Row(source, feed[i]), keys[i]), held,
                        [i \in 1..Len(feed) |-> i])
        dropped == IF Len(all) > PendingLimit THEN Len(all) - PendingLimit ELSE 0
    IN  SubSeq(all, dropped + 1, Len(all))

-----------------------------------------------------------------------------
Init ==
    /\ clock = 0 /\ restarts = 0
    /\ events = <<>> /\ stored = <<>> /\ recently = FALSE
    /\ candidates = <<>>
    /\ cycle = [id |-> 0, claimed |-> {}]
    /\ collecting = [id |-> 1, left |-> Sources]
    /\ offer = NoOffer
    /\ queue = {}
    /\ truth = <<>>
    /\ forgotten = {}

(* _persist_events_if_due *)
Persist(memory) ==
    /\ stored' = IF recently THEN stored ELSE memory
    /\ recently' = TRUE

(* rank_articles, under its lock, for a source of the current cycle. *)
Rank(s, feed) ==
    /\ offer = NoOffer
    /\ s \in collecting.left
    /\ collecting' = [collecting EXCEPT !.left = @ \ {s}]
    /\ \E kept \in Keepable(events) :
         LET seen == Remember([k \in kept |-> events[k]], feed)
             claimed == IF cycle.id = collecting.id THEN cycle.claimed ELSE {}
             excluded == {r.event : r \in queue}
             open == Passed(seen.memory, feed, seen.keys, excluded, claimed)
         IN  /\ events' = seen.memory
             /\ candidates' = Pending(candidates, s, feed, seen.keys)
             /\ forgotten' = forgotten \cup ((DOMAIN events \ kept) \cap DOMAIN truth)
             /\ \E ranked \in Orders(open) : \E rows \in Returned(ranked) :
                  /\ cycle' = [id |-> collecting.id, claimed |-> claimed \cup Claimed(rows, seen.keys)]
                  /\ offer' = [source |-> s, feed |-> feed, keys |-> seen.keys, ranked |-> ranked,
                               rows |-> rows, claimed |-> claimed, excluded |-> excluded]
             /\ Persist(seen.memory)
    /\ UNCHANGED <<clock, queue, truth, restarts>>

(* The collector queues the head of what was offered (news/report.py),     *)
(* which leaves out events that wait there already.                        *)
Take ==
    /\ offer # NoOffer
    /\ queue' = queue \cup {[id |-> Row(offer.source, offer.feed[i]), event |-> offer.keys[i]]
                            : i \in Top(offer.rows)}
    /\ offer' = NoOffer
    /\ UNCHANGED <<clock, events, stored, recently, candidates, cycle, collecting, truth,
                   forgotten, restarts>>

(* record_outcome of an article the report used: the event is marked when  *)
(* both the candidate and the event are still known.                       *)
Used(r) ==
    LET known == {candidates[j].event : j \in {n \in DOMAIN candidates : candidates[n].id = r.id}}
                   \cap DOMAIN events
        marked == [k \in DOMAIN events |->
                     IF k \in known THEN [seen |-> events[k].seen, reported |-> clock] ELSE events[k]]
    IN  /\ offer = NoOffer
        /\ r \in queue
        /\ queue' = queue \ {r}
        /\ events' = marked
        /\ truth' = [k \in DOMAIN truth \cup {r.event} |-> IF k = r.event THEN clock ELSE truth[k]]
        /\ forgotten' = IF r.event \in known THEN forgotten \ {r.event}
                        ELSE forgotten \cup {r.event}
        /\ IF known = {} THEN UNCHANGED <<stored, recently>> ELSE Persist(marked)
        /\ UNCHANGED <<clock, candidates, cycle, collecting, offer, restarts>>

(* record_outcome of what was judged and not used, or dropped from the      *)
(* queue: observations and no mark.                                        *)
Unused ==
    /\ offer = NoOffer
    /\ queue # {}
    /\ queue' = {}
    /\ UNCHANGED <<clock, events, stored, recently, candidates, cycle, collecting, offer, truth,
                   forgotten, restarts>>

(* The collector's next cycle, in the same hour or up to two hours later. *)
NextCycle(hours) ==
    /\ offer = NoOffer
    /\ collecting.id < MaxCycles
    /\ clock' = clock + hours
    /\ collecting' = [id |-> collecting.id + 1, left |-> Sources]
    /\ recently' = FALSE
    /\ UNCHANGED <<events, stored, candidates, cycle, offer, queue, truth, forgotten, restarts>>

(* The process starts again with what the file holds; the queue has a      *)
(* store of its own (NewsReport).                                          *)
Restart ==
    /\ offer = NoOffer
    /\ restarts < MaxRestarts
    /\ restarts' = restarts + 1
    /\ events' = stored
    /\ recently' = FALSE
    /\ candidates' = <<>>
    /\ cycle' = [id |-> 0, claimed |-> {}]
    /\ forgotten' = forgotten \cup
         {k \in DOMAIN truth : k \notin DOMAIN stored \/ stored[k].reported # truth[k]}
    /\ UNCHANGED <<clock, stored, collecting, offer, queue, truth>>

Next ==
    \/ \E s \in Sources : \E feed \in Feeds[s] : Rank(s, feed)
    \/ \E r \in queue : Used(r)
    \/ \E hours \in 0..2 : NextCycle(hours)
    \/ Unused \/ Take \/ Restart

Spec == Init /\ [][Next]_vars

-----------------------------------------------------------------------------
Offering == offer # NoOffer
InHead(k) == \E i \in Top(offer.rows) : offer.keys[i] = k

(* An event a report has used does not come back within the cooldown,      *)
(* through any wording, source, bucket or order of cycles - unless the     *)
(* mark itself was lost: by a restart before the file was due, by eviction *)
(* or with the candidate's place among the pending ones.                   *)
NoRepeatInCooldown ==
    Offering => \A i \in ToSet(offer.rows) :
        LET k == offer.keys[i]
        IN  (k \in DOMAIN truth /\ clock - truth[k] < ReportedCooldown) => k \in forgotten

(* The gates only ever stop a repetition: an event of the feed that was    *)
(* neither reported of late nor queued nor claimed before is offered       *)
(* exactly once, a recap unless everything about it is too old.            *)
EveryNewEventIsOffered ==
    Offering => \A k \in ToSet(offer.keys) :
        LET of == {i \in DOMAIN offer.keys : offer.keys[i] = k}
            open == /\ ~RecentlyReported(events, k)
                    /\ k \notin offer.excluded \cup offer.claimed
                    /\ IsRecap(k) => \E i \in of : \/ offer.feed[i].published = Unknown
                                                   \/ offer.feed[i].published >= Floor
        IN  Cardinality({n \in DOMAIN offer.rows : offer.rows[n] \in of}) = (IF open THEN 1 ELSE 0)

(* What the collector may queue from this offer: every event of its head   *)
(* is claimed for the rest of the cycle and none was claimed before, so no *)
(* two sources of a cycle bring the same event; and active mode gives up   *)
(* no more places of the head than the exploration slots.                  *)
HeadIsClaimedOnce ==
    Offering =>
      /\ \A k \in ToSet(offer.keys) : InHead(k) => k \in cycle.claimed \ offer.claimed
      /\ Mode = "active" =>
           Cardinality(Top(offer.ranked) \ Top(offer.rows)) <= Slots
=============================================================================

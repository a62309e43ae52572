----------------------------- MODULE AssetWatch -----------------------------
(***************************************************************************)
(* The account's own page of news and alarms.  The bot rolls the articles  *)
(* of its report queue into watch_news.json and the published ones into    *)
(* news.json (publish.py); the web reads both through one PublicFeed that  *)
(* every request shares (portfolio/watch.py), drops what is there twice    *)
(* and looks for the stocks of an account (Diagnosis).  The two are        *)
(* different processes: a file may be replaced between any two steps of a  *)
(* reading.                                                                *)
(***************************************************************************)
EXTENDS Integers, Sequences, FiniteSets, SequencesExt

CONSTANTS Articles,        \* article ids
          Url, Text,       \* address and original title of an article
          Published,       \* hour an article appeared, or Unknown
          Junk,            \* articles junk_reason refuses
          WatchHours,      \* WATCH_NEWS_HOURS and PORTFOLIO_WATCH_NEWS_HOURS
          MaxItems,        \* WATCH_NEWS_MAX_ITEMS
          MaxClock, MaxWrites   \* bounds of the model

VARIABLES clock,
          queue,      \* articles waiting for a report
          files,      \* news.json and watch_news.json: [version, ids]
          cache,      \* PublicFeed._cache
          request,    \* a request that reads both
          packed      \* articles the last pack was to be made of

vars == <<clock, queue, files, cache, request, packed>>

Unknown == -1
Names == {"news", "pack"}
Idle == [at |-> "none", name |-> "news", seen |-> -1, moment |-> 0, due |-> {},
         got |-> [n \in Names |-> {}]]

-----------------------------------------------------------------------------
(* Publishing *)

Fits(a) == Published[a] >= clock - WatchHours /\ Published[a] <= clock + 1
Packable(queued) == {a \in queued : Published[a] # Unknown /\ a \notin Junk}

(* publish_watch_news: what the queue holds joins the pack and the newest  *)
(* stay; which of those of one hour is a matter of their ids.              *)
Rolled(ids, queued) ==
    LET fit == {a \in ids \cup Packable(queued) : Fits(a)}
        size == IF Cardinality(fit) < MaxItems THEN Cardinality(fit) ELSE MaxItems
    IN  {kept \in SUBSET fit : /\ Cardinality(kept) = size
                              /\ \A a \in kept, b \in fit \ kept : Published[a] >= Published[b]}

(* publish_news keeps what is no junk (its month is longer than this model). *)
Merged(ids, published) == {a \in ids \cup published : a \notin Junk}

Written(name, ids) == [files EXCEPT ![name] = [version |-> @.version + 1, ids |-> ids]]

Init ==
    /\ clock = 1
    /\ queue = {} /\ packed = {}
    /\ files = [n \in Names |-> [version |-> 0, ids |-> {}]]
    /\ cache = [n \in Names |-> [signature |-> -1, ids |-> {}]]
    /\ request = Idle

Enqueue(a) ==
    /\ a \notin queue
    /\ Published[a] <= clock + 1
    /\ queue' = queue \cup {a}
    /\ UNCHANGED <<clock, files, cache, request, packed>>

(* The end of an hourly collection: the articles then in the queue join    *)
(* the pack; a failure is logged and leaves everything as it was.          *)
WritePack ==
    /\ files["pack"].version < MaxWrites
    /\ \E kept \in Rolled(files["pack"].ids, queue) : files' = Written("pack", kept)
    /\ packed' = {a \in packed \cup Packable(queue) : Fits(a)}
    /\ UNCHANGED <<clock, queue, cache, request>>

(* A report makes some articles public, or fails to, and takes those of    *)
(* its markets off the queue.                                              *)
Report(ids, taken) ==
    /\ ids # {}
    /\ queue' = queue \ taken
    /\ \/ /\ files["news"].version < MaxWrites
          /\ files' = Written("news", Merged(files["news"].ids, ids))
       \/ UNCHANGED files
    /\ UNCHANGED <<clock, cache, request, packed>>

-----------------------------------------------------------------------------
(* A request: PublicFeed.read of news.json and then of watch_news.json,    *)
(* each under the feed's lock.                                             *)

Begin ==
    /\ request.at \in {"none", "done"}
    /\ request' = [Idle EXCEPT !.at = "stat", !.moment = clock, !.due = packed]
    /\ UNCHANGED <<clock, queue, files, cache, packed>>

(* The signature (time and size) of the file before its text. *)
Stat ==
    /\ request.at = "stat"
    /\ request' = [request EXCEPT !.at = "text", !.seen = files[request.name].version]
    /\ UNCHANGED <<clock, queue, files, cache, packed>>

(* What the text is remembered under. *)
Signature(seen, version) == seen

GotText(ids) ==
    IF request.name = "news"
    THEN [request EXCEPT !.at = "stat", !.name = "pack", !.got["news"] = ids]
    ELSE [request EXCEPT !.at = "done", !.got["pack"] = ids]

ReadText ==
    LET n == request.name
        fresh == [signature |-> Signature(request.seen, files[n].version), ids |-> files[n].ids]
    IN  /\ request.at = "text"
        /\ cache' = [cache EXCEPT ![n] = IF @.signature = request.seen THEN @ ELSE fresh]
        /\ request' = GotText(cache'[n].ids)
        /\ UNCHANGED <<clock, queue, files, packed>>

HourPasses ==
    /\ clock < MaxClock
    /\ clock' = clock + 1
    /\ UNCHANGED <<queue, files, cache, request, packed>>

Next ==
    \/ \E a \in Articles : Enqueue(a)
    \/ \E ids \in SUBSET queue : Report(ids, ids) \/ Report(ids, queue)
    \/ WritePack \/ Begin \/ Stat \/ ReadText \/ HourPasses

Spec == Init /\ [][Next]_vars

-----------------------------------------------------------------------------
(* build_watch: of the rows in their order, those of the hours asked for,  *)
(* without what shares an address or an original title with one before.    *)

Keys(a) == {Url[a], Text[a]} \ {""}
InHours(a, moment) ==
    Published[a] # Unknown /\ Published[a] >= moment - WatchHours /\ Published[a] <= moment

(* The places of the rows that are kept. *)
Once(rows, moment) ==
    LET kept[n \in 0..Len(rows)] ==
          IF n = 0 THEN {}
          ELSE IF /\ InHours(rows[n], moment)
                  /\ \A i \in kept[n - 1] : Keys(rows[i]) \cap Keys(rows[n]) = {}
          THEN kept[n - 1] \cup {n}
          ELSE kept[n - 1]
    IN  kept[Len(rows)]

(* The rows of a file, newest first, those of one hour in any order. *)
Listed(ids) ==
    {rows \in [1..Cardinality(ids) -> ids] :
        /\ ToSet(rows) = ids
        /\ \A i, j \in DOMAIN rows : i < j => Published[rows[i]] >= Published[rows[j]]}

(* news.json comes first. *)
Documents(got) == {news \o pack : news \in Listed(got["news"]), pack \in Listed(got["pack"])}

-----------------------------------------------------------------------------
(* A page misses no article the pack held when its request began, and      *)
(* shows none twice, although both files are replaced while it reads,      *)
(* reports empty the queue, and the feed serves what an earlier request    *)
(* read: such an article is there, or a twin of it with its address or     *)
(* title, until its hours are over or MaxItems others are as new.          *)
PageHasEachOnce ==
    LET Crowded(a) == Cardinality({b \in packed : Published[b] >= Published[a]} \ {a}) >= MaxItems
        Due == {a \in request.due : Published[a] >= clock - WatchHours /\ Published[a] <= request.moment}
        Twins(a, b) == Keys(a) \cap Keys(b) # {}
    IN  request.at = "done" =>
          \A rows \in Documents(request.got) :
            LET shown == Once(rows, request.moment)
            IN  /\ \A a \in Due : Crowded(a) \/ \E i \in shown : rows[i] = a \/ Twins(rows[i], a)
                /\ \A i, j \in shown : i # j => ~Twins(rows[i], rows[j])
=============================================================================

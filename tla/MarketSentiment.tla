--------------------------- MODULE MarketSentiment ---------------------------
(***************************************************************************)
(* The daily news sentiment of the markets: the store of one digest per    *)
(* market and day (state/market_digest.py), the refresh that fills its     *)
(* gaps with one call of the model per day (features/market_sentiment/     *)
(* refresh.py, news/backfill.py) and the chart it leaves for the web       *)
(* (publish.py).  A refresh runs on schedule or on the operator's command; *)
(* nothing keeps two from overlapping (burst_phase only counts them).      *)
(***************************************************************************)
EXTENDS Integers, Sequences, FiniteSets, SequencesExt

CONSTANTS Markets,          \* MARKET_CHART_MARKETS, in sorted order
          Refreshes,        \* who may be refreshing: the schedule, the operator
          Retention,        \* MARKET_DIGEST_RETENTION_DAYS
          Lookback,         \* MARKET_CHART_LOOKBACK_DAYS
          DaysPerRequest,   \* MARKET_CHART_BACKFILL_DAYS_PER_REQUEST
          MaxCalls,         \* MARKET_DIGEST_MAX_CALLS_PER_REQUEST
          MinArticles,      \* MARKET_DIGEST_MIN_ARTICLES, of a day
          MinDays,          \* MARKET_CHART_MIN_DAYS
          MinTotal,         \* MARKET_CHART_MIN_ARTICLES
          Counts,           \* how many headlines a day may have
          Values,           \* sentiments the model may answer
          OldFile,          \* files an earlier version may have left
          MaxDay, MaxRestarts  \* bounds of the model

VARIABLES day,        \* today
          entries,    \* _entries: [market, day] -> digest
          file,       \* daily_digest.json
          refresh,    \* what each refresh is doing
          chart,      \* market.json: the markets shown, or <<>>
          restarts

vars == <<day, entries, file, refresh, chart, restarts>>

Scheme == 2          \* DIGEST_SCHEME
MarketSet == ToSet(Markets)
Key(market, d) == <<market, d>>
Idle == [phase |-> "idle", today |-> 0, work |-> <<>>, calls |-> 0, count |-> 0, on |-> 0]

-----------------------------------------------------------------------------
(* MarketDigestStore *)

Cutoff == day - (Retention - 1)
Kept(db) == [k \in {x \in DOMAIN db : db[x].day >= Cutoff} |-> db[k]]

Settled(db, k) == k \in DOMAIN db /\ db[k].final /\ db[k].scheme = Scheme

LookbackDays == (day - (Lookback - 1))..day

(* missing_digest_days *)
Missing(market) == {d \in LookbackDays : d >= Cutoff /\ ~Settled(entries, Key(market, d))}

StoredHeadlines(k) == IF k \in DOMAIN entries /\ entries[k].final THEN entries[k].count ELSE 0

(* series and market_history_gaps: the markets whose line may be drawn. *)
DaysOf(market) == {k \in DOMAIN entries : entries[k].market = market /\ entries[k].day \in LookbackDays}
Dense(k) == entries[k].count >= MinArticles
Total(keys) == FoldSet(LAMBDA k, sum : sum + entries[k].count, 0, keys)

Ready(market) ==
    /\ Total(DaysOf(market)) >= MinTotal
    /\ Cardinality({k \in DaysOf(market) : Dense(k)}) >= (IF Lookback < MinDays THEN Lookback ELSE MinDays)

-----------------------------------------------------------------------------
(* The work of a refresh *)

(* round(index * (n - 1) / (limit - 1)), halves to the even number *)
Rounded(a, b) ==
    LET q == a \div b
        r == 2 * (a % b)
    IN  IF r > b \/ (r = b /\ q % 2 = 1) THEN q + 1 ELSE q

(* The place of a day among days, newest first. *)
Place(d, days) == Cardinality({e \in days : e >= d})

(* _spread_backfill_days keeps both ends and what lies evenly between. *)
Spread(days) ==
    LET n == Cardinality(days)
        places == {Rounded(i * (n - 1), DaysPerRequest - 1) + 1 : i \in 0..(DaysPerRequest - 1)}
    IN  {d \in days : \/ n <= DaysPerRequest
                      \/ DaysPerRequest = 1 /\ Place(d, days) = n
                      \/ DaysPerRequest > 1 /\ Place(d, days) \in places}

Queue(market) == Spread(Missing(market))
Jobs == UNION {{Key(m, d) : d \in Queue(m)} : m \in MarketSet}

(* _interleave_market_days: the markets take turns, in their order. *)
Before(a, b) ==
    LET turn(job) == Place(job[2], Queue(job[1])) IN
    \/ turn(a) < turn(b)
    \/ turn(a) = turn(b) /\ \E i, j \in DOMAIN Markets : i < j /\ Markets[i] = a[1] /\ Markets[j] = b[1]

Interleaved ==
    {work \in [1..Cardinality(Jobs) -> Jobs] :
        \A i, j \in DOMAIN work : i < j => Before(work[i], work[j])}

Init ==
    /\ day = 1
    /\ file \in OldFile
    /\ entries = Kept(file)
    /\ refresh = [r \in Refreshes |-> Idle]
    /\ chart = <<>>
    /\ restarts = 0

Start(r) ==
    /\ refresh[r].phase = "idle"
    /\ \E work \in Interleaved :
         refresh' = [refresh EXCEPT ![r] = [phase |-> "working", today |-> day, work |-> work,
                                            calls |-> 0, count |-> 0, on |-> 0]]
    /\ UNCHANGED <<day, entries, file, chart, restarts>>

Finished(r) ==
    /\ refresh[r].phase = "working"
    /\ refresh[r].work = <<>> \/ refresh[r].calls >= MaxCalls

Headlines(w, n) == [phase |-> "analysing", today |-> w.today, work |-> w.work,
                    calls |-> w.calls + 1, count |-> n, on |-> day]

(* The headlines of the next day are there: the stored ones of a day that  *)
(* was final under an older scheme, or those the search finds; too few,    *)
(* and the day waits for another refresh.                                  *)
Gather(r) ==
    LET job == Head(refresh[r].work)
        stored == IF job[2] < refresh[r].today THEN StoredHeadlines(job) ELSE 0
    IN  /\ refresh[r].phase = "working"
        /\ ~Finished(r)
        /\ \E n \in (IF stored >= MinArticles THEN {stored} ELSE Counts) :
             \/ n < MinArticles /\ refresh' = [refresh EXCEPT ![r].work = Tail(@)]
             \/ n >= MinArticles /\ refresh' = [refresh EXCEPT ![r] = Headlines(@, n)]
        /\ UNCHANGED <<day, entries, file, chart, restarts>>

(* The clock is read once, when the refresh begins. *)
IsFinal(r, d) == d < refresh[r].today

Digest(r, value) ==
    LET job == Head(refresh[r].work)
    IN  [market |-> job[1], day |-> job[2], value |-> value, count |-> refresh[r].count,
         final |-> IsFinal(r, job[2]), scheme |-> Scheme, on |-> refresh[r].on]

Put(db, digest) ==
    Kept([k \in DOMAIN db \cup {Key(digest.market, digest.day)} |->
            IF k = Key(digest.market, digest.day) THEN digest ELSE db[k]])

Continue(r) == [refresh EXCEPT ![r].phase = "working", ![r].work = Tail(@)]

Analysed(r, value) ==
    /\ refresh[r].phase = "analysing"
    /\ entries' = Put(entries, Digest(r, value))
    /\ file' = entries'
    /\ refresh' = Continue(r)
    /\ UNCHANGED <<day, chart, restarts>>

AnalysisFails(r) ==
    /\ refresh[r].phase = "analysing"
    /\ refresh' = Continue(r)
    /\ UNCHANGED <<day, entries, file, chart, restarts>>

(* The disk refuses: the memory goes back to what it was and the refresh   *)
(* ends with the error.                                                    *)
WriteFails(r) ==
    /\ refresh[r].phase = "analysing"
    /\ refresh' = [refresh EXCEPT ![r] = Idle]
    /\ UNCHANGED <<day, entries, file, chart, restarts>>

(* Fewer than two lines are no chart: the one before stays. *)
Publish(r) ==
    LET ready == {m \in MarketSet : Ready(m)} IN
    /\ Finished(r)
    /\ chart' = IF Cardinality(ready) < 2 THEN chart
                ELSE [m \in ready |-> [k \in DaysOf(m) |-> entries[k]]]
    /\ refresh' = [refresh EXCEPT ![r] = Idle]
    /\ UNCHANGED <<day, entries, file, restarts>>

Midnight ==
    /\ day < MaxDay
    /\ day' = day + 1
    /\ UNCHANGED <<entries, file, refresh, chart, restarts>>

Restart ==
    /\ restarts < MaxRestarts
    /\ restarts' = restarts + 1
    /\ entries' = Kept(file)
    /\ file' = entries'
    /\ refresh' = [r \in Refreshes |-> Idle]
    /\ UNCHANGED <<day, chart>>

Next ==
    \/ \E r \in Refreshes :
         \/ Start(r) \/ Gather(r) \/ AnalysisFails(r) \/ WriteFails(r) \/ Publish(r)
         \/ \E value \in Values : Analysed(r, value)
    \/ Midnight \/ Restart

Spec == Init /\ [][Next]_vars

-----------------------------------------------------------------------------
(* A day is settled only by headlines taken after it was over, although a  *)
(* refresh may begin before midnight and store after it; a chart shows     *)
(* two markets or more, each with enough days that have enough headlines.  *)
SettledAfterTheDay ==
    /\ \A k \in DOMAIN entries : Settled(entries, k) => entries[k].on > entries[k].day
    /\ chart # <<>> =>
         /\ Cardinality(DOMAIN chart) >= 2
         /\ \A m \in DOMAIN chart :
              Cardinality({k \in DOMAIN chart[m] : chart[m][k].count >= MinArticles}) >=
                (IF Lookback < MinDays THEN Lookback ELSE MinDays)

(* A settled day keeps its value as long as the store keeps the day: what  *)
(* the store promises, and what a step that overtakes another one breaks.  *)
KeepingFinalDays ==
    \A k \in DOMAIN entries :
        (Settled(entries, k) /\ k \in DOMAIN entries') =>
            (Settled(entries', k) /\ entries'[k].value = entries[k].value)
=============================================================================

------------------------------- MODULE Quotes -------------------------------
(***************************************************************************)
(* What the bot knows of prices (stocks/quotes.py): the cache in front of  *)
(* every provider, which threads share without a lock, the split of a      *)
(* watchlist over the two providers of quotes, and the count of the        *)
(* Chinese stocks that closed at their daily limit.                        *)
(* A value is the moment at which the provider's answer was taken.         *)
(***************************************************************************)
EXTENDS Integers, Sequences, FiniteSets, SequencesExt

CONSTANTS CacheKeys, Callers,
          Ttl, FailureCooldown,      \* cache_ttl_minutes, failure_cooldown_minutes
          MaxFetch,                  \* bound: how long a fetch with its three attempts lasts
          MaxClock                   \* bound of the model

VARIABLES clock,
          store,     \* _store: key -> [at, value] or Empty
          failures,  \* _failures: key -> moment or Never
          fetching,  \* caller -> the fetch it waits for, or Idle
          answer     \* what the last call returned: [key, value, cause]

vars == <<clock, store, failures, fetching, answer>>

Never == -100
Empty == [at |-> Never, value |-> Never]
Idle == [key |-> "none", started |-> Never, held |-> Empty]
NoAnswer == [key |-> "none", value |-> Never, cause |-> "none"]

-----------------------------------------------------------------------------
(* _TTLCache.get_or_fetch *)

Cached(k) == store[k] # Empty

IsFresh(k) == Cached(k) /\ clock - store[k].at < Ttl
Resting(k) == failures[k] # Never /\ clock - failures[k] < FailureCooldown

Init ==
    /\ clock = 0
    /\ store = [k \in CacheKeys |-> Empty]
    /\ failures = [k \in CacheKeys |-> Never]
    /\ fetching = [c \in Callers |-> Idle]
    /\ answer = NoAnswer

(* What a call gets without an answer of the provider: the held value, or  *)
(* an error when nothing is held.                                          *)
HeldOrError(k, held, cause) ==
    [key |-> k, value |-> held.value, cause |-> IF held = Empty THEN "error" ELSE cause]

(* No request: a fresh value, and while the provider rests after a failure *)
(* an old one or ProviderCooldownError.                                    *)
GetHeld(c, k) ==
    /\ fetching[c] = Idle
    /\ \/ IsFresh(k) /\ answer' = HeldOrError(k, store[k], "fresh")
       \/ ~IsFresh(k) /\ Resting(k) /\ answer' = HeldOrError(k, store[k], "resting")
    /\ UNCHANGED <<clock, store, failures, fetching>>

(* The request leaves; the moment noted is the one before it. *)
Fetch(c, k) ==
    /\ fetching[c] = Idle
    /\ ~IsFresh(k) /\ ~Resting(k)
    /\ fetching' = [fetching EXCEPT ![c] = [key |-> k, started |-> clock, held |-> store[k]]]
    /\ UNCHANGED <<clock, store, failures, answer>>

FetchAnswers(c) ==
    LET f == fetching[c] IN
    /\ f # Idle
    /\ \E moment \in f.started..clock :
         /\ store' = [store EXCEPT ![f.key] = [at |-> f.started, value |-> moment]]
         /\ answer' = [key |-> f.key, value |-> moment, cause |-> "fetched"]
    /\ failures' = [failures EXCEPT ![f.key] = Never]
    /\ fetching' = [fetching EXCEPT ![c] = Idle]
    /\ UNCHANGED clock

(* The call falls back on what it had found before it asked; a value       *)
(* another call has stored since is not looked for.                        *)
FetchFails(c) ==
    LET f == fetching[c] IN
    /\ f # Idle
    /\ failures' = [failures EXCEPT ![f.key] = f.started]
    /\ answer' = HeldOrError(f.key, f.held, "failed")
    /\ fetching' = [fetching EXCEPT ![c] = Idle]
    /\ UNCHANGED <<clock, store>>

Tick ==
    /\ clock < MaxClock
    /\ \A c \in Callers : fetching[c] # Idle => clock - fetching[c].started < MaxFetch
    /\ clock' = clock + 1
    /\ answer' = NoAnswer
    /\ UNCHANGED <<store, failures, fetching>>

Next ==
    \/ \E c \in Callers :
         \/ \E k \in CacheKeys : GetHeld(c, k) \/ Fetch(c, k)
         \/ FetchAnswers(c) \/ FetchFails(c)
    \/ Tick

Spec == Init /\ [][Next]_vars

-----------------------------------------------------------------------------
(* Watchlist quotes: a code goes to the one provider its form names.       *)
(* A code is [form, exchange]: six or five digits, or a universe key.      *)

Provider(code) ==
    CASE code.form \in {"six", "five"}                                  -> "tencent"
      [] code.form = "US"                                               -> "yahoo"
      [] code.form = "KR" /\ code.exchange \in {"KOSPI", "KOSDAQ"}       -> "yahoo"
      [] OTHER                                                          -> "none"

(* get_watchlist_quotes: a provider that fails or leaves a code out costs  *)
(* only its own codes; found[p] are the codes p answered.                  *)
WatchlistQuotes(codes, failed, found) ==
    {c \in codes : /\ Provider(c) # "none"
                   /\ Provider(c) \notin failed
                   /\ c \in found}

(* get_fund_flow *)
HasFundFlow(code) == code.form = "six" /\ code.exchange # "bj"

-----------------------------------------------------------------------------
(* Daily limits, in hundredths of the currency and per cent.               *)
(* A stock is [board, st, fresh, settlement, trade].                       *)

LimitRatio(s) ==
    IF s.fresh THEN 0                                     \* no limit yet
    ELSE IF s.board \in {"chinext", "star"} THEN 20
    ELSE IF s.board = "beijing" THEN 30
    ELSE IF s.st THEN 5
    ELSE 10

LimitPrice(s) == (s.settlement * (100 + LimitRatio(s)) + 50) \div 100   \* ROUND_HALF_UP

AtLimit(s) ==
    /\ LimitRatio(s) > 0 /\ s.trade > 0 /\ s.settlement > 0
    /\ s.trade >= LimitPrice(s)

(* The change the ranking is sorted by, in thousandths of a per cent. *)
ChangePercent(s) == ((s.trade - s.settlement) * 100000) \div s.settlement

ScanFloor == 4800     \* _LIMIT_UP_SCAN_FLOOR_PCT

(* _fetch_sina_limit_up: pages of the ranking until one ends below the     *)
(* floor, and MaxPages at most.                                            *)
PagesRead(ranking, size, maxPages) ==
    LET EndOf(n) == IF Len(ranking) < n * size THEN Len(ranking) ELSE n * size
        Ends(n) == \/ EndOf(n) <= (n - 1) * size
                   \/ ChangePercent(ranking[EndOf(n)]) < ScanFloor
        stops == {n \in 1..maxPages : Ends(n)}
    IN  IF stops = {} THEN maxPages ELSE CHOOSE n \in stops : \A o \in stops : n <= o

LimitUps(ranking, size, maxPages) ==
    {i \in DOMAIN ranking : i <= PagesRead(ranking, size, maxPages) * size /\ AtLimit(ranking[i])}

-----------------------------------------------------------------------------
(* An answer without a request is older than its time to live only while  *)
(* the provider rests after a failure, by the age of the value itself and  *)
(* not of its record, however long requests took and in whatever order the *)
(* threads that asked at once got through.                                 *)
OldOnlyAfterFailure ==
    answer.cause \in {"fresh", "resting"} =>
        \/ clock - answer.value < Ttl
        \/ Resting(answer.key)

(* "상승률 순위를 이 밑까지만 읽는다. 가장 좁은 가격제한폭이 ST의 5%라 그   *)
(* 아래에는 涨停이 없다" (quotes.py): a stock that closed at its limit is   *)
(* never below the floor at which the scan stops.                          *)
NoLimitUpBelowTheFloor(s) == AtLimit(s) => ChangePercent(s) >= ScanFloor
=============================================================================

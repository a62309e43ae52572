----------------------------- MODULE LlmCircuit -----------------------------
(***************************************************************************)
(* The calls of the bot to Cloudflare Workers AI (llm/backends.py): the    *)
(* HTTP backend that turns an answer into text or into a failure, the      *)
(* wrapper that retries and opens a circuit, and the notice about the      *)
(* spent quota (features/system_admin/llm_status.py).  Every purpose       *)
(* (report, research, digest, briefing) has a wrapper of its own, so two   *)
(* circuits learn of the same quota at different times; circuits live in   *)
(* memory and the notice's date in a file.                                 *)
(* Time is counted in units of ten seconds and days are short.             *)
(***************************************************************************)
EXTENDS Integers, Sequences, FiniteSets, TLC

CONSTANTS Purposes,        \* wrappers the factory built
          MaxAttempts,     \* CLOUDFLARE_MAX_ATTEMPTS
          Threshold,       \* CLOUDFLARE_FAILURE_THRESHOLD
          Cooldown,        \* CLOUDFLARE_FAILURE_COOLDOWN_SECONDS
          RateCooldown,    \* _RATE_LIMIT_COOLDOWN_SECONDS
          MaxRetryAfter,   \* _MAX_RETRY_AFTER_SECONDS
          DayLength,       \* units in a UTC day
          MaxTime, MaxRestarts  \* bounds of the model

VARIABLES clock,    \* units since some midnight
          circuit,  \* the fields of each ResilientBackend
          call,     \* the call each purpose is making
          last,     \* _last_quota_exhaustion: when it happened, or Never
          noticeDay,\* utc_date in llm_quota_notice.json, or Never
          polling,  \* notify_quota_exhaustion: "idle", or the day it has just sent
          told,     \* days the operator was told of, in order
          barred,   \* until when the provider has told each purpose to stay away
          restarts, \* restarts so far
          cutShort  \* restarts between a notice and its record

vars == <<clock, circuit, call, last, noticeDay, polling, told, barred, restarts, cutShort>>

Never == -1
Always == MaxTime + DayLength + 1

Least(a, b) == IF a < b THEN a ELSE b
Most(a, b) == IF a > b THEN a ELSE b

-----------------------------------------------------------------------------
(* What the provider may answer.  A body that names the quota counts       *)
(* whatever its status is; retry is its Retry-After, 0 when there is none. *)

Http(status, words, retry) ==
    [kind |-> "http", status |-> status, words |-> words, retry |-> retry]
Plain(kind) == [kind |-> kind, status |-> 0, words |-> FALSE, retry |-> 0]

Answers ==
    {Plain(k) : k \in {"timeout", "connection", "not_json", "empty", "cut", "text"}}
      \cup {Http(s, FALSE, 0) : s \in {400, 401, 402, 500}}
      \cup {Http(429, FALSE, r) : r \in {0, 2 * MaxRetryAfter}}
      \cup {Http(s, TRUE, 0) : s \in {403, 429, 500}}

Failure == [reason |-> "", retryable |-> FALSE, quota |-> FALSE, fatal |-> FALSE,
            callerFault |-> FALSE, rate |-> FALSE, retryAfter |-> 0]

\* defect: the status decides before the words of the body do
HttpFailureByStatus(a) ==
    [Failure EXCEPT
       !.reason = IF a.status = 429 THEN "rate_limited" ELSE "quota_exhausted",
       !.quota = a.status = 402 \/ (a.words /\ a.status # 429),
       !.retryable = a.status = 429 \/ (a.status >= 500 /\ ~a.words),
       !.fatal = a.status \in {400, 401},
       !.rate = a.status = 429,
       !.retryAfter = a.retry]

HttpFailure(a) ==
    LET quota == a.status = 402 \/ a.words
        reason == IF quota THEN "quota_exhausted"
                  ELSE IF a.status \in {401, 403} THEN "auth_error"
                  ELSE IF a.status = 429 THEN "rate_limited"
                  ELSE IF a.status >= 500 THEN "server_error"
                  ELSE "bad_request"
    IN  [Failure EXCEPT !.reason = reason, !.quota = quota,
                        !.retryable = reason \in {"rate_limited", "server_error"},
                        !.fatal = reason \in {"auth_error", "bad_request"},
                        !.rate = a.status = 429, !.retryAfter = a.retry]

(* The error CloudflareWorkersAIBackend.generate raises for an answer that *)
(* is no text; an answer cut at max_tokens is the caller's fault and not   *)
(* worth a second request.                                                 *)
Raised(a) ==
    CASE a.kind = "http"                      -> HttpFailure(a)
      [] a.kind \in {"timeout", "connection"} -> [Failure EXCEPT !.reason = a.kind, !.retryable = TRUE]
      [] a.kind \in {"not_json", "empty"}     -> [Failure EXCEPT !.reason = "invalid_response", !.retryable = TRUE]
      [] a.kind = "cut"                       -> [Failure EXCEPT !.reason = "truncated", !.callerFault = TRUE]

-----------------------------------------------------------------------------
(* The circuit *)

Day(t) == t \div DayLength
NextMidnight(t) == (Day(t) + 1) * DayLength

Closed == [failures |-> 0, until |-> 0, forever |-> FALSE]

Open(c) == c.forever \/ clock < c.until

Succeeded(c) == [c EXCEPT !.failures = 0, !.until = 0]

Failed(c, e) ==
    LET count == Least(c.failures + 1, Threshold)
        rest == Least(Cooldown, Most(e.retryAfter, RateCooldown))
    IN  IF e.callerFault THEN c
        ELSE IF e.quota THEN [c EXCEPT !.until = NextMidnight(clock)]
        ELSE IF e.fatal THEN [c EXCEPT !.forever = TRUE]
        ELSE IF e.rate THEN [failures |-> count, until |-> clock + rest, forever |-> FALSE]
        ELSE IF count >= Threshold THEN [failures |-> count, until |-> clock + Cooldown, forever |-> FALSE]
        ELSE [c EXCEPT !.failures = count]

Resting == [phase |-> "none", attempt |-> 0, at |-> 0]

Init ==
    /\ clock = 0
    /\ circuit = [p \in Purposes |-> Closed]
    /\ call = [p \in Purposes |-> Resting]
    /\ last = Never /\ noticeDay = Never /\ polling = Never
    /\ told = <<>>
    /\ barred = [p \in Purposes |-> 0]
    /\ restarts = 0 /\ cutShort = 0

(* ResilientBackend.generate: an open circuit answers circuit_open and     *)
(* changes nothing; a closed one lets the first request leave.             *)
Begin(p) ==
    /\ call[p] = Resting
    /\ ~Open(circuit[p])
    /\ call' = [call EXCEPT ![p] = [phase |-> "sent", attempt |-> 1, at |-> 0]]
    /\ UNCHANGED <<clock, circuit, last, noticeDay, polling, told, barred, restarts, cutShort>>

(* The next attempt of the same call, after the pause the answer asked for. *)
Retry(p) ==
    /\ call[p].phase = "ready"
    /\ clock >= call[p].at
    /\ call' = [call EXCEPT ![p].phase = "sent", ![p].at = 0]
    /\ UNCHANGED <<clock, circuit, last, noticeDay, polling, told, barred, restarts, cutShort>>

TextArrives(p) ==
    /\ call[p].phase = "sent"
    /\ circuit' = [circuit EXCEPT ![p] = Succeeded(@)]
    /\ call' = [call EXCEPT ![p] = Resting]
    /\ UNCHANGED <<clock, last, noticeDay, polling, told, barred, restarts, cutShort>>

AgainOrNot(p, e) ==
    IF ~e.retryable \/ call[p].attempt = MaxAttempts
    THEN Resting
    ELSE [phase |-> "ready", attempt |-> call[p].attempt + 1,
          at |-> clock + Least(e.retryAfter, MaxRetryAfter)]

FailureArrives(p, a) ==
    LET e == Raised(a) IN
    /\ call[p].phase = "sent"
    /\ circuit' = [circuit EXCEPT ![p] = Failed(@, e)]
    /\ call' = [call EXCEPT ![p] = AgainOrNot(p, e)]
    /\ last' = IF e.quota THEN clock ELSE last
    /\ barred' = [barred EXCEPT ![p] =
                    IF a.kind # "http" THEN @
                    ELSE IF a.words \/ a.status = 402 THEN NextMidnight(clock)
                    ELSE IF a.status \in {400, 401, 403} THEN Always
                    ELSE IF a.status = 429 /\ call'[p] = Resting THEN clock + RateCooldown
                    ELSE @]
    /\ UNCHANGED <<clock, noticeDay, polling, told, restarts, cutShort>>

Noted == Day(last)

(* notify_quota_exhaustion, every 30 seconds: tells the operator of a day  *)
(* the file does not name yet; a message that fails leaves the next poll   *)
(* to send it.                                                             *)
Notify ==
    /\ polling = Never
    /\ last # Never
    /\ noticeDay < Noted
    /\ told' = Append(told, Day(last))
    /\ polling' = Noted
    /\ UNCHANGED <<clock, circuit, call, last, noticeDay, barred, restarts, cutShort>>

WriteNotice ==
    /\ polling # Never
    /\ noticeDay' = polling
    /\ polling' = Never
    /\ UNCHANGED <<clock, circuit, call, last, told, barred, restarts, cutShort>>

(* Memory is lost and with it every circuit and the last exhaustion. *)
Restart ==
    /\ restarts < MaxRestarts
    /\ restarts' = restarts + 1
    /\ cutShort' = cutShort + (IF polling # Never THEN 1 ELSE 0)
    /\ circuit' = [p \in Purposes |-> Closed]
    /\ call' = [p \in Purposes |-> Resting]
    /\ last' = Never /\ polling' = Never
    /\ barred' = [p \in Purposes |-> 0]
    /\ UNCHANGED <<clock, noticeDay, told>>

Tick ==
    /\ clock < MaxTime
    /\ clock' = clock + 1
    /\ UNCHANGED <<circuit, call, last, noticeDay, polling, told, barred, restarts, cutShort>>

Next ==
    \/ \E p \in Purposes :
         \/ Begin(p) \/ Retry(p) \/ TextArrives(p)
         \/ \E a \in Answers \ {Plain("text")} : FailureArrives(p, a)
    \/ Notify \/ WriteNotice \/ Restart \/ Tick

Spec == Init /\ [][Next]_vars

-----------------------------------------------------------------------------
(* The wrapper's promise ("소진된 뒤에도 계속 두드리면 요청마다 무의미한  *)
(* 왕복만 쌓이기 때문이다"): once an answer has said that the quota is     *)
(* spent, that the credentials or the request are bad, or that the rate is *)
(* exceeded for good, no request of that purpose leaves before the next    *)
(* UTC midnight, before a restart or before the rest is over - whatever    *)
(* status the answer carried and whatever attempt it answered.             *)
StayingAway ==
    \A p \in Purposes : (call[p].phase # "sent" /\ call'[p].phase = "sent") => clock >= barred[p]

StaysAway == [][StayingAway]_vars

(* The operator hears of a day's exhaustion once, although every purpose   *)
(* runs into the quota by itself and the exhaustion stays in memory after  *)
(* midnight; only a restart between the message and the file repeats it.   *)
ToldOncePerDay ==
    \A d \in 0..Day(MaxTime) :
        Cardinality({i \in DOMAIN told : told[i] = d}) <= 1 + cutShort
=============================================================================

--------------------------- MODULE MachinesProofs ---------------------------
(***************************************************************************)
(* Proofs about the small machines, for any purposes, sources, cache keys, *)
(* articles and requests, any thresholds, bounds and times to rest.  Each  *)
(* part has an invariant of its own; together they are kept by every step. *)
(***************************************************************************)
EXTENDS Machines, FiniteSetTheorems, SequenceTheorems, WellFoundedInduction, TLAPS

-----------------------------------------------------------------------------
(* A non-empty set of numbers has a smallest one: the induction on numbers.  *)
LEMMA SmallestNumber ==
  ASSUME NEW T, T \subseteq Nat, T # {}
  PROVE  \E x \in T : \A y \in T : x <= y
<1>1. PICK x \in T : \A y \in T : ~(<<y, x>> \in OpToRel(<, Nat))
  BY NatLessThanWellFounded, WFMin, Zenon
<1>2. \A y \in T : ~(y < x)
  BY <1>1, Zenon DEF OpToRel
<1> QED
  BY <1>2

-----------------------------------------------------------------------------
(* Prices: v1 is the clock, v2 the store, v3 the failures, v4 the fetches    *)
(* and v5 what the last call returned.                                       *)

(* A record's value was taken between its request and now. *)
RecordOK(record) == /\ record.at \in Int /\ record.value \in Int
                    /\ record.at <= record.value /\ record.value <= v1

StoreOK == \A k \in CacheKeys : v2[k] # Prices!Empty => RecordOK(v2[k])

FetchesOK ==
  \A c \in Callers : v4[c] # Prices!Idle => v4[c].key \in CacheKeys /\ v4[c].started \in Int /\ v4[c].started <= v1

QuotesInvariant ==
  /\ v1 \in Int
  /\ DOMAIN v2 = CacheKeys /\ v3 \in [CacheKeys -> Int] /\ DOMAIN v4 = Callers
  /\ StoreOK /\ FetchesOK
  /\ Prices!OldOnlyAfterFailure

LEMMA QuotesBegin == Prices!Init => QuotesInvariant
<1> SUFFICES ASSUME Prices!Init PROVE QuotesInvariant
  OBVIOUS
<1>1. v1 = 0 /\ DOMAIN v2 = CacheKeys /\ v3 \in [CacheKeys -> Int] /\ DOMAIN v4 = Callers
  BY DEF Prices!Init, Prices!Never
<1>2. StoreOK /\ FetchesOK
  BY DEF Prices!Init, StoreOK, FetchesOK
<1>3. Prices!OldOnlyAfterFailure
  BY DEF Prices!Init, Prices!OldOnlyAfterFailure, Prices!NoAnswer
<1> QED
  BY <1>1, <1>2, <1>3 DEF QuotesInvariant

LEMMA HeldAnswer ==
  ASSUME NEW k, NEW held, NEW cause
  PROVE  LET a == Prices!HeldOrError(k, held, cause) IN
         /\ a.key = k /\ a.value = held.value
         /\ a.cause = IF held = Prices!Empty THEN "error" ELSE cause
BY DEF Prices!HeldOrError

LEMMA QuotesGoOn ==
  ASSUME QuotesInvariant, [Prices!Next]_(Prices!vars)
  PROVE  QuotesInvariant'
<1>0. /\ v1 \in Int /\ DOMAIN v2 = CacheKeys /\ v3 \in [CacheKeys -> Int] /\ DOMAIN v4 = Callers
      /\ StoreOK /\ FetchesOK /\ Prices!OldOnlyAfterFailure
      /\ Ttl \in Nat /\ QuoteCooldown \in Nat
  BY ProvidersAssumption DEF QuotesInvariant
<1>1. CASE UNCHANGED Prices!vars
  BY <1>0, <1>1 DEF QuotesInvariant, Prices!vars, StoreOK, RecordOK, FetchesOK, Prices!OldOnlyAfterFailure,
     Prices!Resting
<1>2. ASSUME NEW c \in Callers, NEW k \in CacheKeys, Prices!GetHeld(c, k) PROVE QuotesInvariant'
  <2>1. UNCHANGED <<v1, v2, v3, v4>>
    BY <1>2 DEF Prices!GetHeld
  <2>2. CASE Prices!IsFresh(k) /\ v5' = Prices!HeldOrError(k, v2[k], "fresh")
    <3>1. v2[k] # Prices!Empty /\ v1 - v2[k].at < Ttl
      BY <2>2 DEF Prices!IsFresh, Prices!Cached
    <3>2. RecordOK(v2[k])
      BY <1>0, <3>1 DEF StoreOK
    <3>3. v5'.value = v2[k].value
      BY <2>2, HeldAnswer
    <3>4. v1' - v5'.value < Ttl
      BY <1>0, <2>1, <3>1, <3>2, <3>3 DEF RecordOK
    <3> QED
      BY <1>0, <2>1, <3>4 DEF QuotesInvariant, StoreOK, RecordOK, FetchesOK, Prices!OldOnlyAfterFailure
  <2>3. CASE Prices!Resting(k) /\ v5' = Prices!HeldOrError(k, v2[k], "resting")
    <3>1. v5'.key = k
      BY <2>3, HeldAnswer
    <3>2. Prices!Resting(v5.key)'
      BY <2>1, <2>3, <3>1 DEF Prices!Resting
    <3> QED
      BY <1>0, <2>1, <3>2 DEF QuotesInvariant, StoreOK, RecordOK, FetchesOK, Prices!OldOnlyAfterFailure
  <2> QED
    BY <1>2, <2>2, <2>3 DEF Prices!GetHeld
<1>3. ASSUME NEW c \in Callers, NEW k \in CacheKeys, Prices!Fetch(c, k) PROVE QuotesInvariant'
  <2>1. /\ UNCHANGED <<v1, v2, v3, v5>>
        /\ v4' = [v4 EXCEPT ![c] = [key |-> k, started |-> v1, held |-> v2[k]]]
    BY <1>3 DEF Prices!Fetch
  <2>2. FetchesOK'
    BY <1>0, <2>1 DEF FetchesOK
  <2> QED
    BY <1>0, <2>1, <2>2 DEF QuotesInvariant, StoreOK, RecordOK, Prices!OldOnlyAfterFailure, Prices!Resting
<1>4. ASSUME NEW c \in Callers, Prices!FetchAnswers(c) PROVE QuotesInvariant'
  <2>1. PICK moment \in v4[c].started..v1 :
          /\ v2' = [v2 EXCEPT ![v4[c].key] = [at |-> v4[c].started, value |-> moment]]
          /\ v5' = [key |-> v4[c].key, value |-> moment, cause |-> "fetched"]
    BY <1>4 DEF Prices!FetchAnswers
  <2>2. /\ v3' = [v3 EXCEPT ![v4[c].key] = Prices!Never] /\ v4' = [v4 EXCEPT ![c] = Prices!Idle]
        /\ v1' = v1 /\ v4[c] # Prices!Idle
    BY <1>4 DEF Prices!FetchAnswers
  <2>3. v4[c].key \in CacheKeys /\ v4[c].started \in Int
    BY <1>0, <2>2 DEF FetchesOK
  <2>4. StoreOK'
    BY <1>0, <2>1, <2>2, <2>3 DEF StoreOK, RecordOK
  <2>5. FetchesOK'
    BY <1>0, <2>2 DEF FetchesOK
  <2>6. v3' \in [CacheKeys -> Int]
    <3>1. Prices!Never \in Int
      BY DEF Prices!Never
    <3> QED
      BY <1>0, <2>2, <2>3, <3>1
  <2>7. v5'.cause = "fetched"
    BY <2>1
  <2>8. Prices!OldOnlyAfterFailure'
    BY <2>7 DEF Prices!OldOnlyAfterFailure
  <2> QED
    BY <1>0, <2>1, <2>2, <2>4, <2>5, <2>6, <2>8 DEF QuotesInvariant
<1>5. ASSUME NEW c \in Callers, Prices!FetchFails(c) PROVE QuotesInvariant'
  <2>1. /\ v3' = [v3 EXCEPT ![v4[c].key] = v4[c].started] /\ v4' = [v4 EXCEPT ![c] = Prices!Idle]
        /\ UNCHANGED <<v1, v2>> /\ v4[c] # Prices!Idle
        /\ v5' = Prices!HeldOrError(v4[c].key, v4[c].held, "failed")
    BY <1>5 DEF Prices!FetchFails
  <2>2. v3' \in [CacheKeys -> Int]
    BY <1>0, <2>1 DEF FetchesOK
  <2>3. FetchesOK'
    BY <1>0, <2>1 DEF FetchesOK
  <2>4. v5'.cause \in {"error", "failed"}
    BY <2>1, HeldAnswer
  <2>5. Prices!OldOnlyAfterFailure'
    BY <2>4 DEF Prices!OldOnlyAfterFailure
  <2> QED
    BY <1>0, <2>1, <2>2, <2>3, <2>5 DEF QuotesInvariant, StoreOK, RecordOK
<1>6. CASE Prices!Tick
  <2>1. v1' = v1 + 1 /\ v5' = Prices!NoAnswer /\ UNCHANGED <<v2, v3, v4>>
    BY <1>6 DEF Prices!Tick
  <2>2. Prices!OldOnlyAfterFailure'
    BY <2>1 DEF Prices!OldOnlyAfterFailure, Prices!NoAnswer
  <2>3. StoreOK' /\ FetchesOK'
    BY <1>0, <2>1 DEF StoreOK, RecordOK, FetchesOK
  <2> QED
    BY <1>0, <2>1, <2>2, <2>3 DEF QuotesInvariant
<1> QED
  BY <1>1, <1>2, <1>3, <1>4, <1>5, <1>6 DEF Prices!Next

-----------------------------------------------------------------------------
(* The language model: v1 is the clock, v2 the circuits, v3 the calls, v4    *)
(* the last exhaustion, v5 the day on file, v6 the day just told, v7 the     *)
(* days told, v8 until when a purpose is to keep away, v10 the notices that  *)
(* were cut short.                                                           *)

Circuit(c) == /\ c = [failures |-> c.failures, until |-> c.until, forever |-> c.forever]
              /\ c.until \in Int /\ c.forever \in BOOLEAN

Call(c) == /\ c = [phase |-> c.phase, attempt |-> c.attempt, at |-> c.at]
           /\ c.phase \in {"none", "ready", "sent"}

(* Who is barred meets an open circuit; a call under way is not barred.      *)
KeepsAway(p) ==
  /\ Circuit(v2[p]) /\ Call(v3[p]) /\ v8[p] \in Int
  /\ v2[p].forever \/ v8[p] <= v2[p].until \/ v8[p] <= v1
  /\ v3[p].phase # "none" => v8[p] <= v1

BarredOK ==
  /\ v1 \in Nat
  /\ DOMAIN v2 = Purposes /\ DOMAIN v3 = Purposes /\ DOMAIN v8 = Purposes
  /\ \A p \in Purposes : KeepsAway(p)

LEMMA DaysAreNumbers ==
  /\ \A t \in Nat : Llm!Day(t) \in Nat
  /\ \A t \in Nat : Llm!NextMidnight(t) \in Nat
<1>1. DayLength \in Nat \ {0}
  BY ProvidersAssumption
<1>2. \A t \in Nat : Llm!Day(t) \in Nat
  BY <1>1 DEF Llm!Day
<1>3. \A n \in Nat : (n + 1) * DayLength \in Nat
  BY <1>1
<1> QED
  BY <1>2, <1>3 DEF Llm!NextMidnight

LEMMA AnswerFields ==
  ASSUME NEW a \in Llm!Answers
  PROVE  /\ a.kind \in {"timeout", "connection", "not_json", "empty", "cut", "text", "http"}
         /\ a.words \in BOOLEAN /\ a.retry \in Nat
         /\ a.kind = "text" => a = Llm!Plain("text")
         /\ a.kind = "http" => a.status \in {400, 401, 402, 403, 429, 500}
<1>0. MaxRetryAfter \in Nat /\ 2 * MaxRetryAfter \in Nat
  BY ProvidersAssumption
<1>1. CASE a \in {Llm!Plain(k) : k \in {"timeout", "connection", "not_json", "empty", "cut", "text"}}
  <2>1. PICK k \in {"timeout", "connection", "not_json", "empty", "cut", "text"} : a = Llm!Plain(k)
    BY <1>1
  <2>2. a.kind = k /\ a.words = FALSE /\ a.retry = 0
    BY <2>1 DEF Llm!Plain
  <2>3. k # "http"
    OBVIOUS
  <2>4. a.kind \in {"timeout", "connection", "not_json", "empty", "cut", "text"}
    BY <2>2
  <2>5. a.words \in BOOLEAN /\ a.retry \in Nat
    <3>1. a.retry = 0
      BY <2>2
    <3>2. a.words \in BOOLEAN
      BY <2>2, Zenon
    <3>3. a.retry \in Nat
      BY <3>1
    <3> QED
      BY <3>2, <3>3
  <2>6. a.kind = "text" => a = Llm!Plain("text")
    BY <2>1, <2>2
  <2>7. a.kind # "http"
    BY <2>4
  <2> QED
    BY <2>4, <2>5, <2>6, <2>7
<1>2. CASE a \in {Llm!Http(s, FALSE, 0) : s \in {400, 401, 402, 500}}
  <2>1. PICK s \in {400, 401, 402, 500} : a = Llm!Http(s, FALSE, 0)
    BY <1>2
  <2>2. a.kind = "http" /\ a.status = s /\ a.words = FALSE /\ a.retry = 0
    BY <2>1 DEF Llm!Http
  <2>3. a.words \in BOOLEAN /\ a.retry \in Nat
    <3>1. a.retry = 0
      BY <2>2
    <3>2. a.words \in BOOLEAN
      BY <2>2, Zenon
    <3>3. a.retry \in Nat
      BY <3>1
    <3> QED
      BY <3>2, <3>3
  <2>4. a.kind # "text" /\ a.status \in {400, 401, 402, 403, 429, 500}
    BY <2>2
  <2> QED
    BY <2>2, <2>3, <2>4
<1>3. CASE a \in {Llm!Http(429, FALSE, r) : r \in {0, 2 * MaxRetryAfter}}
  <2>1. PICK r \in {0, 2 * MaxRetryAfter} : a = Llm!Http(429, FALSE, r)
    BY <1>3
  <2>2. a.kind = "http" /\ a.status = 429 /\ a.words = FALSE /\ a.retry = r
    BY <2>1 DEF Llm!Http
  <2>3. r \in Nat
    BY <1>0
  <2>4. a.words \in BOOLEAN /\ a.retry \in Nat
    BY <2>2, <2>3
  <2>5. a.kind # "text" /\ a.status \in {400, 401, 402, 403, 429, 500}
    BY <2>2
  <2> QED
    BY <2>2, <2>4, <2>5
<1>4. CASE a \in {Llm!Http(s, TRUE, 0) : s \in {403, 429, 500}}
  <2>1. PICK s \in {403, 429, 500} : a = Llm!Http(s, TRUE, 0)
    BY <1>4
  <2>2. a.kind = "http" /\ a.status = s /\ a.words = TRUE /\ a.retry = 0
    BY <2>1 DEF Llm!Http
  <2>3. a.words \in BOOLEAN /\ a.retry \in Nat
    <3>1. a.retry = 0
      BY <2>2
    <3>2. a.words \in BOOLEAN
      BY <2>2, Zenon
    <3>3. a.retry \in Nat
      BY <3>1
    <3> QED
      BY <3>2, <3>3
  <2>4. a.kind # "text" /\ a.status \in {400, 401, 402, 403, 429, 500}
    BY <2>2
  <2> QED
    BY <2>2, <2>3, <2>4
<1> QED
  BY <1>1, <1>2, <1>3, <1>4 DEF Llm!Answers

(* What an answer with a status means. *)
LEMMA HttpFailures ==
  ASSUME NEW a \in Llm!Answers, a.kind = "http"
  PROVE  LET e == Llm!Raised(a) IN
         /\ e.callerFault = FALSE /\ e.retryAfter = a.retry
         /\ e.quota = (a.status = 402 \/ a.words)
         /\ ~e.quota /\ a.status \in {400, 401, 403} => e.fatal = TRUE
         /\ ~e.quota /\ a.status \notin {400, 401, 403} => e.fatal = FALSE
         /\ e.fatal \in BOOLEAN
         /\ e.rate = (a.status = 429)
         /\ e.quota \/ a.status \in {400, 401, 403} => e.retryable = FALSE
<1> DEFINE quota == a.status = 402 \/ a.words
           reason == IF quota THEN "quota_exhausted"
                     ELSE IF a.status \in {401, 403} THEN "auth_error"
                     ELSE IF a.status = 429 THEN "rate_limited"
                     ELSE IF a.status >= 500 THEN "server_error"
                     ELSE "bad_request"
           e == Llm!Raised(a)
<1>1. e = Llm!HttpFailure(a)
  BY DEF Llm!Raised
<1>2. Llm!HttpFailure(a) = [Llm!Failure EXCEPT !.reason = reason, !.quota = quota,
                        !.retryable = reason \in {"rate_limited", "server_error"},
                        !.fatal = reason \in {"auth_error", "bad_request"},
                        !.rate = a.status = 429, !.retryAfter = a.retry]
  BY DEF Llm!HttpFailure
<1>3. /\ quota => reason = "quota_exhausted"
      /\ ~quota /\ a.status \in {401, 403} => reason = "auth_error"
      /\ ~quota /\ a.status = 429 => reason = "rate_limited"
      /\ ~quota /\ a.status = 500 => reason = "server_error"
      /\ ~quota /\ a.status = 400 => reason = "bad_request"
  <2>1. CASE quota
    BY <2>1
  <2>2. CASE ~quota /\ a.status = 401
    BY <2>2
  <2>3. CASE ~quota /\ a.status = 403
    BY <2>3
  <2>4. CASE ~quota /\ a.status = 429
    BY <2>4
  <2>5. CASE ~quota /\ a.status = 500
    BY <2>5
  <2>6. CASE ~quota /\ a.status = 400
    BY <2>6
  <2> HIDE DEF quota, reason
  <2> QED
    BY <2>1, <2>2, <2>3, <2>4, <2>5, <2>6
<1>4. a.status = 402 => quota
  OBVIOUS
<1>5. a.words \in BOOLEAN /\ a.status \in {400, 401, 402, 403, 429, 500}
  BY AnswerFields
<1>6. quota \in BOOLEAN
  OBVIOUS
<1> DEFINE again == reason \in {"rate_limited", "server_error"}
           grave == reason \in {"auth_error", "bad_request"}
           rate == a.status = 429
<1>7. /\ quota \/ a.status \in {400, 401, 403} => again = FALSE
      /\ ~quota /\ a.status \in {400, 401, 403} => grave = TRUE
      /\ ~quota /\ a.status \in {429, 500} => grave = FALSE
      /\ grave \in BOOLEAN
  <2> HIDE DEF reason, quota
  <2> QED
    BY <1>3, <1>6
<1> HIDE DEF e, reason, quota, again, grave, rate
<1>8. e = [Llm!Failure EXCEPT !.reason = reason, !.quota = quota, !.retryable = again,
             !.fatal = grave, !.rate = rate, !.retryAfter = a.retry]
  BY <1>1, <1>2 DEF again, grave, rate
<1>9. /\ e.quota = quota /\ e.retryable = again /\ e.fatal = grave
      /\ e.rate = rate /\ e.retryAfter = a.retry /\ e.callerFault = FALSE
  BY <1>8 DEF Llm!Failure
<1>10. ~quota /\ a.status \notin {400, 401, 403} => a.status \in {429, 500}
  BY <1>4, <1>5
<1> SUFFICES /\ e.callerFault = FALSE /\ e.retryAfter = a.retry
             /\ e.quota = quota
             /\ ~e.quota /\ a.status \in {400, 401, 403} => e.fatal = TRUE
             /\ ~e.quota /\ a.status \notin {400, 401, 403} => e.fatal = FALSE
             /\ e.fatal \in BOOLEAN
             /\ e.rate = rate
             /\ e.quota \/ a.status \in {400, 401, 403} => e.retryable = FALSE
  BY DEF e, quota, rate
<1> QED
  BY <1>6, <1>7, <1>9, <1>10

LEMMA FailedCircuit ==
  ASSUME NEW c, Circuit(c), v1 \in Nat, NEW e, e.retryAfter \in Nat
  PROVE  LET n == Llm!Failed(c, e) IN
         /\ Circuit(n)
         /\ ~e.callerFault /\ e.quota => n.until = Llm!NextMidnight(v1)
         /\ ~e.callerFault /\ ~e.quota /\ e.fatal => n.forever = TRUE
         /\ ~e.callerFault /\ ~e.quota /\ ~e.fatal /\ e.rate => n.until >= v1 + RateCooldown
<1> DEFINE n == Llm!Failed(c, e)
           rest == Llm!Least(LlmCooldown, Llm!Most(e.retryAfter, RateCooldown))
           count == Llm!Least(c.failures + 1, LlmThreshold)
<1>1. rest \in Nat /\ rest >= RateCooldown
  BY ProvidersAssumption DEF Llm!Least, Llm!Most
<1>2. LlmCooldown \in Nat /\ RateCooldown \in Nat /\ Llm!NextMidnight(v1) \in Nat
  BY ProvidersAssumption, DaysAreNumbers
<1>3. n = IF e.callerFault THEN c
          ELSE IF e.quota THEN [c EXCEPT !.until = Llm!NextMidnight(v1)]
          ELSE IF e.fatal THEN [c EXCEPT !.forever = TRUE]
          ELSE IF e.rate THEN [failures |-> count, until |-> v1 + rest, forever |-> FALSE]
          ELSE IF count >= LlmThreshold
            THEN [failures |-> count, until |-> v1 + LlmCooldown, forever |-> FALSE]
          ELSE [c EXCEPT !.failures = count]
  BY DEF Llm!Failed
<1> HIDE DEF n, rest, count
<1>4. c = [failures |-> c.failures, until |-> c.until, forever |-> c.forever]
  BY DEF Circuit
<1>5. c.until \in Int /\ c.forever \in BOOLEAN
  BY DEF Circuit
<1>6. CASE e.callerFault
  <2>1. n = c
    BY <1>3, <1>6
  <2> QED
    BY <1>6, <2>1 DEF n
<1>7. CASE ~e.callerFault /\ e.quota
  <2>1. n = [c EXCEPT !.until = Llm!NextMidnight(v1)]
    BY <1>3, <1>7
  <2>2. /\ n = [failures |-> n.failures, until |-> n.until, forever |-> n.forever]
        /\ n.until = Llm!NextMidnight(v1) /\ n.forever = c.forever
    BY <2>1, <1>4
  <2> QED
    BY <1>2, <1>5, <1>7, <2>2 DEF n, Circuit
<1>8. CASE ~e.callerFault /\ ~e.quota /\ e.fatal
  <2>1. n = [c EXCEPT !.forever = TRUE]
    BY <1>3, <1>8
  <2>2. /\ n = [failures |-> n.failures, until |-> n.until, forever |-> n.forever]
        /\ n.until = c.until /\ n.forever = TRUE
    BY <2>1, <1>4
  <2> QED
    BY <1>5, <1>8, <2>2 DEF n, Circuit
<1>9. CASE ~e.callerFault /\ ~e.quota /\ ~e.fatal /\ e.rate
  <2>1. n = [failures |-> count, until |-> v1 + rest, forever |-> FALSE]
    BY <1>3, <1>9
  <2>2. /\ n = [failures |-> n.failures, until |-> n.until, forever |-> n.forever]
        /\ n.until = v1 + rest /\ n.forever = FALSE
    BY <2>1
  <2>3. v1 + rest \in Int /\ v1 + rest >= v1 + RateCooldown
    BY <1>1, <1>2
  <2> QED
    BY <1>9, <2>2, <2>3 DEF n, Circuit
<1>10. CASE ~e.callerFault /\ ~e.quota /\ ~e.fatal /\ ~e.rate
  <2>1. \/ n = [failures |-> count, until |-> v1 + LlmCooldown, forever |-> FALSE]
        \/ n = [c EXCEPT !.failures = count]
    BY <1>3, <1>10
  <2>2. /\ n = [failures |-> n.failures, until |-> n.until, forever |-> n.forever]
        /\ n.until \in {v1 + LlmCooldown, c.until} /\ n.forever \in {FALSE, c.forever}
    <3>1. CASE n = [failures |-> count, until |-> v1 + LlmCooldown, forever |-> FALSE]
      BY <3>1
    <3>2. CASE n = [c EXCEPT !.failures = count]
      BY <3>2, <1>4
    <3> QED
      BY <2>1, <3>1, <3>2
  <2>3. v1 + LlmCooldown \in Int
    BY <1>2
  <2> QED
    BY <1>5, <1>10, <2>2, <2>3 DEF n, Circuit
<1> QED
  BY <1>6, <1>7, <1>8, <1>9, <1>10

LEMMA PlainFailures ==
  ASSUME NEW a \in Llm!Answers, a.kind # "http", a # Llm!Plain("text")
  PROVE  LET e == Llm!Raised(a) IN
         /\ e.callerFault \in BOOLEAN /\ e.retryAfter = 0 /\ e.rate = FALSE
         /\ e.quota = FALSE /\ e.fatal = FALSE
<1> DEFINE e == Llm!Raised(a)
<1>1. a.kind \in {"timeout", "connection", "not_json", "empty", "cut"}
  BY AnswerFields
<1>2. CASE a.kind \in {"timeout", "connection"}
  <2>1. e = [Llm!Failure EXCEPT !.reason = a.kind, !.retryable = TRUE]
    BY <1>2 DEF Llm!Raised
  <2> HIDE DEF e
  <2>2. /\ e.callerFault = FALSE /\ e.retryAfter = 0 /\ e.rate = FALSE
        /\ e.quota = FALSE /\ e.fatal = FALSE
    BY <2>1 DEF Llm!Failure
  <2> QED
    BY <2>2, Zenon DEF e
<1>3. CASE a.kind \in {"not_json", "empty"}
  <2>1. e = [Llm!Failure EXCEPT !.reason = "invalid_response", !.retryable = TRUE]
    BY <1>3 DEF Llm!Raised
  <2> HIDE DEF e
  <2>2. /\ e.callerFault = FALSE /\ e.retryAfter = 0 /\ e.rate = FALSE
        /\ e.quota = FALSE /\ e.fatal = FALSE
    BY <2>1 DEF Llm!Failure
  <2> QED
    BY <2>2, Zenon DEF e
<1>4. CASE a.kind = "cut"
  <2>1. e = [Llm!Failure EXCEPT !.reason = "truncated", !.callerFault = TRUE]
    BY <1>4 DEF Llm!Raised
  <2> HIDE DEF e
  <2>2. /\ e.callerFault = TRUE /\ e.retryAfter = 0 /\ e.rate = FALSE
        /\ e.quota = FALSE /\ e.fatal = FALSE
    BY <2>1 DEF Llm!Failure
  <2> QED
    BY <2>2, Zenon DEF e
<1> QED
  BY <1>1, <1>2, <1>3, <1>4

(* A step of one purpose leaves the others alone. *)
LEMMA OnePurpose ==
  ASSUME BarredOK, NEW p \in Purposes, v1' = v1,
         DOMAIN v2' = Purposes, DOMAIN v3' = Purposes, DOMAIN v8' = Purposes,
         \A q \in Purposes \ {p} : v2'[q] = v2[q] /\ v3'[q] = v3[q] /\ v8'[q] = v8[q],
         KeepsAway(p)'
  PROVE  BarredOK'
<1> SUFFICES ASSUME NEW q \in Purposes PROVE KeepsAway(q)'
  BY DEF BarredOK
<1>1. KeepsAway(q)
  BY DEF BarredOK
<1>2. CASE q = p
  BY <1>2
<1>3. CASE q # p
  BY <1>1, <1>3 DEF KeepsAway
<1> QED
  BY <1>2, <1>3

LEMMA BarredInit ==
  ASSUME Llm!Init
  PROVE  BarredOK
<1> SUFFICES ASSUME NEW p \in Purposes PROVE KeepsAway(p)
  BY DEF Llm!Init, BarredOK
<1>1. /\ v2[p] = [failures |-> 0, until |-> 0, forever |-> FALSE]
      /\ v3[p] = [phase |-> "none", attempt |-> 0, at |-> 0]
      /\ v8[p] = 0 /\ v1 = 0
  BY DEF Llm!Init, Llm!Closed, Llm!Resting
<1>2. Circuit(v2[p])
  BY <1>1 DEF Circuit
<1>3. Call(v3[p])
  BY <1>1 DEF Call
<1> QED
  BY <1>1, <1>2, <1>3 DEF KeepsAway

LEMMA BarredBegin ==
  ASSUME BarredOK, NEW p \in Purposes, Llm!Begin(p)
  PROVE  BarredOK' /\ Llm!StayingAway
<1>1. /\ v3' = [v3 EXCEPT ![p] = [phase |-> "sent", attempt |-> 1, at |-> 0]]
      /\ ~Llm!Open(v2[p]) /\ UNCHANGED <<v1, v2, v8>>
  BY DEF Llm!Begin
<1>2. v3'[p] = [phase |-> "sent", attempt |-> 1, at |-> 0]
  BY <1>1 DEF BarredOK
<1>3. Call(v3'[p])
  BY <1>2 DEF Call
<1>4. KeepsAway(p) /\ v1 \in Nat
  BY DEF BarredOK
<1>5. v8[p] <= v1
  BY <1>1, <1>4 DEF Llm!Open, KeepsAway, Circuit
<1>6. KeepsAway(p)'
  BY <1>1, <1>2, <1>3, <1>4, <1>5 DEF KeepsAway
<1>7. BarredOK'
  BY <1>1, <1>6, OnePurpose DEF BarredOK
<1>8. \A q \in Purposes \ {p} : v3'[q] = v3[q]
  BY <1>1 DEF BarredOK
<1> QED
  BY <1>5, <1>7, <1>8 DEF Llm!StayingAway

LEMMA BarredRetry ==
  ASSUME BarredOK, NEW p \in Purposes, Llm!Retry(p)
  PROVE  BarredOK' /\ Llm!StayingAway
<1>1. /\ v3' = [v3 EXCEPT ![p].phase = "sent", ![p].at = 0]
      /\ v3[p].phase = "ready" /\ UNCHANGED <<v1, v2, v8>>
  BY DEF Llm!Retry
<1>2. KeepsAway(p) /\ v1 \in Nat
  BY DEF BarredOK
<1>3. v3[p] = [phase |-> v3[p].phase, attempt |-> v3[p].attempt, at |-> v3[p].at]
  BY <1>2 DEF KeepsAway, Call
<1>4. v3'[p] = [phase |-> "sent", attempt |-> v3[p].attempt, at |-> 0]
  BY <1>1, <1>3 DEF BarredOK
<1>5. Call(v3'[p])
  BY <1>4 DEF Call
<1>6. v8[p] <= v1
  BY <1>1, <1>2 DEF KeepsAway
<1>7. KeepsAway(p)'
  BY <1>1, <1>2, <1>5, <1>6 DEF KeepsAway
<1>8. DOMAIN v3' = Purposes /\ \A q \in Purposes \ {p} : v3'[q] = v3[q]
  BY <1>1 DEF BarredOK
<1>9. BarredOK'
  BY <1>1, <1>7, <1>8, OnePurpose DEF BarredOK
<1> QED
  BY <1>6, <1>8, <1>9 DEF Llm!StayingAway

LEMMA BarredText ==
  ASSUME BarredOK, NEW p \in Purposes, Llm!TextArrives(p)
  PROVE  BarredOK' /\ Llm!StayingAway
<1>1. /\ v2' = [v2 EXCEPT ![p] = Llm!Succeeded(v2[p])]
      /\ v3' = [v3 EXCEPT ![p] = [phase |-> "none", attempt |-> 0, at |-> 0]]
      /\ v3[p].phase = "sent" /\ UNCHANGED <<v1, v8>>
  BY DEF Llm!TextArrives, Llm!Resting
<1>2. KeepsAway(p) /\ v1 \in Nat
  BY DEF BarredOK
<1>3. v3'[p] = [phase |-> "none", attempt |-> 0, at |-> 0]
  BY <1>1 DEF BarredOK
<1>4. Call(v3'[p])
  BY <1>3 DEF Call
<1>5. v2'[p] = Llm!Succeeded(v2[p])
  BY <1>1 DEF BarredOK
<1>6. Circuit(v2'[p])
  <2>1. v2[p] = [failures |-> v2[p].failures, until |-> v2[p].until, forever |-> v2[p].forever]
    BY <1>2 DEF KeepsAway, Circuit
  <2>2. v2'[p] = [failures |-> 0, until |-> 0, forever |-> v2[p].forever]
    BY <1>5, <2>1 DEF Llm!Succeeded
  <2>3. v2[p].forever \in BOOLEAN
    BY <1>2 DEF KeepsAway, Circuit
  <2> QED
    BY <2>2, <2>3 DEF Circuit
<1>7. KeepsAway(p)'
  BY <1>1, <1>2, <1>3, <1>4, <1>6 DEF KeepsAway
<1>8. /\ DOMAIN v2' = Purposes /\ DOMAIN v3' = Purposes
      /\ \A q \in Purposes \ {p} : v2'[q] = v2[q] /\ v3'[q] = v3[q]
  BY <1>1 DEF BarredOK
<1>9. BarredOK'
  BY <1>1, <1>7, <1>8, OnePurpose DEF BarredOK
<1>10. v3'[p].phase # "sent"
  BY <1>3
<1> QED
  BY <1>8, <1>9, <1>10 DEF Llm!StayingAway

(* An answer that is no text: the circuit that opens rests for as long as    *)
(* the provider asked, unless the call tries once more.                      *)
LEMMA BarredAfterFailure ==
  ASSUME NEW a \in Llm!Answers, a # Llm!Plain("text"), v1 \in Nat,
         NEW p \in Purposes, KeepsAway(p), v3[p].phase = "sent",
         v1' = v1,
         v2'[p] = Llm!Failed(v2[p], Llm!Raised(a)),
         v3'[p] = Llm!AgainOrNot(p, Llm!Raised(a)),
         v8'[p] = IF a.kind # "http" THEN v8[p]
                  ELSE IF a.words \/ a.status = 402 THEN Llm!NextMidnight(v1)
                  ELSE IF a.status \in {400, 401, 403} THEN Llm!Always
                  ELSE IF a.status = 429 /\ v3'[p] = Llm!Resting THEN v1 + RateCooldown
                  ELSE v8[p]
  PROVE  KeepsAway(p)' /\ v3'[p].phase # "sent"
<1> DEFINE e == Llm!Raised(a)
           at == v1 + Llm!Least(e.retryAfter, MaxRetryAfter)
           Over == ~e.retryable \/ v3[p].attempt = LlmAttempts
<1>1. v8[p] \in Int /\ v8[p] <= v1 /\ Circuit(v2[p])
  BY DEF KeepsAway
<1>2. v3'[p] = IF Over THEN [phase |-> "none", attempt |-> 0, at |-> 0]
               ELSE [phase |-> "ready", attempt |-> v3[p].attempt + 1, at |-> at]
  BY DEF Llm!AgainOrNot, Llm!Resting
<1>3. /\ Llm!NextMidnight(v1) \in Nat /\ Llm!Always \in Int /\ v1 + RateCooldown \in Nat
  BY ProvidersAssumption, DaysAreNumbers DEF Llm!Always
<1>4. /\ Call(v3'[p]) /\ v3'[p].phase # "sent"
      /\ v3'[p].phase # "none" => ~Over
      /\ Over => v3'[p] = Llm!Resting
  <2> HIDE DEF at, Over
  <2>1. CASE Over
    <3>1. v3'[p] = [phase |-> "none", attempt |-> 0, at |-> 0]
      BY <1>2, <2>1
    <3> QED
      BY <2>1, <3>1 DEF Call, Llm!Resting
  <2>2. CASE ~Over
    <3>1. v3'[p] = [phase |-> "ready", attempt |-> v3[p].attempt + 1, at |-> at]
      BY <1>2, <2>2
    <3> QED
      BY <2>2, <3>1 DEF Call
  <2> QED
    BY <2>1, <2>2
<1>5. CASE a.kind # "http"
  <2>1. Circuit(v2'[p])
    <3>1. e.retryAfter = 0
      BY <1>5, PlainFailures
    <3>2. v2'[p] = Llm!Failed(v2[p], e)
      OBVIOUS
    <3> HIDE DEF e
    <3>3. e.retryAfter \in Nat
      BY <3>1
    <3>4. v1 \in Nat
      OBVIOUS
    <3>5. Circuit(Llm!Failed(v2[p], e))
      BY ONLY <1>1, <3>3, <3>4, FailedCircuit
    <3> QED
      BY <3>2, <3>5
  <2>2. v8'[p] = v8[p]
    BY <1>5
  <2> QED
    BY <1>1, <1>4, <2>1, <2>2 DEF KeepsAway
<1>6. CASE a.kind = "http"
  <2> HIDE DEF e, at, Over
  <2>1. /\ e.callerFault = FALSE /\ e.retryAfter = a.retry
        /\ e.quota = (a.status = 402 \/ a.words)
        /\ ~e.quota /\ a.status \in {400, 401, 403} => e.fatal = TRUE
        /\ ~e.quota /\ a.status \notin {400, 401, 403} => e.fatal = FALSE
        /\ e.fatal \in BOOLEAN
        /\ e.rate = (a.status = 429)
        /\ e.quota \/ a.status \in {400, 401, 403} => e.retryable = FALSE
    BY <1>6, HttpFailures DEF e
  <2>2. e.retryAfter \in Nat
    BY <2>1, AnswerFields
  <2>3. v2'[p] = Llm!Failed(v2[p], e)
    BY DEF e
  <2>4. /\ Circuit(v2'[p])
        /\ ~e.callerFault /\ e.quota => v2'[p].until = Llm!NextMidnight(v1)
        /\ ~e.callerFault /\ ~e.quota /\ e.fatal => v2'[p].forever = TRUE
        /\ ~e.callerFault /\ ~e.quota /\ ~e.fatal /\ e.rate => v2'[p].until >= v1 + RateCooldown
    <3>1. v1 \in Nat
      OBVIOUS
    <3> DEFINE n == Llm!Failed(v2[p], e)
    <3>2. /\ Circuit(n)
          /\ ~e.callerFault /\ e.quota => n.until = Llm!NextMidnight(v1)
          /\ ~e.callerFault /\ ~e.quota /\ e.fatal => n.forever = TRUE
          /\ ~e.callerFault /\ ~e.quota /\ ~e.fatal /\ e.rate => n.until >= v1 + RateCooldown
      BY ONLY <1>1, <2>2, <3>1, FailedCircuit
    <3> HIDE DEF n
    <3>3. n = v2'[p]
      BY <2>3 DEF n
    <3> QED
      BY <3>2, <3>3
  <2>5. CASE a.words \/ a.status = 402
    <3>1. v8'[p] = Llm!NextMidnight(v1) /\ v2'[p].until = Llm!NextMidnight(v1)
      BY <1>6, <2>1, <2>4, <2>5
    <3>2. v3'[p].phase = "none"
      BY <1>4, <2>1, <2>5 DEF Over, Llm!Resting
    <3> QED
      BY <1>3, <1>4, <2>4, <3>1, <3>2 DEF KeepsAway
  <2>6. CASE ~(a.words \/ a.status = 402) /\ a.status \in {400, 401, 403}
    <3>1. v8'[p] = Llm!Always /\ v2'[p].forever
      BY <1>6, <2>1, <2>4, <2>6
    <3>2. v3'[p].phase = "none"
      BY <1>4, <2>1, <2>6 DEF Over, Llm!Resting
    <3> QED
      BY <1>3, <1>4, <2>4, <3>1, <3>2 DEF KeepsAway
  <2>7. CASE /\ ~(a.words \/ a.status = 402) /\ a.status \notin {400, 401, 403}
             /\ a.status = 429 /\ v3'[p] = Llm!Resting
    <3>1. v8'[p] = v1 + RateCooldown /\ v2'[p].until >= v1 + RateCooldown
      BY <1>6, <2>1, <2>4, <2>7
    <3>2. v3'[p].phase = "none"
      BY <2>7 DEF Llm!Resting
    <3> QED
      BY <1>3, <1>4, <2>4, <3>1, <3>2 DEF KeepsAway
  <2>8. CASE /\ ~(a.words \/ a.status = 402) /\ a.status \notin {400, 401, 403}
             /\ ~(a.status = 429 /\ v3'[p] = Llm!Resting)
    <3>1. v8'[p] = v8[p]
      BY <1>6, <2>8
    <3> QED
      BY <1>1, <1>4, <2>4, <3>1 DEF KeepsAway
  <2> QED
    BY <2>5, <2>6, <2>7, <2>8
<1> QED
  BY <1>5, <1>6

LEMMA BarredFailure ==
  ASSUME BarredOK, NEW p \in Purposes, NEW a \in Llm!Answers \ {Llm!Plain("text")},
         Llm!FailureArrives(p, a)
  PROVE  BarredOK' /\ Llm!StayingAway
<1> DEFINE e == Llm!Raised(a)
<1>1. /\ v2' = [v2 EXCEPT ![p] = Llm!Failed(v2[p], e)]
      /\ v3' = [v3 EXCEPT ![p] = Llm!AgainOrNot(p, e)]
      /\ v3[p].phase = "sent" /\ v1' = v1
  BY DEF Llm!FailureArrives
<1>2. v8' = [v8 EXCEPT ![p] =
               IF a.kind # "http" THEN v8[p]
               ELSE IF a.words \/ a.status = 402 THEN Llm!NextMidnight(v1)
               ELSE IF a.status \in {400, 401, 403} THEN Llm!Always
               ELSE IF a.status = 429 /\ v3'[p] = Llm!Resting THEN v1 + RateCooldown
               ELSE v8[p]]
  BY DEF Llm!FailureArrives
<1> DEFINE b == IF a.kind # "http" THEN v8[p]
                ELSE IF a.words \/ a.status = 402 THEN Llm!NextMidnight(v1)
                ELSE IF a.status \in {400, 401, 403} THEN Llm!Always
                ELSE IF a.status = 429 /\ v3'[p] = Llm!Resting THEN v1 + RateCooldown
                ELSE v8[p]
<1>3. KeepsAway(p) /\ v1 \in Nat
  BY DEF BarredOK
<1>4. /\ v2'[p] = Llm!Failed(v2[p], e)
      /\ v3'[p] = Llm!AgainOrNot(p, e)
      /\ DOMAIN v2' = Purposes /\ DOMAIN v3' = Purposes
      /\ \A q \in Purposes \ {p} : v2'[q] = v2[q] /\ v3'[q] = v3[q]
  <2> HIDE DEF e
  <2> QED
    BY <1>1 DEF BarredOK
<1>5. /\ v8'[p] = b
      /\ DOMAIN v8' = Purposes
      /\ \A q \in Purposes \ {p} : v8'[q] = v8[q]
  <2>1. v8' = [v8 EXCEPT ![p] = b]
    BY <1>2
  <2> HIDE DEF b
  <2> QED
    BY <2>1 DEF BarredOK
<1>6. KeepsAway(p)' /\ v3'[p].phase # "sent"
  BY <1>1, <1>3, <1>4, <1>5, BarredAfterFailure
<1> HIDE DEF e, b
<1>7. BarredOK'
  BY <1>1, <1>4, <1>5, <1>6, OnePurpose
<1> QED
  BY <1>4, <1>6, <1>7 DEF Llm!StayingAway

-----------------------------------------------------------------------------
(* The notice about the spent quota.                                         *)

Told(days, d) == {i \in DOMAIN days : days[i] = d}

(* A day the file names, or the one that is about to be written there, may   *)
(* have been told once more than the restarts that cut a notice short.       *)
Spoken(d) == d <= v5 \/ (v6 # Llm!Never /\ d = v6)

NoticeOK ==
  /\ {v4, v5, v6} \subseteq Nat \cup {Llm!Never}
  /\ v7 \in Seq(Nat) /\ v10 \in Nat
  /\ v6 # Llm!Never => v5 < v6
  /\ \A d \in Nat : Cardinality(Told(v7, d)) <= v10 + (IF Spoken(d) THEN 1 ELSE 0)

LEMMA NeverIsBefore == Llm!Never \in Int /\ \A n \in Nat : Llm!Never < n
BY DEF Llm!Never

LEMMA ToldOnceMore ==
  ASSUME NEW days \in Seq(Nat), NEW x \in Nat, NEW d \in Nat
  PROVE  /\ Cardinality(Told(days, d)) \in Nat
         /\ d = x => Cardinality(Told(Append(days, x), d)) = Cardinality(Told(days, d)) + 1
         /\ d # x => Cardinality(Told(Append(days, x), d)) = Cardinality(Told(days, d))
<1> DEFINE n == Len(days)
           more == Append(days, x)
<1>1. n \in Nat /\ DOMAIN days = 1..n /\ DOMAIN more = 1..(n + 1)
  OBVIOUS
<1>2. \A i \in 1..n : more[i] = days[i]
  OBVIOUS
<1>3. more[n + 1] = x
  OBVIOUS
<1>4. IsFiniteSet(Told(days, d)) /\ Cardinality(Told(days, d)) \in Nat
  <2>1. IsFiniteSet(1..n) /\ Told(days, d) \subseteq 1..n
    BY <1>1, FS_Interval DEF Told
  <2> QED
    BY <2>1, FS_Subset, FS_CardinalityType
<1> HIDE DEF n, more
<1>5. n + 1 \notin Told(days, d)
  BY <1>1 DEF Told
<1>6. d = x => Told(more, d) = Told(days, d) \cup {n + 1}
  BY <1>1, <1>2, <1>3 DEF Told
<1>7. d # x => Told(more, d) = Told(days, d)
  BY <1>1, <1>2, <1>3 DEF Told
<1>8. Cardinality(Told(days, d) \cup {n + 1}) = Cardinality(Told(days, d)) + 1
  BY <1>4, <1>5, FS_AddElement
<1> QED
  BY <1>4, <1>6, <1>7, <1>8 DEF more

LEMMA NoticeInit ==
  ASSUME Llm!Init
  PROVE  NoticeOK
<1>1. v7 = <<>> /\ v10 = 0 /\ v4 = Llm!Never /\ v5 = Llm!Never /\ v6 = Llm!Never
  BY DEF Llm!Init
<1>2. \A d \in Nat : Cardinality(Told(v7, d)) = 0
  <2> TAKE d \in Nat
  <2>1. Told(v7, d) = {}
    BY <1>1 DEF Told
  <2> QED
    BY <2>1, FS_EmptySet
<1>3. \A d \in Nat : 0 <= 0 + (IF Spoken(d) THEN 1 ELSE 0)
  OBVIOUS
<1> QED
  BY <1>1, <1>2, <1>3 DEF NoticeOK

(* Most steps leave the notice alone but for the last exhaustion. *)
LEMMA NoticeKept ==
  ASSUME NoticeOK, v1 \in Nat, UNCHANGED <<v5, v6, v7, v10>>, v4' \in {v4, v1}
  PROVE  NoticeOK'
BY DEF NoticeOK, Spoken

LEMMA NoticeNotify ==
  ASSUME NoticeOK, Llm!Notify
  PROVE  NoticeOK'
<1> DEFINE x == Llm!Day(v4)
<1>1. /\ v6 = Llm!Never /\ v4 # Llm!Never /\ v5 < x
      /\ v7' = Append(v7, x) /\ v6' = x
      /\ UNCHANGED <<v4, v5, v10>>
  BY DEF Llm!Notify, Llm!Noted
<1>2. v4 \in Nat
  BY <1>1 DEF NoticeOK
<1>3. x \in Nat
  BY <1>2, DaysAreNumbers
<1> HIDE DEF x
<1>4. v5 \in Int /\ v10 \in Nat /\ v7 \in Seq(Nat) /\ x # Llm!Never
  BY <1>3, NeverIsBefore DEF NoticeOK
<1>5. v7' \in Seq(Nat)
  BY <1>1, <1>3, <1>4
<1>6. \A d \in Nat : Cardinality(Told(v7', d)) <= v10' + (IF Spoken(d)' THEN 1 ELSE 0)
  <2> TAKE d \in Nat
  <2>1. Cardinality(Told(v7, d)) <= v10 + (IF Spoken(d) THEN 1 ELSE 0)
    BY DEF NoticeOK
  <2>2. /\ Cardinality(Told(v7, d)) \in Nat
        /\ d = x => Cardinality(Told(v7', d)) = Cardinality(Told(v7, d)) + 1
        /\ d # x => Cardinality(Told(v7', d)) = Cardinality(Told(v7, d))
    BY <1>1, <1>3, <1>4, ToldOnceMore
  <2>3. CASE d = x
    <3>1. ~Spoken(d)
      BY <1>1, <1>4, <2>3 DEF Spoken
    <3>2. Spoken(d)'
      BY <1>1, <1>4, <2>3 DEF Spoken
    <3> QED
      BY <1>1, <1>4, <2>1, <2>2, <2>3, <3>1, <3>2
  <2>4. CASE d # x
    <3>1. Spoken(d) => Spoken(d)'
      BY <1>1 DEF Spoken
    <3> QED
      BY <1>1, <1>4, <2>1, <2>2, <2>4, <3>1
  <2> QED
    BY <2>3, <2>4
<1> QED
  BY <1>1, <1>2, <1>3, <1>4, <1>5, <1>6 DEF NoticeOK

LEMMA NoticeWritten ==
  ASSUME NoticeOK, Llm!WriteNotice
  PROVE  NoticeOK'
<1>1. v6 # Llm!Never /\ v5' = v6 /\ v6' = Llm!Never /\ UNCHANGED <<v4, v7, v10>>
  BY DEF Llm!WriteNotice
<1>2. v5 < v6 /\ v5 \in Int /\ v6 \in Nat
  BY <1>1, NeverIsBefore DEF NoticeOK
<1>3. \A d \in Nat : Cardinality(Told(v7', d)) <= v10' + (IF Spoken(d)' THEN 1 ELSE 0)
  <2> TAKE d \in Nat
  <2>1. Cardinality(Told(v7, d)) <= v10 + (IF Spoken(d) THEN 1 ELSE 0)
    BY DEF NoticeOK
  <2>2. Cardinality(Told(v7, d)) \in Nat /\ v10 \in Nat
    BY ToldOnceMore DEF NoticeOK
  <2>3. Spoken(d) => Spoken(d)'
    BY <1>1, <1>2 DEF Spoken
  <2> QED
    BY <1>1, <2>1, <2>2, <2>3
<1> QED
  BY <1>1, <1>2, <1>3 DEF NoticeOK

LEMMA NoticeRestart ==
  ASSUME NoticeOK, Llm!Restart
  PROVE  NoticeOK'
<1>1. /\ v10' = v10 + (IF v6 # Llm!Never THEN 1 ELSE 0)
      /\ v4' = Llm!Never /\ v6' = Llm!Never /\ UNCHANGED <<v5, v7>>
  BY DEF Llm!Restart
<1>2. v10 \in Nat
  BY DEF NoticeOK
<1>3. \A d \in Nat : Cardinality(Told(v7', d)) <= v10' + (IF Spoken(d)' THEN 1 ELSE 0)
  <2> TAKE d \in Nat
  <2>1. Cardinality(Told(v7, d)) <= v10 + (IF Spoken(d) THEN 1 ELSE 0)
    BY DEF NoticeOK
  <2>2. Cardinality(Told(v7, d)) \in Nat
    BY ToldOnceMore DEF NoticeOK
  <2>3. Spoken(d) => Spoken(d)' \/ v6 # Llm!Never
    BY <1>1 DEF Spoken
  <2> QED
    BY <1>1, <1>2, <2>1, <2>2, <2>3
<1> QED
  BY <1>1, <1>2, <1>3 DEF NoticeOK

LEMMA SameCardinality ==
  ASSUME NEW S
  PROVE  Llm!Cardinality(S) = Cardinality(S)
BY DEF Llm!Cardinality, Cardinality

LEMMA NoticeTells ==
  ASSUME NoticeOK
  PROVE  Llm!ToldOncePerDay
<1> SUFFICES ASSUME NEW d \in 0..Llm!Day(LlmTime)
             PROVE  Cardinality({i \in DOMAIN v7 : v7[i] = d}) <= 1 + v10
  BY SameCardinality DEF Llm!ToldOncePerDay
<1>1. d \in Nat
  BY DaysAreNumbers, ProvidersAssumption
<1>2. Cardinality(Told(v7, d)) <= v10 + (IF Spoken(d) THEN 1 ELSE 0)
  BY <1>1 DEF NoticeOK
<1>3. Cardinality(Told(v7, d)) \in Nat /\ v10 \in Nat
  BY <1>1, ToldOnceMore DEF NoticeOK
<1> QED
  BY <1>2, <1>3 DEF Told

-----------------------------------------------------------------------------
LlmInvariant == BarredOK /\ NoticeOK

LEMMA LlmBegins ==
  ASSUME Llm!Init
  PROVE  LlmInvariant
BY BarredInit, NoticeInit DEF LlmInvariant

LEMMA LlmGoesOn ==
  ASSUME LlmInvariant, [Llm!Next]_(Llm!vars)
  PROVE  LlmInvariant' /\ Llm!StayingAway
<1>0. BarredOK /\ NoticeOK /\ v1 \in Nat
  BY DEF LlmInvariant, BarredOK
<1>1. ASSUME NEW p \in Purposes, Llm!Begin(p)
      PROVE  LlmInvariant' /\ Llm!StayingAway
  <2>1. UNCHANGED <<v4, v5, v6, v7, v10>>
    BY <1>1 DEF Llm!Begin
  <2> QED
    BY <1>0, <1>1, <2>1, BarredBegin, NoticeKept DEF LlmInvariant
<1>2. ASSUME NEW p \in Purposes, Llm!Retry(p)
      PROVE  LlmInvariant' /\ Llm!StayingAway
  <2>1. UNCHANGED <<v4, v5, v6, v7, v10>>
    BY <1>2 DEF Llm!Retry
  <2> QED
    BY <1>0, <1>2, <2>1, BarredRetry, NoticeKept DEF LlmInvariant
<1>3. ASSUME NEW p \in Purposes, Llm!TextArrives(p)
      PROVE  LlmInvariant' /\ Llm!StayingAway
  <2>1. UNCHANGED <<v4, v5, v6, v7, v10>>
    BY <1>3 DEF Llm!TextArrives
  <2> QED
    BY <1>0, <1>3, <2>1, BarredText, NoticeKept DEF LlmInvariant
<1>4. ASSUME NEW p \in Purposes, NEW a \in Llm!Answers \ {Llm!Plain("text")},
             Llm!FailureArrives(p, a)
      PROVE  LlmInvariant' /\ Llm!StayingAway
  <2>1. v4' \in {v4, v1} /\ UNCHANGED <<v5, v6, v7, v10>>
    BY <1>4 DEF Llm!FailureArrives
  <2> QED
    BY <1>0, <1>4, <2>1, BarredFailure, NoticeKept DEF LlmInvariant
<1>5. CASE Llm!Notify
  <2>1. UNCHANGED <<v1, v2, v3, v8>>
    BY <1>5 DEF Llm!Notify
  <2>2. BarredOK' /\ Llm!StayingAway
    BY <1>0, <2>1 DEF BarredOK, KeepsAway, Llm!StayingAway
  <2> QED
    BY <1>0, <1>5, <2>2, NoticeNotify DEF LlmInvariant
<1>6. CASE Llm!WriteNotice
  <2>1. UNCHANGED <<v1, v2, v3, v8>>
    BY <1>6 DEF Llm!WriteNotice
  <2>2. BarredOK' /\ Llm!StayingAway
    BY <1>0, <2>1 DEF BarredOK, KeepsAway, Llm!StayingAway
  <2> QED
    BY <1>0, <1>6, <2>2, NoticeWritten DEF LlmInvariant
<1>7. CASE Llm!Restart
  <2>1. /\ v2' = [p \in Purposes |-> [failures |-> 0, until |-> 0, forever |-> FALSE]]
        /\ v3' = [p \in Purposes |-> [phase |-> "none", attempt |-> 0, at |-> 0]]
        /\ v8' = [p \in Purposes |-> 0] /\ v1' = v1
    BY <1>7 DEF Llm!Restart, Llm!Closed, Llm!Resting
  <2>2. ASSUME NEW p \in Purposes
        PROVE  KeepsAway(p)' /\ v3'[p].phase # "sent"
    <3>1. /\ v2'[p] = [failures |-> 0, until |-> 0, forever |-> FALSE]
          /\ v3'[p] = [phase |-> "none", attempt |-> 0, at |-> 0] /\ v8'[p] = 0
      BY <2>1
    <3>2. Circuit(v2'[p])
      BY <3>1 DEF Circuit
    <3>3. Call(v3'[p])
      BY <3>1 DEF Call
    <3> QED
      BY <1>0, <2>1, <3>1, <3>2, <3>3 DEF KeepsAway
  <2>3. BarredOK' /\ Llm!StayingAway
    BY <1>0, <2>1, <2>2 DEF BarredOK, Llm!StayingAway
  <2> QED
    BY <1>0, <1>7, <2>3, NoticeRestart DEF LlmInvariant
<1>8. CASE Llm!Tick
  <2>1. v1' = v1 + 1 /\ UNCHANGED <<v2, v3, v4, v5, v6, v7, v8, v10>>
    BY <1>8 DEF Llm!Tick
  <2>2. ASSUME NEW p \in Purposes
        PROVE  KeepsAway(p)'
    BY <1>0, <2>1 DEF BarredOK, KeepsAway
  <2>3. BarredOK' /\ Llm!StayingAway
    BY <1>0, <2>1, <2>2 DEF BarredOK, Llm!StayingAway
  <2> QED
    BY <1>0, <2>1, <2>3, NoticeKept DEF LlmInvariant
<1>9. CASE UNCHANGED Llm!vars
  <2>1. UNCHANGED <<v1, v2, v3, v4, v5, v6, v7, v8, v10>>
    BY <1>9 DEF Llm!vars
  <2>2. BarredOK' /\ Llm!StayingAway
    BY <1>0, <2>1 DEF BarredOK, KeepsAway, Llm!StayingAway
  <2> QED
    BY <1>0, <2>1, <2>2, NoticeKept DEF LlmInvariant
<1> QED
  BY <1>1, <1>2, <1>3, <1>4, <1>5, <1>6, <1>7, <1>8, <1>9 DEF Llm!Next

-----------------------------------------------------------------------------
(* The sources: v1 is the clock, v2 the health of each source, v5 what was   *)
(* noted of it since its last good answer.  Below the threshold the record   *)
(* counts exactly those answers and rests nobody; from there on the answers  *)
(* give the reason, and the last of them bounds the rest.                    *)

NotedAnswers == [refused : BOOLEAN, at : Int]

Reason(s) == Len(s) >= SourceThreshold \/ \E i \in DOMAIN s : s[i].refused

Sound(h, s) ==
  /\ h = [failures |-> h.failures, until |-> h.until]
  /\ h.failures \in Nat /\ h.until \in Int
  /\ s \in Seq(NotedAnswers) /\ Len(s) <= SourceThreshold
  /\ h.failures < SourceThreshold => h.until = 0 /\ Len(s) = h.failures
  /\ h.failures >= SourceThreshold =>
       /\ s # <<>> /\ Reason(s)
       /\ h.until <= s[Len(s)].at + SourceCooldown

SourcesOK ==
  /\ v1 \in Nat \ {0}
  /\ DOMAIN v2 = Registry!Keys /\ DOMAIN v5 = Registry!Keys
  /\ \A k \in Registry!Keys : Sound(v2[k], v5[k])

Extended(s, entry) ==
  LET all == Append(s, entry)
  IN  SubSeq(all, IF Len(all) > SourceThreshold THEN 2 ELSE 1, Len(all))

LEMMA ExtendedProperties ==
  ASSUME NEW s \in Seq(NotedAnswers), Len(s) <= SourceThreshold, NEW x \in NotedAnswers
  PROVE  LET t == Extended(s, x) IN
         /\ t \in Seq(NotedAnswers) /\ Len(t) <= SourceThreshold /\ t # <<>>
         /\ t[Len(t)] = x
         /\ Len(s) < SourceThreshold => /\ Len(t) = Len(s) + 1
                                        /\ \A i \in 1..Len(s) : t[i] = s[i]
         /\ Len(s) = SourceThreshold => Len(t) = SourceThreshold
<1> DEFINE all == Append(s, x)
           m == IF Len(all) > SourceThreshold THEN 2 ELSE 1
           n == Len(s)
           t == Extended(s, x)
<1>1. SourceThreshold \in Nat \ {0} /\ n \in Nat
  BY ProvidersAssumption
<1>2. /\ all \in Seq(NotedAnswers) /\ Len(all) = n + 1
      /\ all[n + 1] = x /\ \A i \in 1..n : all[i] = s[i]
  OBVIOUS
<1>3. m = (IF n = SourceThreshold THEN 2 ELSE 1)
  BY <1>1, <1>2
<1>4. t = SubSeq(all, m, n + 1)
  BY <1>2 DEF Extended
<1> HIDE DEF all, m, n, t
<1>5. m \in 1..(n + 1)
  BY <1>1, <1>3
<1>6. \A i \in m..(n + 1) : i \in 1..Len(all)
  BY <1>1, <1>2, <1>5
<1>7. /\ t \in Seq(NotedAnswers) /\ Len(t) = n + 1 - m + 1
      /\ \A i \in 1..Len(t) : t[i] = all[m + i - 1]
  BY <1>1, <1>2, <1>4, <1>5, SubSeqProperties
<1>8. CASE n = SourceThreshold
  <2>1. m = 2 /\ Len(t) = n
    BY <1>1, <1>3, <1>7, <1>8
  <2>2. t[Len(t)] = all[n + 1]
    BY <1>1, <1>7, <1>8, <2>1
  <2>3. t # <<>>
    BY <1>1, <1>8, <2>1
  <2> QED
    BY <1>1, <1>2, <1>7, <1>8, <2>1, <2>2, <2>3 DEF t, n
<1>9. CASE n < SourceThreshold
  <2>1. m = 1 /\ Len(t) = n + 1
    BY <1>1, <1>3, <1>7, <1>9
  <2>2. t[Len(t)] = all[n + 1]
    BY <1>1, <1>7, <2>1
  <2>3. t # <<>>
    BY <1>1, <2>1
  <2>4. \A i \in 1..n : t[i] = s[i]
    BY <1>1, <1>2, <1>7, <2>1
  <2> QED
    BY <1>1, <1>2, <1>7, <1>9, <2>1, <2>2, <2>3, <2>4 DEF t, n
<1> QED
  BY <1>1, <1>8, <1>9 DEF n

(* A refusal or a failure at the moment now. *)
LEMMA SoundFailure ==
  ASSUME NEW h, NEW s, Sound(h, s), NEW now \in Nat, NEW refused \in BOOLEAN, NEW g,
         \/ /\ refused
            /\ g = [failures |-> SourceThreshold, until |-> now + SourceCooldown]
         \/ g = [failures |-> h.failures + 1,
                 until |-> IF h.failures + 1 >= SourceThreshold
                           THEN now + SourceCooldown ELSE h.until]
  PROVE  Sound(g, Extended(s, [refused |-> refused, at |-> now]))
<1> DEFINE x == [refused |-> refused, at |-> now]
           t == Extended(s, x)
<1>1. /\ SourceThreshold \in Nat \ {0} /\ SourceCooldown \in Nat
      /\ h.failures \in Nat /\ h.until \in Int
      /\ s \in Seq(NotedAnswers) /\ Len(s) <= SourceThreshold /\ Len(s) \in Nat
  BY ProvidersAssumption DEF Sound
<1>2. x \in NotedAnswers /\ x.refused = refused /\ x.at = now
  BY DEF NotedAnswers
<1> HIDE DEF x
<1>3. /\ t \in Seq(NotedAnswers) /\ Len(t) <= SourceThreshold /\ t # <<>>
      /\ t[Len(t)] = x
      /\ Len(s) < SourceThreshold => /\ Len(t) = Len(s) + 1
                                     /\ \A i \in 1..Len(s) : t[i] = s[i]
      /\ Len(s) = SourceThreshold => Len(t) = SourceThreshold
  BY <1>1, <1>2, ExtendedProperties
<1> HIDE DEF t
<1>4. Len(t) \in Nat \ {0} /\ DOMAIN t = 1..Len(t) /\ DOMAIN s = 1..Len(s)
  BY <1>1, <1>3
<1>5. refused \/ Reason(s) => Reason(t)
  <2>1. ASSUME refused PROVE Reason(t)
    <3>1. Len(t) \in DOMAIN t
      BY <1>4
    <3>2. t[Len(t)].refused
      BY <1>2, <1>3, <2>1, Zenon
    <3> QED
      BY <3>1, <3>2, Zenon DEF Reason
  <2>2. ASSUME Len(s) >= SourceThreshold PROVE Reason(t)
    <3>1. Len(t) >= SourceThreshold
      BY <1>1, <1>3, <2>2
    <3> QED
      BY <3>1, Zenon DEF Reason
  <2>3. ASSUME NEW i \in DOMAIN s, s[i].refused PROVE Reason(t)
    <3>1. CASE Len(s) >= SourceThreshold
      BY <2>2, <3>1
    <3>2. CASE Len(s) < SourceThreshold
      <4>1. i \in DOMAIN t /\ t[i] = s[i]
        <5>1. i \in 1..Len(s)
          BY <1>4
        <5>2. t[i] = s[i] /\ Len(t) = Len(s) + 1
          BY <1>3, <3>2, <5>1
        <5>3. i \in 1..Len(t)
          BY <1>1, <5>1, <5>2
        <5> QED
          BY <1>4, <5>2, <5>3
      <4> QED
        BY <2>3, <4>1, Zenon DEF Reason
    <3> QED
      BY <1>1, <3>1, <3>2
  <2> QED
    BY <2>1, <2>2, <2>3, Zenon DEF Reason
<1>6. t[Len(t)].at = now
  BY <1>2, <1>3
<1>7. CASE refused /\ g = [failures |-> SourceThreshold, until |-> now + SourceCooldown]
  <2>1. g = [failures |-> g.failures, until |-> g.until]
    BY <1>7
  <2>2. g.failures = SourceThreshold /\ g.until = now + SourceCooldown
    BY <1>7
  <2> QED
    <3>1. g.failures \in Nat /\ g.until \in Int /\ ~(g.failures < SourceThreshold)
      BY <1>1, <2>2
    <3>2. Reason(t)
      BY <1>5, <1>7
    <3>3. g.until <= t[Len(t)].at + SourceCooldown
      BY <1>1, <1>6, <2>2
    <3>4. Sound(g, t)
      BY <1>3, <2>1, <3>1, <3>2, <3>3 DEF Sound
    <3> QED
      BY <3>4 DEF t, x
<1>8. CASE g = [failures |-> h.failures + 1,
                until |-> IF h.failures + 1 >= SourceThreshold
                          THEN now + SourceCooldown ELSE h.until]
  <2> DEFINE u == IF h.failures + 1 >= SourceThreshold THEN now + SourceCooldown ELSE h.until
  <2>0. g = [failures |-> h.failures + 1, until |-> u]
    BY <1>8
  <2>1. /\ h.failures + 1 >= SourceThreshold => u = now + SourceCooldown
        /\ h.failures + 1 < SourceThreshold => u = h.until
        /\ u \in Int
    BY <1>1
  <2> HIDE DEF u
  <2>2. g = [failures |-> g.failures, until |-> g.until]
    BY <2>0
  <2>3. g.failures = h.failures + 1 /\ g.until = u
    BY <2>0
  <2>4. CASE h.failures >= SourceThreshold
    <3>1. Reason(s)
      BY <2>4 DEF Sound
    <3>2. u = now + SourceCooldown /\ g.failures >= SourceThreshold /\ g.failures \in Nat
      BY <1>1, <2>1, <2>3, <2>4
    <3> QED
      <4>1. g.until \in Int /\ ~(g.failures < SourceThreshold)
        BY <1>1, <2>1, <2>3, <3>2
      <4>2. Reason(t)
        BY <1>5, <3>1
      <4>3. g.until <= t[Len(t)].at + SourceCooldown
        BY <1>1, <1>6, <2>3, <3>2
      <4>4. Sound(g, t)
        BY <1>3, <2>2, <3>2, <4>1, <4>2, <4>3 DEF Sound
      <4> QED
        BY <4>4 DEF t, x
  <2>5. CASE h.failures < SourceThreshold
    <3>1. Len(s) = h.failures /\ h.until = 0
      BY <2>5 DEF Sound
    <3>2. Len(t) = h.failures + 1
      BY <1>3, <2>5, <3>1
    <3>3. h.failures + 1 >= SourceThreshold => Reason(t)
      BY <3>2 DEF Reason
    <3> QED
      <4>1. g.until \in Int /\ g.failures \in Nat
        BY <1>1, <2>1, <2>3
      <4>2. g.failures >= SourceThreshold => Reason(t)
        BY <2>3, <3>3
      <4>3. g.failures >= SourceThreshold => g.until <= t[Len(t)].at + SourceCooldown
        BY <1>1, <1>6, <2>1, <2>3
      <4>4. g.failures < SourceThreshold => g.until = 0 /\ Len(t) = g.failures
        BY <2>1, <2>3, <3>1, <3>2
      <4>5. Sound(g, t)
        BY <1>3, <2>2, <4>1, <4>2, <4>3, <4>4 DEF Sound
      <4> QED
        BY <4>5 DEF t, x
  <2> QED
    BY <1>1, <2>4, <2>5
<1> QED
  BY <1>7, <1>8

LEMMA SoundSuccess ==
  ASSUME NEW h, NEW s, Sound(h, s), NEW g, g = [h EXCEPT !.failures = 0, !.until = 0]
  PROVE  Sound(g, <<>>)
<1>1. h = [failures |-> h.failures, until |-> h.until]
  BY DEF Sound
<1>2. g = [failures |-> 0, until |-> 0]
  BY <1>1
<1>3. <<>> \in Seq(NotedAnswers) /\ Len(<<>>) = 0
  OBVIOUS
<1>4. g = [failures |-> g.failures, until |-> g.until] /\ g.failures = 0 /\ g.until = 0
  BY <1>2
<1>5. SourceThreshold \in Nat \ {0}
  BY ProvidersAssumption
<1> QED
  BY <1>3, <1>4, <1>5 DEF Sound

(* What one answer does to the record of its source. *)
LEMMA SoundAnswer ==
  ASSUME SourcesOK, NEW k \in Registry!Keys, NEW o, NEW refused \in BOOLEAN, NEW g,
         \/ /\ o = "ok" /\ g = [v2[k] EXCEPT !.failures = 0, !.until = 0]
         \/ /\ o # "ok" /\ refused
            /\ g = [failures |-> SourceThreshold, until |-> v1 + SourceCooldown]
         \/ /\ o # "ok"
            /\ g = [failures |-> v2[k].failures + 1,
                    until |-> IF v2[k].failures + 1 >= SourceThreshold
                              THEN v1 + SourceCooldown ELSE v2[k].until]
  PROVE  Sound(g, Registry!Longer(k, o, refused))
<1>1. Sound(v2[k], v5[k]) /\ v1 \in Nat
  BY DEF SourcesOK
<1>2. Registry!Longer(k, o, refused) =
        IF o = "ok" THEN <<>> ELSE Extended(v5[k], [refused |-> refused, at |-> v1])
  BY DEF Registry!Longer, Extended
<1>3. CASE o = "ok" /\ g = [v2[k] EXCEPT !.failures = 0, !.until = 0]
  <2>1. Sound(g, <<>>)
    BY <1>1, <1>3, SoundSuccess
  <2> QED
    BY <1>2, <1>3, <2>1
<1>4. CASE o # "ok"
  <2>1. \/ /\ refused
           /\ g = [failures |-> SourceThreshold, until |-> v1 + SourceCooldown]
        \/ g = [failures |-> v2[k].failures + 1,
                until |-> IF v2[k].failures + 1 >= SourceThreshold
                          THEN v1 + SourceCooldown ELSE v2[k].until]
    BY <1>4
  <2>2. Sound(g, Extended(v5[k], [refused |-> refused, at |-> v1]))
    BY <1>1, <2>1, SoundFailure
  <2> QED
    BY <1>2, <1>4, <2>2
<1> QED
  BY <1>3, <1>4

LEMMA SourcesInit ==
  ASSUME Registry!Init
  PROVE  SourcesOK
<1> SUFFICES ASSUME NEW k \in Registry!Keys PROVE Sound(v2[k], v5[k])
  BY DEF Registry!Init, SourcesOK
<1>1. v2[k] = [failures |-> 0, until |-> 0] /\ v5[k] = <<>>
  BY DEF Registry!Init, Registry!Well
<1>2. v2[k] = [failures |-> v2[k].failures, until |-> v2[k].until]
      /\ v2[k].failures = 0 /\ v2[k].until = 0
  BY <1>1
<1>3. <<>> \in Seq(NotedAnswers) /\ Len(<<>>) = 0
  OBVIOUS
<1>4. SourceThreshold \in Nat \ {0}
  BY ProvidersAssumption
<1> QED
  BY <1>1, <1>2, <1>3, <1>4 DEF Sound

LEMMA SourcesReport ==
  ASSUME SourcesOK, NEW k \in Registry!Keys, NEW o \in Registry!Outcomes,
         Registry!ReportAnswer(k, o)
  PROVE  SourcesOK'
<1> DEFINE g == Registry!NotedByReport(k, o)
           refused == Registry!Refuses(k, o)
           s == Registry!Longer(k, o, refused)
<1>1. /\ v2' = [v2 EXCEPT ![k] = g] /\ v5' = [v5 EXCEPT ![k] = s] /\ v1' = v1
  BY DEF Registry!ReportAnswer
<1>2. refused \in BOOLEAN /\ (refused => o # "ok")
  BY DEF Registry!Refuses
<1>3. \/ /\ o = "ok" /\ g = [v2[k] EXCEPT !.failures = 0, !.until = 0]
      \/ /\ o # "ok" /\ refused
         /\ g = [failures |-> SourceThreshold, until |-> v1 + SourceCooldown]
      \/ /\ o # "ok"
         /\ g = [failures |-> v2[k].failures + 1,
                 until |-> IF v2[k].failures + 1 >= SourceThreshold
                           THEN v1 + SourceCooldown ELSE v2[k].until]
  <2>1. CASE o = "ok"
    <3>1. g = Registry!RecordSuccess(v2[k])
      BY <1>2, <2>1, Zenon DEF Registry!NotedByReport
    <3> QED
      BY <2>1, <3>1 DEF Registry!RecordSuccess
  <2>2. CASE o # "ok" /\ refused
    <3>1. g = Registry!RecordRefusal
      BY <2>2, Zenon DEF Registry!NotedByReport
    <3> QED
      BY <2>2, <3>1 DEF Registry!RecordRefusal
  <2>3. CASE o # "ok" /\ ~refused
    <3>1. g = Registry!RecordFailure(v2[k])
      BY <2>3, Zenon DEF Registry!NotedByReport
    <3> QED
      BY <2>3, <3>1 DEF Registry!RecordFailure
  <2> QED
    BY <2>1, <2>2, <2>3
<1> HIDE DEF g, refused
<1>4. Sound(g, s)
  BY <1>2, <1>3, SoundAnswer
<1> HIDE DEF s
<1> SUFFICES ASSUME NEW q \in Registry!Keys PROVE Sound(v2'[q], v5'[q])
  BY <1>1 DEF SourcesOK
<1>5. Sound(v2[q], v5[q])
  BY DEF SourcesOK
<1>6. /\ q = k => v2'[q] = g /\ v5'[q] = s
      /\ q # k => v2'[q] = v2[q] /\ v5'[q] = v5[q]
  BY <1>1 DEF SourcesOK
<1> QED
  BY <1>4, <1>5, <1>6

LEMMA SourcesResearch ==
  ASSUME SourcesOK, Registry!ResearchNotes
  PROVE  SourcesOK'
<1> DEFINE Answer(k) == v4.answers[CHOOSE i \in DOMAIN v4.asked : v4.asked[i] = k]
           asked == Registry!ToSet(v4.asked)
<1>1. /\ v2' = [k \in Registry!Keys |->
                  IF k \in asked THEN Registry!NotedByResearch(k, Answer(k)) ELSE v2[k]]
      /\ v5' = [k \in Registry!Keys |->
                  IF k \in asked THEN Registry!Longer(k, Answer(k), FALSE) ELSE v5[k]]
      /\ v1' = v1
  BY DEF Registry!ResearchNotes
<1> HIDE DEF Answer, asked
<1> SUFFICES ASSUME NEW k \in Registry!Keys PROVE Sound(v2'[k], v5'[k])
  BY <1>1 DEF SourcesOK
<1>2. CASE k \notin asked
  <2>1. v2'[k] = v2[k] /\ v5'[k] = v5[k]
    BY <1>1, <1>2
  <2> QED
    BY <2>1 DEF SourcesOK
<1>3. CASE k \in asked
  <2> DEFINE o == Answer(k)
             g == Registry!NotedByResearch(k, o)
  <2>1. v2'[k] = g /\ v5'[k] = Registry!Longer(k, o, FALSE)
    BY <1>1, <1>3
  <2>2. \/ /\ o = "ok" /\ g = [v2[k] EXCEPT !.failures = 0, !.until = 0]
        \/ /\ o # "ok"
           /\ g = [failures |-> v2[k].failures + 1,
                   until |-> IF v2[k].failures + 1 >= SourceThreshold
                             THEN v1 + SourceCooldown ELSE v2[k].until]
    BY DEF Registry!NotedByResearch, Registry!RecordSuccess, Registry!RecordFailure
  <2> HIDE DEF o, g
  <2>3. FALSE \in BOOLEAN
    OBVIOUS
  <2> QED
    BY <2>1, <2>2, <2>3, SoundAnswer
<1> QED
  BY <1>2, <1>3

LEMMA SourcesGoOn ==
  ASSUME SourcesOK, [Registry!Next]_(Registry!vars)
  PROVE  SourcesOK'
<1>1. ASSUME NEW k \in Registry!Keys, NEW o \in Registry!Outcomes, Registry!ReportAnswer(k, o)
      PROVE  SourcesOK'
  BY <1>1, SourcesReport
<1>2. ASSUME NEW o, Registry!ResearchAnswer(o)
      PROVE  UNCHANGED <<v1, v2, v5>>
  BY <1>2 DEF Registry!ResearchAnswer
<1>3. Registry!StartReport => UNCHANGED <<v1, v2, v5>>
  BY DEF Registry!StartReport
<1>4. Registry!StartResearch => UNCHANGED <<v1, v2, v5>>
  BY DEF Registry!StartResearch
<1>5. CASE Registry!Tick
  <2>1. v1' = v1 + 1 /\ UNCHANGED <<v2, v5>>
    BY <1>5 DEF Registry!Tick
  <2> QED
    BY <2>1 DEF SourcesOK
<1>6. UNCHANGED Registry!vars => UNCHANGED <<v1, v2, v5>>
  BY DEF Registry!vars
<1>7. UNCHANGED <<v1, v2, v5>> => SourcesOK'
  BY DEF SourcesOK
<1> QED
  BY <1>1, <1>2, <1>3, <1>4, <1>5, <1>6, <1>7, SourcesResearch DEF Registry!Next

LEMMA SourcesTell ==
  ASSUME SourcesOK
  PROVE  Registry!OutForAReason
<1> SUFFICES ASSUME NEW k \in Registry!Keys, Registry!Cooling(k)
             PROVE  /\ \/ Len(v5[k]) >= SourceThreshold
                       \/ \E i \in DOMAIN v5[k] : v5[k][i].refused
                    /\ v2[k].until <= v5[k][Len(v5[k])].at + SourceCooldown
  BY DEF Registry!OutForAReason
<1>1. Sound(v2[k], v5[k]) /\ v1 \in Nat /\ v1 < v2[k].until
  BY DEF SourcesOK, Registry!Cooling
<1>2. SourceThreshold \in Nat /\ v2[k].failures \in Nat
  BY <1>1, ProvidersAssumption DEF Sound
<1>3. v2[k].failures >= SourceThreshold
  BY <1>1, <1>2 DEF Sound
<1> QED
  BY <1>1, <1>3 DEF Sound, Reason

-----------------------------------------------------------------------------
(* Briefings: v1 is the reservation, v2 the stages, v5 what the chat heard.  *)

(* What a run at a stage has told the chat so far. *)
RunOK(r, at, told) ==
  /\ told \in Seq({"busy", "begun", "lost", "briefing", "apology", "delayed"})
  /\ r \in Scheduled =>
       /\ at \notin {"greeting", "apology", "delayed"}
       /\ \A i \in DOMAIN told : told[i] \in {"briefing", "lost"}
  /\ r \in Requests => at # "calendar"
  /\ at = "idle" => told = <<>>
  /\ \A i, j \in DOMAIN told : told[i] = "briefing" /\ told[j] = "briefing" => i = j
  /\ at \notin {"ended", "apology", "delayed"} => \A i \in DOMAIN told : told[i] # "briefing"
  /\ at = "ended" /\ r \in Requests /\ told # <<>> => told[Len(told)] # "begun"

Active(at) == at \notin {"idle", "ended"}

TalkOK ==
  /\ v1 \in BOOLEAN
  /\ DOMAIN v2 = Talk!Runs /\ DOMAIN v5 = Talk!Runs
  /\ \A r \in Talk!Runs : RunOK(r, v2[r], v5[r])
  /\ v1 <=> \E r \in Requests : Active(v2[r])
  /\ \A r, s \in Requests : Active(v2[r]) /\ Active(v2[s]) => r = s

LEMMA TalkInit == Talk!Init => TalkOK
<1> SUFFICES ASSUME Talk!Init PROVE TalkOK
  OBVIOUS
<1>1. /\ v1 = FALSE
      /\ v2 = [r \in Talk!Runs |-> "idle"] /\ v5 = [r \in Talk!Runs |-> <<>>]
  BY DEF Talk!Init
<1>2. ASSUME NEW r \in Talk!Runs PROVE RunOK(r, v2[r], v5[r])
  BY <1>1 DEF RunOK
<1> QED
  BY <1>1, <1>2 DEF TalkOK, Active, Talk!Runs

(* One run goes on, may tell the chat something, and takes or gives back the *)
(* reservation when it is a request.                                         *)
LEMMA RunGoesOn ==
  ASSUME TalkOK, NEW r, NEW to,
         v2' = [v2 EXCEPT ![r] = to],
         v5' = v5 \/ \E what : v5' = [v5 EXCEPT ![r] = Append(@, what)],
         r \in Talk!Runs => RunOK(r, to, v5'[r]),
         \/ v1' = v1 /\ (r \in Requests => (Active(to) <=> Active(v2[r])))
         \/ r \in Requests /\ v1 = FALSE /\ v1' = TRUE /\ Active(to)
         \/ r \in Requests /\ Active(v2[r]) /\ ~Active(to) /\ v1' = FALSE
  PROVE  TalkOK'
<1>0. /\ v1 \in BOOLEAN /\ DOMAIN v2 = Talk!Runs /\ DOMAIN v5 = Talk!Runs
      /\ \A q \in Talk!Runs : RunOK(q, v2[q], v5[q])
      /\ v1 <=> \E q \in Requests : Active(v2[q])
      /\ \A q, s \in Requests : Active(v2[q]) /\ Active(v2[s]) => q = s
  BY DEF TalkOK
<1>1. DOMAIN v2' = Talk!Runs /\ DOMAIN v5' = Talk!Runs
  BY <1>0
<1>2. ASSUME NEW q \in Talk!Runs PROVE RunOK(q, v2'[q], v5'[q])
  <2>1. CASE q = r
    <3>1. v2'[q] = to
      BY <1>0, <2>1
    <3> QED
      BY <2>1, <3>1
  <2>2. CASE q # r
    <3>1. v2'[q] = v2[q] /\ v5'[q] = v5[q]
      BY <1>0, <2>2
    <3> QED
      BY <1>0, <3>1
  <2> QED
    BY <2>1, <2>2
<1>3. \A q \in Requests : q # r => v2'[q] = v2[q]
  BY <1>0
<1>4. r \in Requests => v2'[r] = to
  BY <1>0 DEF Talk!Runs
<1>5. v1' \in BOOLEAN
  BY <1>0
<1>6. v1' <=> \E q \in Requests : Active(v2'[q])
  <2>1. CASE v1' = v1 /\ (r \in Requests => (Active(to) <=> Active(v2[r])))
    <3>1. \A q \in Requests : Active(v2'[q]) <=> Active(v2[q])
      BY <1>3, <1>4, <2>1
    <3> QED
      BY <1>0, <2>1, <3>1
  <2>2. CASE r \in Requests /\ v1 = FALSE /\ v1' = TRUE /\ Active(to)
    BY <1>4, <2>2
  <2>3. CASE r \in Requests /\ Active(v2[r]) /\ ~Active(to) /\ v1' = FALSE
    BY <1>0, <1>3, <1>4, <2>3
  <2> QED
    BY <2>1, <2>2, <2>3
<1>7. \A q, s \in Requests : Active(v2'[q]) /\ Active(v2'[s]) => q = s
  <2>1. CASE v1' = v1 /\ (r \in Requests => (Active(to) <=> Active(v2[r])))
    <3>1. \A q \in Requests : Active(v2'[q]) <=> Active(v2[q])
      BY <1>3, <1>4, <2>1
    <3> QED
      BY <1>0, <3>1
  <2>2. CASE r \in Requests /\ v1 = FALSE /\ v1' = TRUE /\ Active(to)
    <3>1. \A q \in Requests : ~Active(v2[q])
      BY <1>0, <2>2
    <3> QED
      BY <1>3, <3>1
  <2>3. CASE r \in Requests /\ Active(v2[r]) /\ ~Active(to) /\ v1' = FALSE
    BY <1>0, <1>3, <1>4, <2>3
  <2> QED
    BY <2>1, <2>2, <2>3
<1> QED
  BY <1>1, <1>2, <1>5, <1>6, <1>7 DEF TalkOK

Silent(at) == at \notin {"ended", "apology", "delayed"}
Said == {"busy", "begun", "lost", "briefing", "apology", "delayed"}

(* What a run may hear next, and where it may go without hearing anything.   *)
LEMMA RunHears ==
  ASSUME NEW r, NEW at, NEW told, RunOK(r, at, told), NEW to, NEW what \in Said,
         r \in Scheduled => what \in {"lost", "briefing"} /\ to \notin {"greeting", "apology", "delayed"},
         r \in Requests => to # "calendar",
         what = "briefing" => Silent(at) /\ ~Silent(to),
         Silent(to) => Silent(at), to # "idle",
         to = "ended" => what # "begun"
  PROVE  RunOK(r, to, Append(told, what))
<1>1. told \in Seq(Said)
  BY DEF RunOK, Said
<1>2. /\ Append(told, what) \in Seq(Said) /\ Len(Append(told, what)) = Len(told) + 1 /\ Len(told) \in Nat
      /\ DOMAIN told = 1..Len(told) /\ DOMAIN Append(told, what) = 1..(Len(told) + 1)
      /\ \A i \in 1..Len(told) : Append(told, what)[i] = told[i]
      /\ Append(told, what)[Len(told) + 1] = what
  BY <1>1
<1>3. r \in Scheduled => \A i \in DOMAIN Append(told, what) : Append(told, what)[i] \in {"briefing", "lost"}
  BY <1>2 DEF RunOK
<1>4. \A i, j \in DOMAIN Append(told, what) :
        Append(told, what)[i] = "briefing" /\ Append(told, what)[j] = "briefing" => i = j
  <2>1. CASE what = "briefing"
    <3>1. \A i \in DOMAIN told : told[i] # "briefing"
      BY <2>1 DEF RunOK, Silent
    <3> QED
      BY <1>2, <3>1
  <2>2. CASE what # "briefing"
    BY <1>2, <2>2 DEF RunOK
  <2> QED
    BY <2>1, <2>2
<1>5. Silent(to) => \A i \in DOMAIN Append(told, what) : Append(told, what)[i] # "briefing"
  <2> SUFFICES ASSUME Silent(to) PROVE \A i \in DOMAIN Append(told, what) : Append(told, what)[i] # "briefing"
    OBVIOUS
  <2>1. what # "briefing" /\ \A i \in DOMAIN told : told[i] # "briefing"
    BY DEF RunOK, Silent
  <2> QED
    BY <1>2, <2>1
<1>6. to = "ended" => Append(told, what)[Len(Append(told, what))] # "begun"
  BY <1>2
<1>7. /\ r \in Scheduled => to \notin {"greeting", "apology", "delayed"}
      /\ r \in Requests => to # "calendar"
  OBVIOUS
<1> HIDE DEF Said
<1> DEFINE now == Append(told, what)
<1>8. /\ now \in Seq(Said)
      /\ r \in Scheduled => \A i \in DOMAIN now : now[i] \in {"briefing", "lost"}
      /\ \A i, j \in DOMAIN now : now[i] = "briefing" /\ now[j] = "briefing" => i = j
      /\ Silent(to) => \A i \in DOMAIN now : now[i] # "briefing"
      /\ to = "ended" => now[Len(now)] # "begun"
  BY <1>2, <1>3, <1>4, <1>5, <1>6
<1> HIDE DEF now
<1>9. RunOK(r, to, now)
  BY <1>7, <1>8 DEF RunOK, Silent, Said
<1> QED
  BY <1>9 DEF now

LEMMA RunMoves ==
  ASSUME NEW r, NEW at, NEW told, RunOK(r, at, told), NEW to,
         r \in Scheduled => to \notin {"greeting", "apology", "delayed"},
         r \in Requests => to # "calendar",
         Silent(to) => Silent(at), to # "idle",
         to = "ended" /\ r \in Requests => told = <<>>
  PROVE  RunOK(r, to, told)
BY DEF RunOK, Silent

LEMMA TalkGoesOn ==
  ASSUME TalkOK, [Talk!Next]_(Talk!vars)
  PROVE  TalkOK'
<1>0. /\ v1 \in BOOLEAN /\ DOMAIN v2 = Talk!Runs /\ DOMAIN v5 = Talk!Runs
      /\ \A r \in Talk!Runs : RunOK(r, v2[r], v5[r])
      /\ v1 <=> \E r \in Requests : Active(v2[r])
  BY DEF TalkOK
<1>s. \A r \in Talk!Runs : r \in Requests \/ r \in Scheduled
  BY DEF Talk!Runs
<1>t. \A r \in Requests : r \in Talk!Runs /\ r \notin Scheduled
  BY ReadersAssumption DEF Talk!Runs
<1>u. \A r \in Talk!Runs : \A what : (v5' = [v5 EXCEPT ![r] = Append(@, what)]) => v5'[r] = Append(v5[r], what)
  BY <1>0
<1>1. ASSUME NEW r \in Talk!Runs, Talk!Ask(r) PROVE TalkOK'
  <2>1. r \in Requests /\ v2[r] = "idle" /\ ~Active(v2[r])
    BY <1>1 DEF Talk!Ask, Active
  <2>2. CASE v1 /\ Talk!GoesOn(r, "ended") /\ Talk!Hears(r, "busy") /\ v1' = v1
    <3>1. v2' = [v2 EXCEPT ![r] = "ended"] /\ v5' = [v5 EXCEPT ![r] = Append(@, "busy")]
      BY <2>2 DEF Talk!GoesOn, Talk!Hears
    <3>2. RunOK(r, "ended", Append(v5[r], "busy"))
      BY <1>0, <1>t, <2>1, RunHears DEF Said, Silent
    <3>3. RunOK(r, "ended", v5'[r])
      BY <1>u, <3>1, <3>2
    <3> QED
      BY <2>1, <2>2, <3>1, <3>3, RunGoesOn DEF Active
  <2>3. CASE v1 = FALSE /\ v1' = TRUE /\ Talk!GoesOn(r, "greeting") /\ v5' = v5
    <3>1. v2' = [v2 EXCEPT ![r] = "greeting"] /\ Active("greeting")
      BY <2>3 DEF Talk!GoesOn, Active
    <3>2. RunOK(r, "greeting", v5[r])
      BY <1>0, <1>t, <2>1, RunMoves DEF Silent
    <3> QED
      BY <2>1, <2>3, <3>1, <3>2, RunGoesOn
  <2>4. CASE Talk!GoesOn(r, "ended") /\ UNCHANGED <<v1, v5>>
    <3>1. v2' = [v2 EXCEPT ![r] = "ended"] /\ ~Active("ended")
      BY <2>4 DEF Talk!GoesOn, Active
    <3>2. RunOK(r, "ended", v5[r])
      <4>1. v5[r] = <<>>
        BY <1>0, <2>1 DEF RunOK
      <4> QED
        BY <1>0, <1>t, <2>1, <4>1, RunMoves DEF Silent
    <3> QED
      BY <2>1, <2>4, <3>1, <3>2, RunGoesOn
  <2> QED
    BY <1>0, <1>1, <2>2, <2>3, <2>4 DEF Talk!Ask
<1>2. ASSUME NEW r \in Talk!Runs, Talk!Greet(r) PROVE TalkOK'
  <2>1. v2[r] = "greeting" /\ v1' = v1 /\ r \in Requests /\ Active("greeting") /\ Active("quotes") /\ Active("apology")
    BY <1>0, <1>2, <1>s DEF Talk!Greet, RunOK, Active
  <2>2. CASE Talk!Hears(r, "begun") /\ Talk!Job(r, "quotes")
    <3>1. v2' = [v2 EXCEPT ![r] = "quotes"] /\ v5' = [v5 EXCEPT ![r] = Append(@, "begun")]
      BY <2>2 DEF Talk!GoesOn, Talk!Hears, Talk!Job
    <3>2. RunOK(r, "quotes", Append(v5[r], "begun"))
      BY <1>0, <1>t, <2>1, RunHears DEF Said, Silent
    <3>3. RunOK(r, "quotes", v5'[r])
      BY <1>u, <3>1, <3>2
    <3> QED
      BY <2>1, <3>1, <3>3, RunGoesOn
  <2>3. CASE Talk!Hears(r, "lost") /\ Talk!GoesOn(r, "apology")
    <3>1. v2' = [v2 EXCEPT ![r] = "apology"] /\ v5' = [v5 EXCEPT ![r] = Append(@, "lost")]
      BY <2>3 DEF Talk!GoesOn, Talk!Hears
    <3>2. RunOK(r, "apology", Append(v5[r], "lost"))
      BY <1>0, <1>t, <2>1, RunHears DEF Said, Silent
    <3>3. RunOK(r, "apology", v5'[r])
      BY <1>u, <3>1, <3>2
    <3> QED
      BY <2>1, <3>1, <3>3, RunGoesOn
  <2> QED
    BY <1>2, <2>2, <2>3 DEF Talk!Greet
<1>3. ASSUME NEW r \in Talk!Runs, NEW to \in {"calendar", "quotes", "news", "sentiment", "comment", "sending"},
             NEW at \in {"idle", "calendar", "quotes", "news", "sentiment", "comment"}, v2[r] = at,
             r \in Requests => at # "idle" /\ to # "calendar",
             v2' = [v2 EXCEPT ![r] = to], UNCHANGED <<v1, v5>>
      PROVE  TalkOK'
  <2>1. RunOK(r, to, v5[r])
    BY <1>0, <1>3, RunMoves DEF Silent
  <2>2. Active(to) /\ (r \in Requests => Active(v2[r]))
    BY <1>3 DEF Active
  <2> QED
    BY <1>3, <2>1, <2>2, RunGoesOn
<1>4. ASSUME NEW r \in Talk!Runs, Talk!Schedule(r) PROVE TalkOK'
  <2>1. v2[r] = "idle" /\ v2' = [v2 EXCEPT ![r] = "calendar"] /\ UNCHANGED <<v1, v5>> /\ r \notin Requests
    BY <1>4, ReadersAssumption DEF Talk!Schedule, Talk!Job, Talk!GoesOn
  <2> QED
    BY <1>3, <2>1
<1>5. ASSUME NEW r \in Talk!Runs, Talk!GetNews(r) PROVE TalkOK'
  <2>1. v2[r] = "news" /\ v2' = [v2 EXCEPT ![r] = "sentiment"] /\ UNCHANGED <<v1, v5>>
    BY <1>5 DEF Talk!GetNews, Talk!GoesOn
  <2> QED
    BY <1>3, <2>1
<1>6. ASSUME NEW r \in Talk!Runs, Talk!ReadLog(r) PROVE TalkOK'
  <2>1. v2[r] = "sentiment" /\ v2' = [v2 EXCEPT ![r] = "comment"] /\ UNCHANGED <<v1, v5>>
    BY <1>6 DEF Talk!ReadLog, Talk!Job, Talk!GoesOn
  <2> QED
    BY <1>3, <2>1
<1>7. ASSUME NEW r \in Talk!Runs, Talk!Deliver(r) PROVE TalkOK'
  <2>1. v2[r] = "sending" /\ Active(v2[r]) /\ ~Active("ended") /\ Active("apology")
    BY <1>7 DEF Talk!Deliver, Active
  <2>2. ASSUME NEW what \in {"lost", "briefing"}, NEW to \in {"ended", "apology"},
               r \in Scheduled => to = "ended"
        PROVE  RunOK(r, to, Append(v5[r], what))
    BY <1>0, <2>1, <2>2, RunHears DEF Said, Silent
  <2>3. CASE Talk!Hears(r, "briefing") /\ Talk!GoesOn(r, "ended") /\ v1' = (v1 /\ r \notin Requests)
    <3>1. v2' = [v2 EXCEPT ![r] = "ended"] /\ v5' = [v5 EXCEPT ![r] = Append(@, "briefing")]
      BY <2>3 DEF Talk!GoesOn, Talk!Hears
    <3>2. RunOK(r, "ended", v5'[r])
      BY <1>u, <2>2, <3>1
    <3>3. (r \in Requests => v1' = FALSE) /\ (r \notin Requests => v1' = v1)
      BY <1>0, <2>3
    <3> QED
      BY <2>1, <3>1, <3>2, <3>3, RunGoesOn
  <2>4. CASE (Talk!Hears(r, "lost") \/ Talk!Hears(r, "briefing")) /\ Talk!GoesOn(r, Talk!Failed(r)) /\ v1' = v1
    <3>1. PICK what \in {"lost", "briefing"} : v5' = [v5 EXCEPT ![r] = Append(@, what)]
      BY <2>4 DEF Talk!Hears
    <3>2. PICK to \in {"ended", "apology"} : /\ v2' = [v2 EXCEPT ![r] = to]
                                             /\ r \in Requests => to = "apology"
                                             /\ r \notin Requests => to = "ended"
      BY <2>4 DEF Talk!GoesOn, Talk!Failed
    <3>3. RunOK(r, to, v5'[r])
      <4>1. r \in Scheduled => to = "ended"
        BY <1>t, <3>2
      <4> QED
        BY <1>u, <2>2, <3>1, <4>1
    <3> QED
      BY <2>1, <2>4, <3>1, <3>2, <3>3, RunGoesOn
  <2> QED
    BY <1>7, <2>3, <2>4 DEF Talk!Deliver
<1>8. ASSUME NEW r \in Talk!Runs, Talk!TimeOut(r) PROVE TalkOK'
  <2>1. /\ v2[r] \in {"quotes", "news", "sentiment", "comment", "sending"} /\ r \in Requests /\ v1' = v1
        /\ v2' = [v2 EXCEPT ![r] = "delayed"]
        /\ v5' = v5 \/ v5' = [v5 EXCEPT ![r] = Append(@, "briefing")]
    BY <1>8 DEF Talk!TimeOut, Talk!GoesOn, Talk!Hears, Talk!Awaited
  <2>2. Active(v2[r]) /\ Active("delayed")
    BY <2>1 DEF Active
  <2>3. CASE v5' = v5
    <3>1. RunOK(r, "delayed", v5[r])
      BY <1>0, <1>t, <2>1, RunMoves DEF Silent
    <3> QED
      BY <2>1, <2>2, <2>3, <3>1, RunGoesOn
  <2>4. CASE v5' = [v5 EXCEPT ![r] = Append(@, "briefing")]
    <3>1. RunOK(r, "delayed", Append(v5[r], "briefing"))
      BY <1>0, <1>t, <2>1, RunHears DEF Said, Silent
    <3>2. RunOK(r, "delayed", v5'[r])
      BY <1>u, <2>4, <3>1
    <3> QED
      BY <2>1, <2>2, <2>4, <3>2, RunGoesOn
  <2> QED
    BY <2>1, <2>3, <2>4
<1>9. ASSUME NEW r \in Talk!Runs, Talk!Explain(r) PROVE TalkOK'
  <2>1. /\ v2[r] \in {"apology", "delayed"} /\ v2' = [v2 EXCEPT ![r] = "ended"] /\ v1' = FALSE
        /\ v5' = [v5 EXCEPT ![r] = Append(@, "lost")] \/ v5' = [v5 EXCEPT ![r] = Append(@, v2[r])]
    BY <1>9 DEF Talk!Explain, Talk!GoesOn, Talk!Hears
  <2>2. r \in Requests /\ r \notin Scheduled /\ Active(v2[r]) /\ ~Active("ended")
    BY <1>0, <1>s, <2>1 DEF RunOK, Active
  <2>3. PICK what \in {"lost", "apology", "delayed"} : v5' = [v5 EXCEPT ![r] = Append(@, what)]
    BY <2>1
  <2>4. RunOK(r, "ended", Append(v5[r], what))
    BY <1>0, <2>2, RunHears DEF Said, Silent
  <2>5. RunOK(r, "ended", v5'[r])
    BY <1>u, <2>3, <2>4
  <2> QED
    BY <2>1, <2>2, <2>3, <2>5, RunGoesOn
<1>10. CASE UNCHANGED <<v1, v2, v5>>
  BY <1>10 DEF TalkOK
<1>11. CASE Talk!Take
  BY <1>10, <1>11 DEF Talk!Take
<1>12. ASSUME NEW job \in v4, Talk!Done(job) PROVE TalkOK'
  <2> DEFINE r == job[1]
  <2>1. /\ UNCHANGED <<v1, v5>>
        /\ \/ v2' = v2
           \/ /\ v2[r] = "calendar"
              /\ v2' = [v2 EXCEPT ![r] = "quotes"] \/ v2' = [v2 EXCEPT ![r] = "ended"]
           \/ /\ v2[r] = "quotes"
              /\ v2' = [v2 EXCEPT ![r] = "news"] \/ v2' = [v2 EXCEPT ![r] = Talk!Failed(r)]
           \/ v2[r] = "comment" /\ v2' = [v2 EXCEPT ![r] = "sending"]
    BY <1>12 DEF Talk!Done, Talk!GoesOn, Talk!Job
  <2>2. CASE v2' = v2
    BY <1>10, <2>1, <2>2
  <2>3. ASSUME NEW q, NEW to, v2' = [v2 EXCEPT ![q] = to], q \notin Talk!Runs
        PROVE  DOMAIN v2' = Talk!Runs /\ \A s \in Talk!Runs : v2'[s] = v2[s]
    BY <1>0, <2>3
  <2> HIDE DEF r
  <2>4. CASE r \notin Talk!Runs
    <3>1. DOMAIN v2' = Talk!Runs /\ \A s \in Talk!Runs : v2'[s] = v2[s]
      BY <1>0, <2>1, <2>3, <2>4
    <3>2. \A s \in Requests : v2'[s] = v2[s]
      BY <1>t, <3>1
    <3> QED
      BY <2>1, <3>1, <3>2 DEF TalkOK
  <2>5. CASE r \in Talk!Runs
    <3>1. CASE /\ v2[r] = "calendar"
               /\ v2' = [v2 EXCEPT ![r] = "quotes"] \/ v2' = [v2 EXCEPT ![r] = "ended"]
      <4>1. r \notin Requests
        BY <1>0, <2>5, <3>1 DEF RunOK
      <4>2. CASE v2' = [v2 EXCEPT ![r] = "quotes"]
        BY <1>3, <2>1, <2>5, <3>1, <4>1, <4>2
      <4>3. CASE v2' = [v2 EXCEPT ![r] = "ended"]
        <5>1. RunOK(r, "ended", v5[r])
          BY <1>0, <2>5, <3>1, <4>1, RunMoves DEF Silent
        <5> QED
          BY <2>1, <4>1, <4>3, <5>1, RunGoesOn
      <4> QED
        BY <3>1, <4>2, <4>3
    <3>2. CASE /\ v2[r] = "quotes"
               /\ v2' = [v2 EXCEPT ![r] = "news"] \/ v2' = [v2 EXCEPT ![r] = Talk!Failed(r)]
      <4>1. CASE v2' = [v2 EXCEPT ![r] = "news"]
        BY <1>3, <2>1, <2>5, <3>2, <4>1
      <4>2. CASE v2' = [v2 EXCEPT ![r] = Talk!Failed(r)]
        <5>1. PICK to \in {"ended", "apology"} : /\ v2' = [v2 EXCEPT ![r] = to]
                                                 /\ r \in Requests => to = "apology"
                                                 /\ r \notin Requests => to = "ended"
          BY <4>2 DEF Talk!Failed
        <5>2. RunOK(r, to, v5[r])
          BY <1>0, <1>t, <2>5, <3>2, <5>1, RunMoves DEF Silent
        <5>3. Active(v2[r]) /\ (r \in Requests => Active(to))
          BY <3>2, <5>1 DEF Active
        <5> QED
          BY <2>1, <5>1, <5>2, <5>3, RunGoesOn
      <4> QED
        BY <3>2, <4>1, <4>2
    <3>3. CASE v2[r] = "comment" /\ v2' = [v2 EXCEPT ![r] = "sending"]
      BY <1>3, <2>1, <2>5, <3>3
    <3> QED
      BY <2>1, <2>2, <3>1, <3>2, <3>3
  <2> QED
    BY <2>4, <2>5
<1>13. CASE UNCHANGED Talk!vars
  BY <1>10, <1>13 DEF Talk!vars
<1> QED
  BY <1>1, <1>2, <1>4, <1>5, <1>6, <1>7, <1>8, <1>9, <1>11, <1>12, <1>13 DEF Talk!Next

(* Of a set without two different elements there is at most one.             *)
LEMMA AtMostOne ==
  ASSUME NEW S, \A i, j \in S : i = j
  PROVE  Cardinality(S) <= 1
<1>1. CASE S = {}
  BY <1>1, FS_EmptySet
<1>2. CASE S # {}
  <2>1. PICK x \in S : TRUE
    BY <1>2
  <2>2. S = {x}
    BY <2>1
  <2>3. Cardinality({x}) = 1
    BY FS_Singleton
  <2> QED
    BY <2>2, <2>3
<1> QED
  BY <1>1, <1>2

LEMMA TalkTells ==
  ASSUME TalkOK
  PROVE  Talk!ReservedWhileOneIsMade /\ Talk!HeardOnce
<1>1. Talk!ReservedWhileOneIsMade
  BY DEF TalkOK, Active, Talk!ReservedWhileOneIsMade
<1>2. ASSUME NEW r \in Talk!Runs
      PROVE  /\ Cardinality({i \in DOMAIN v5[r] : v5[r][i] = "briefing"}) <= 1
             /\ r \in Scheduled => Talk!ToSet(v5[r]) \subseteq {"briefing", "lost"}
             /\ v2[r] = "ended" /\ r \in Requests /\ v5[r] # <<>> => v5[r][Len(v5[r])] # "begun"
  <2>1. RunOK(r, v2[r], v5[r])
    BY DEF TalkOK
  <2>2. Cardinality({i \in DOMAIN v5[r] : v5[r][i] = "briefing"}) <= 1
    <3>1. \A i, j \in {n \in DOMAIN v5[r] : v5[r][n] = "briefing"} : i = j
      BY <2>1 DEF RunOK
    <3> QED
      BY <3>1, AtMostOne
  <2>3. r \in Scheduled => Talk!ToSet(v5[r]) \subseteq {"briefing", "lost"}
    BY <2>1 DEF RunOK, Talk!ToSet
  <2> QED
    BY <2>1, <2>2, <2>3 DEF RunOK
<1>3. Talk!HeardOnce
  <2>1. \A S : Talk!Cardinality(S) = Cardinality(S)
    BY DEF Talk!Cardinality, Cardinality
  <2> QED
    BY <1>2, <2>1 DEF Talk!HeardOnce
<1> QED
  BY <1>1, <1>3

-----------------------------------------------------------------------------
(* The rows of a page that are kept, one after the other.                    *)

Kept(rows, moment, before, n) ==
  IF /\ Page!InHours(rows[n], moment)
     /\ \A i \in before : Page!Keys(rows[i]) \cap Page!Keys(rows[n]) = {}
  THEN before \cup {n}
  ELSE before

KeptUpTo(rows, moment, f, n) ==
  f = [m \in 0..n |-> IF m = 0 THEN {} ELSE Kept(rows, moment, f[m - 1], m)]

LEMMA OnceIsKept ==
  ASSUME NEW rows, NEW moment
  PROVE  Page!Once(rows, moment) = (CHOOSE f : KeptUpTo(rows, moment, f, Len(rows)))[Len(rows)]
BY DEF Page!Once, KeptUpTo, Kept

Value(rows, moment, f, m) == f[m] = IF m = 0 THEN {} ELSE Kept(rows, moment, f[m - 1], m)

LEMMA KeptValues ==
  ASSUME NEW rows, NEW moment, NEW n \in Nat, NEW f, KeptUpTo(rows, moment, f, n)
  PROVE  \A m \in 0..n : Value(rows, moment, f, m)
<1> DEFINE g == [k \in 0..n |-> IF k = 0 THEN {} ELSE Kept(rows, moment, f[k - 1], k)]
<1>1. f = g
  BY DEF KeptUpTo
<1>2. \A m \in 0..n : g[m] = IF m = 0 THEN {} ELSE Kept(rows, moment, f[m - 1], m)
  OBVIOUS
<1> HIDE DEF g
<1> QED
  BY <1>1, <1>2 DEF Value

LEMMA KeptExists ==
  ASSUME NEW rows, NEW moment, NEW n \in Nat
  PROVE  \E f : KeptUpTo(rows, moment, f, n)
<1> DEFINE bad == {m \in Nat : ~\E f : KeptUpTo(rows, moment, f, m)}
<1> SUFFICES ASSUME bad # {} PROVE FALSE
  OBVIOUS
<1>1. PICK m \in bad : \A k \in bad : m <= k
  BY SmallestNumber
<1>2. m # 0
  <2> DEFINE g == [k \in 0..0 |-> {}]
  <2>1. KeptUpTo(rows, moment, g, 0)
    BY DEF KeptUpTo
  <2> QED
    BY <2>1
<1>3. m - 1 \in Nat /\ m - 1 \notin bad /\ m \in Nat
  BY <1>1, <1>2
<1>4. PICK f : KeptUpTo(rows, moment, f, m - 1)
  BY <1>3
<1> DEFINE last == Kept(rows, moment, f[m - 1], m)
           g == [k \in 0..m |-> IF k = m THEN last ELSE f[k]]
<1> HIDE DEF last
<1>5. ASSUME NEW k \in 0..m PROVE g[k] = IF k = 0 THEN {} ELSE Kept(rows, moment, g[k - 1], k)
  <2>1. CASE k = m
    <3>1. g[m] = last /\ g[m - 1] = f[m - 1]
      BY <1>2, <1>3
    <3> QED
      BY <1>2, <2>1, <3>1 DEF last
  <2>2. CASE k # m
    <3>1. k \in 0..(m - 1) /\ g[k] = f[k] /\ (k # 0 => g[k - 1] = f[k - 1])
      BY <1>3, <2>2
    <3>2. \A j \in 0..(m - 1) : Value(rows, moment, f, j)
      <4>1. PICK last1 \in Nat : last1 = m - 1
        BY <1>3
      <4>2. \A j \in 0..last1 : Value(rows, moment, f, j)
        BY <1>4, <4>1, KeptValues, Zenon
      <4> QED
        BY <4>1, <4>2
    <3> QED
      BY <3>1, <3>2 DEF Value
  <2> QED
    BY <2>1, <2>2
<1>6. KeptUpTo(rows, moment, g, m)
  <2>1. g = [k \in 0..m |-> g[k]]
    OBVIOUS
  <2>2. [k \in 0..m |-> g[k]] = [k \in 0..m |-> IF k = 0 THEN {} ELSE Kept(rows, moment, g[k - 1], k)]
    BY <1>5
  <2> HIDE DEF g
  <2> QED
    BY <2>1, <2>2 DEF KeptUpTo
<1> QED
  BY <1>6

(* What is kept of the first rows has no two of one address or title, and a  *)
(* row of the hours asked for is there, or a twin of it.                     *)
Sorted(rows, moment, kept, n) ==
  /\ kept \subseteq 1..n
  /\ \A i, j \in kept : i # j => Page!Keys(rows[i]) \cap Page!Keys(rows[j]) = {}
  /\ \A k \in 1..n : Page!InHours(rows[k], moment) =>
       \E i \in kept : i = k \/ Page!Keys(rows[i]) \cap Page!Keys(rows[k]) # {}

LEMMA SortedStep ==
  ASSUME NEW rows, NEW moment, NEW kept, NEW n \in Nat, n # 0, Sorted(rows, moment, kept, n - 1)
  PROVE  Sorted(rows, moment, Kept(rows, moment, kept, n), n)
<1>0. /\ kept \subseteq 1..(n - 1)
      /\ \A i, j \in kept : i # j => Page!Keys(rows[i]) \cap Page!Keys(rows[j]) = {}
      /\ \A k \in 1..(n - 1) : Page!InHours(rows[k], moment) =>
           \E i \in kept : i = k \/ Page!Keys(rows[i]) \cap Page!Keys(rows[k]) # {}
  BY DEF Sorted
<1>1. CASE /\ Page!InHours(rows[n], moment)
           /\ \A i \in kept : Page!Keys(rows[i]) \cap Page!Keys(rows[n]) = {}
  <2>1. Kept(rows, moment, kept, n) = kept \cup {n}
    BY <1>1 DEF Kept
  <2>2. kept \cup {n} \subseteq 1..n
    BY <1>0
  <2>3. \A i, j \in kept \cup {n} : i # j => Page!Keys(rows[i]) \cap Page!Keys(rows[j]) = {}
    BY <1>0, <1>1
  <2>4. \A k \in 1..n : k = n \/ k \in 1..(n - 1)
    OBVIOUS
  <2>5. \A k \in 1..n : Page!InHours(rows[k], moment) =>
           \E i \in kept \cup {n} : i = k \/ Page!Keys(rows[i]) \cap Page!Keys(rows[k]) # {}
    BY <1>0, <2>4
  <2> QED
    BY <2>1, <2>2, <2>3, <2>5 DEF Sorted
<1>2. CASE ~ /\ Page!InHours(rows[n], moment)
             /\ \A i \in kept : Page!Keys(rows[i]) \cap Page!Keys(rows[n]) = {}
  <2>1. Kept(rows, moment, kept, n) = kept
    BY <1>2, Zenon DEF Kept
  <2>2. kept \subseteq 1..n
    BY <1>0
  <2>4. \A k \in 1..n : k = n \/ k \in 1..(n - 1)
    OBVIOUS
  <2>5. \A k \in 1..n : Page!InHours(rows[k], moment) =>
           \E i \in kept : i = k \/ Page!Keys(rows[i]) \cap Page!Keys(rows[k]) # {}
    BY <1>0, <1>2, <2>4
  <2> QED
    BY <1>0, <2>1, <2>2, <2>5 DEF Sorted
<1> QED
  BY <1>1, <1>2

LEMMA OnceSorts ==
  ASSUME NEW rows, NEW moment, Len(rows) \in Nat
  PROVE  Sorted(rows, moment, Page!Once(rows, moment), Len(rows))
<1>1. PICK n \in Nat : n = Len(rows)
  OBVIOUS
<1> DEFINE f == CHOOSE g : KeptUpTo(rows, moment, g, n)
<1>2. KeptUpTo(rows, moment, f, n)
  BY KeptExists
<1>3. Page!Once(rows, moment) = f[n]
  BY <1>1, OnceIsKept
<1> HIDE DEF f
<1> DEFINE bad == {m \in Nat : m <= n /\ ~Sorted(rows, moment, f[m], m)}
<1>4. ASSUME bad # {} PROVE FALSE
  <2>1. PICK m \in bad : \A k \in bad : m <= k
    BY <1>4, SmallestNumber
  <2>2. m \in Nat /\ m \in 0..n /\ ~Sorted(rows, moment, f[m], m)
    BY <2>1
  <2>3. CASE m = 0
    <3>1. f[m] = {}
      BY <1>2, <2>2, <2>3, KeptValues DEF Value
    <3>2. Sorted(rows, moment, {}, 0)
      BY DEF Sorted
    <3> QED
      BY <2>2, <2>3, <3>1, <3>2
  <2>4. CASE m # 0
    <3>1. m - 1 \in Nat /\ m - 1 <= n /\ m - 1 \notin bad
      BY <2>1, <2>2, <2>4
    <3>2. Sorted(rows, moment, f[m - 1], m - 1)
      BY <3>1
    <3>3. f[m] = Kept(rows, moment, f[m - 1], m)
      <4>1. \A j \in 0..n : Value(rows, moment, f, j)
        BY <1>2, KeptValues, Zenon
      <4> QED
        BY <2>2, <2>4, <4>1 DEF Value
    <3>4. Sorted(rows, moment, Kept(rows, moment, f[m - 1], m), m)
      BY <2>2, <2>4, <3>2, SortedStep
    <3> QED
      BY <2>2, <3>3, <3>4
  <2> QED
    BY <2>3, <2>4
<1>5. Sorted(rows, moment, f[n], n)
  <2>1. n \notin bad
    BY <1>4
  <2>2. n <= n
    OBVIOUS
  <2> QED
    BY <2>1, <2>2
<1> QED
  BY <1>1, <1>3, <1>5
-----------------------------------------------------------------------------
(* What a page may leave out of the articles due.                            *)

Crowd(in, a) == {b \in in : Published[b] >= Published[a]} \ {a}
Covers(ids, due, in, now) ==
  \A a \in due : \/ a \in ids
                 \/ Published[a] < now - WatchHours
                 \/ Page!Cardinality(Crowd(in, a)) >= PackItems

LEMMA Finite ==
  ASSUME NEW S, S \subseteq Articles
  PROVE  IsFiniteSet(S) /\ Page!Cardinality(S) = Cardinality(S) /\ Cardinality(S) \in Nat
<1>1. IsFiniteSet(S)
  BY ReadersAssumption, FS_Subset
<1>2. Page!Cardinality(S) = Cardinality(S)
  BY DEF Page!Cardinality, Cardinality
<1> QED
  BY <1>1, <1>2, FS_CardinalityType

LEMMA LargerCrowd ==
  ASSUME NEW S, NEW T, T \subseteq Articles, S \subseteq T
  PROVE  Page!Cardinality(S) <= Page!Cardinality(T)
<1>1. Cardinality(S) <= Cardinality(T)
  BY Finite, FS_Subset
<1> QED
  BY <1>1, Finite

LEMMA CrowdNumber ==
  ASSUME NEW in, in \subseteq Articles, NEW a
  PROVE  Crowd(in, a) \subseteq Articles /\ Page!Cardinality(Crowd(in, a)) \in Nat
<1>1. Crowd(in, a) \subseteq Articles
  BY DEF Crowd
<1> QED
  BY <1>1, Finite

(* Time passes and the pack is made anew: who was covered stays covered.     *)
LEMMA CoversLater ==
  ASSUME NEW ids, NEW due, due \subseteq Articles,
         NEW in, in \subseteq Articles, NEW now \in Int,
         NEW in2, in2 \subseteq Articles, NEW now2 \in Int, now <= now2,
         \A b \in in : Published[b] >= now2 - WatchHours => b \in in2,
         Covers(ids, due, in, now)
  PROVE  Covers(ids, due, in2, now2)
<1> SUFFICES ASSUME NEW a \in due, a \notin ids, ~(Published[a] < now2 - WatchHours)
             PROVE  Page!Cardinality(Crowd(in2, a)) >= PackItems
  BY DEF Covers
<1>1. Published[a] \in Int /\ \A b \in in : Published[b] \in Int
  BY ReadersAssumption
<1>2. Page!Cardinality(Crowd(in, a)) >= PackItems
  BY <1>1, ReadersAssumption DEF Covers
<1>3. Crowd(in, a) \subseteq Crowd(in2, a)
  BY <1>1, ReadersAssumption DEF Crowd
<1>4. Page!Cardinality(Crowd(in, a)) <= Page!Cardinality(Crowd(in2, a))
  BY <1>3, CrowdNumber, LargerCrowd
<1>5. /\ Page!Cardinality(Crowd(in, a)) \in Nat
      /\ Page!Cardinality(Crowd(in2, a)) \in Nat
  BY CrowdNumber
<1> QED
  BY <1>2, <1>4, <1>5, ReadersAssumption

(* Who is due of what the pack was made of is covered by what covers that.   *)
LEMMA CoversDue ==
  ASSUME NEW ids, NEW due, NEW in, NEW now, Covers(ids, in, in, now),
         \A a \in due : a \in in \/ Published[a] < now - WatchHours
  PROVE  Covers(ids, due, in, now)
BY DEF Covers
-----------------------------------------------------------------------------
(* The page: v1 is the hour, v2 the queue, v3 the files, v4 the feed's       *)
(* cache, v5 the request and v6 what the last pack was to be made of.        *)

DueOK(due) ==
  \A a \in due : Published[a] # Page!Unknown /\ (a \in v6 \/ Published[a] < v1 - WatchHours)

PageTypes ==
  /\ v1 \in Int /\ v2 \subseteq Articles /\ v6 \subseteq Articles
  /\ v3 \in [Page!Names -> [version : Nat, ids : SUBSET Articles]]
  /\ v4 \in [Page!Names -> [signature : Int, ids : SUBSET Articles]]
  /\ v5 \in [at : {"none", "stat", "text", "done"}, name : Page!Names, seen : Int,
             moment : Int, due : SUBSET Articles, got : [Page!Names -> SUBSET Articles]]

PackOK ==
  /\ \A a \in v2 \cup v6 : Published[a] <= v1 + 1
  /\ \A a \in v6 : Published[a] # Page!Unknown
  /\ v3["pack"].ids \subseteq v6
  /\ Covers(v3["pack"].ids, v6, v6, v1)

CacheOK ==
  \A n \in Page!Names :
    /\ v4[n].signature <= v3[n].version
    /\ v4[n].signature = v3[n].version => v4[n].ids = v3[n].ids

RequestOK ==
  /\ v5.moment <= v1
  /\ DueOK(v5.due)
  /\ v5.at = "text" => v5.seen <= v3[v5.name].version
  /\ v5.at = "text" /\ v5.name = "pack" /\ v4["pack"].signature = v5.seen
       => Covers(v4["pack"].ids, v5.due, v6, v1)
  /\ v5.at = "done" => Covers(v5.got["pack"], v5.due, v6, v1)

PageOK == PageTypes /\ PackOK /\ CacheOK /\ RequestOK

LEMMA PageInit == Page!Init => PageOK
<1> SUFFICES ASSUME Page!Init PROVE PageOK
  OBVIOUS
<1>1. /\ v1 = 1 /\ v2 = {} /\ v6 = {}
      /\ v3 = [n \in Page!Names |-> [version |-> 0, ids |-> {}]]
      /\ v4 = [n \in Page!Names |-> [signature |-> -1, ids |-> {}]]
      /\ v5 = [at |-> "none", name |-> "news", seen |-> -1, moment |-> 0, due |-> {},
               got |-> [n \in Page!Names |-> {}]]
  BY DEF Page!Init, Page!Idle
<1>2. PageTypes
  BY <1>1 DEF PageTypes, Page!Names
<1>3. PackOK
  BY <1>1 DEF PackOK, Covers, Page!Names
<1>4. CacheOK
  BY <1>1 DEF CacheOK, Page!Names
<1>5. RequestOK
  BY <1>1 DEF RequestOK, DueOK, Covers, Page!Names
<1> QED
  BY <1>2, <1>3, <1>4, <1>5 DEF PageOK

(* An article joins the queue, or an hour passes.                            *)
LEMMA PageEnqueue ==
  ASSUME PageOK, NEW a \in Articles, Page!Enqueue(a)
  PROVE  PageOK'
<1>1. /\ v2' = v2 \cup {a} /\ Published[a] <= v1 + 1
      /\ v1' = v1 /\ v3' = v3 /\ v4' = v4 /\ v5' = v5 /\ v6' = v6
  BY DEF Page!Enqueue
<1>2. PageTypes'
  BY <1>1 DEF PageOK, PageTypes
<1>3. PackOK'
  BY <1>1 DEF PageOK, PackOK, Covers
<1>4. CacheOK'
  BY <1>1 DEF PageOK, CacheOK
<1>5. RequestOK'
  BY <1>1 DEF PageOK, RequestOK, DueOK, Covers
<1> QED
  BY <1>2, <1>3, <1>4, <1>5 DEF PageOK

LEMMA PageHour ==
  ASSUME PageOK, Page!HourPasses
  PROVE  PageOK'
<1>1. /\ v1' = v1 + 1
      /\ v2' = v2 /\ v3' = v3 /\ v4' = v4 /\ v5' = v5 /\ v6' = v6
  BY DEF Page!HourPasses
<1>t. /\ PageTypes /\ v1 \in Int /\ v1' \in Int /\ v1 <= v1'
      /\ \A b \in Articles : Published[b] \in Int
      /\ v6 \subseteq Articles /\ v5.due \subseteq Articles /\ v2 \subseteq Articles
      /\ WatchHours \in Nat /\ v5.moment \in Int
  BY <1>1, ReadersAssumption DEF PageOK, PageTypes
<1>c. ASSUME NEW ids, NEW due, due \subseteq Articles, Covers(ids, due, v6, v1)
      PROVE  Covers(ids, due, v6, v1')
  BY <1>t, <1>c, CoversLater
<1>2. PageTypes'
  BY <1>1, <1>t DEF PageTypes
<1>3. PackOK'
  <2>1. \A a \in v2 \cup v6 : Published[a] <= v1' + 1
    BY <1>1, <1>t DEF PageOK, PackOK
  <2>2. Covers(v3["pack"].ids, v6, v6, v1')
    BY <1>c, <1>t DEF PageOK, PackOK
  <2> QED
    BY <1>1, <2>1, <2>2 DEF PageOK, PackOK
<1>4. CacheOK'
  BY <1>1 DEF PageOK, CacheOK
<1>5. RequestOK'
  <2>1. \A a \in v5.due : Published[a] # Page!Unknown /\ (a \in v6 \/ Published[a] < v1' - WatchHours)
    BY <1>1, <1>t DEF PageOK, RequestOK, DueOK
  <2>2. v5.moment <= v1'
    BY <1>1, <1>t DEF PageOK, RequestOK
  <2>3. v5.at = "text" /\ v5.name = "pack" /\ v4["pack"].signature = v5.seen
          => Covers(v4["pack"].ids, v5.due, v6, v1')
    BY <1>c, <1>t DEF PageOK, RequestOK
  <2>4. v5.at = "done" => Covers(v5.got["pack"], v5.due, v6, v1')
    BY <1>c, <1>t DEF PageOK, RequestOK
  <2> QED
    BY <1>1, <2>1, <2>2, <2>3, <2>4 DEF PageOK, RequestOK, DueOK
<1> QED
  BY <1>2, <1>3, <1>4, <1>5 DEF PageOK
(* A report takes articles off the queue; news.json may be another one.      *)
LEMMA PageReport ==
  ASSUME PageOK, NEW ids, ids \subseteq v2, NEW taken, Page!Report(ids, taken)
  PROVE  PageOK'
<1>1. /\ v2' = v2 \ taken /\ v1' = v1 /\ v4' = v4 /\ v5' = v5 /\ v6' = v6
      /\ \/ v3' = Page!Written("news", Page!Merged(v3["news"].ids, ids))
         \/ v3' = v3
  BY DEF Page!Report
<1>2. PICK new \in SUBSET Articles : new = Page!Merged(v3["news"].ids, ids)
  BY DEF Page!Merged, PageOK, PageTypes, Page!Names
<1>3. \/ v3' = v3
      \/ v3' = [v3 EXCEPT !["news"] = [version |-> @.version + 1, ids |-> new]]
  BY <1>1, <1>2 DEF Page!Written
<1>4. v3 \in [Page!Names -> [version : Nat, ids : SUBSET Articles]]
  BY DEF PageOK, PageTypes
<1>5. /\ v3' \in [Page!Names -> [version : Nat, ids : SUBSET Articles]]
      /\ v3'["pack"] = v3["pack"]
      /\ v3'["news"].version >= v3["news"].version
      /\ v3'["news"] = v3["news"] \/ v3'["news"].version = v3["news"].version + 1
  BY <1>3, <1>4 DEF Page!Names
<1>6. PageTypes'
  BY <1>1, <1>5 DEF PageOK, PageTypes
<1>7. PackOK'
  BY <1>1, <1>5 DEF PageOK, PackOK
<1>8. \A n \in Page!Names : v3'[n] = v3[n] \/ v3'[n].version = v3[n].version + 1
  BY <1>5 DEF Page!Names
<1>9. \A n \in Page!Names : v3[n].version \in Nat /\ v4[n].signature \in Int
  BY DEF PageOK, PageTypes
<1>10. CacheOK'
  BY <1>1, <1>8, <1>9 DEF PageOK, CacheOK
<1>11. v5.at = "text" => v5.seen <= v3'[v5.name].version
  BY <1>8, <1>9 DEF PageOK, RequestOK, PageTypes
<1>12. RequestOK'
  BY <1>1, <1>11 DEF PageOK, RequestOK, DueOK
<1> QED
  BY <1>6, <1>7, <1>10, <1>12 DEF PageOK

(* What the pack is made of covers everything that was to be in it.          *)
LEMMA RolledCovers ==
  ASSUME PageOK, NEW new, new \in Page!Rolled(v3["pack"].ids, v2),
         v6' = {a \in v6 \cup Page!Packable(v2) : Page!Fits(a)}
  PROVE  new \subseteq v6' /\ Covers(new, v6', v6', v1)
<1> DEFINE ids == v3["pack"].ids
           fit == {a \in ids \cup Page!Packable(v2) : Page!Fits(a)}
           size == IF Page!Cardinality(fit) < PackItems THEN Page!Cardinality(fit) ELSE PackItems
<1>1. /\ new \subseteq fit /\ Page!Cardinality(new) = size
      /\ \A a \in new, b \in fit \ new : Published[a] >= Published[b]
  BY DEF Page!Rolled
<1>2. /\ ids \subseteq v6 /\ v6 \subseteq Articles /\ v2 \subseteq Articles /\ v1 \in Int
      /\ \A b \in Articles : Published[b] \in Int
      /\ \A a \in v6 : Published[a] <= v1 + 1
      /\ Covers(ids, v6, v6, v1)
  BY ReadersAssumption DEF PageOK, PageTypes, PackOK
<1>3. Page!Packable(v2) \subseteq v2 /\ (\A a : Page!Fits(a) <=> Published[a] >= v1 - WatchHours /\ Published[a] <= v1 + 1)
  BY DEF Page!Packable, Page!Fits
<1> HIDE DEF size
<1>4. fit \subseteq v6' /\ fit \subseteq Articles /\ v6' \subseteq Articles
  BY <1>2, <1>3
<1>5. new \subseteq v6'
  BY <1>1, <1>4
<1>6. /\ Page!Cardinality(new) \in Nat /\ Page!Cardinality(fit) \in Nat
      /\ IsFiniteSet(fit) /\ Page!Cardinality(new) = Cardinality(new)
      /\ Page!Cardinality(fit) = Cardinality(fit)
  BY <1>1, <1>4, Finite
<1>7. new # fit => Page!Cardinality(new) >= PackItems
  <2>1. Cardinality(new) = Cardinality(fit) => new = fit
    BY <1>1, <1>6, FS_Subset
  <2> QED
    BY <1>1, <1>6, <2>1, ReadersAssumption DEF size
<1>8. ASSUME NEW a \in v6', a \notin new, a \in fit
      PROVE  Page!Cardinality(Crowd(v6', a)) >= PackItems
  <2>1. new \subseteq Crowd(v6', a)
    BY <1>1, <1>5, <1>8 DEF Crowd
  <2>2. Page!Cardinality(new) <= Page!Cardinality(Crowd(v6', a))
    BY <1>4, <2>1, CrowdNumber, LargerCrowd
  <2>3. Page!Cardinality(Crowd(v6', a)) \in Nat
    BY <1>4, CrowdNumber
  <2> QED
    BY <1>6, <1>7, <1>8, <2>2, <2>3, ReadersAssumption
<1>9. ASSUME NEW a \in v6', a \notin fit
      PROVE  Page!Cardinality(Crowd(v6', a)) >= PackItems
  <2>1. a \in v6 /\ a \notin ids /\ Published[a] >= v1 - WatchHours /\ Published[a] \in Int
    BY <1>2, <1>3, <1>9
  <2>2. Page!Cardinality(Crowd(v6, a)) >= PackItems
    BY <1>2, <2>1, ReadersAssumption DEF Covers
  <2>3. Crowd(v6, a) \subseteq Crowd(v6', a)
    BY <1>2, <1>3, <2>1, ReadersAssumption DEF Crowd
  <2>4. Page!Cardinality(Crowd(v6, a)) <= Page!Cardinality(Crowd(v6', a))
    BY <1>4, <2>3, CrowdNumber, LargerCrowd
  <2>5. /\ Page!Cardinality(Crowd(v6, a)) \in Nat
        /\ Page!Cardinality(Crowd(v6', a)) \in Nat
    BY <1>2, <1>4, CrowdNumber
  <2> QED
    BY <2>2, <2>4, <2>5, ReadersAssumption
<1> HIDE DEF fit
<1>10. Covers(new, v6', v6', v1)
  BY <1>8, <1>9 DEF Covers
<1> QED
  BY <1>5, <1>10

LEMMA PageWritePack ==
  ASSUME PageOK, Page!WritePack
  PROVE  PageOK'
<1>1. PICK new \in Page!Rolled(v3["pack"].ids, v2) : v3' = Page!Written("pack", new)
  BY DEF Page!WritePack
<1>2. /\ v6' = {a \in v6 \cup Page!Packable(v2) : Page!Fits(a)}
      /\ v1' = v1 /\ v2' = v2 /\ v4' = v4 /\ v5' = v5
  BY DEF Page!WritePack
<1>3. new \subseteq v6' /\ Covers(new, v6', v6', v1)
  BY <1>1, <1>2, RolledCovers
<1>t. /\ v1 \in Int /\ v6 \subseteq Articles /\ v2 \subseteq Articles /\ v5.due \subseteq Articles
      /\ \A b \in Articles : Published[b] \in Int
      /\ \A a \in v2 \cup v6 : Published[a] <= v1 + 1
      /\ \A a \in v6 : Published[a] # Page!Unknown
      /\ WatchHours \in Nat
  BY ReadersAssumption DEF PageOK, PageTypes, PackOK
<1>4. /\ v6' \subseteq Articles
      /\ \A a \in v2 \cup v6' : Published[a] <= v1 + 1
      /\ \A a \in v6' : Published[a] # Page!Unknown
      /\ \A b \in v6 : Published[b] >= v1 - WatchHours => b \in v6'
  BY <1>2, <1>t DEF Page!Packable, Page!Fits
<1>c. ASSUME NEW ids, NEW due, due \subseteq Articles, Covers(ids, due, v6, v1)
      PROVE  Covers(ids, due, v6', v1)
  BY <1>t, <1>4, <1>c, CoversLater
<1>5. v3' = [v3 EXCEPT !["pack"] = [version |-> @.version + 1, ids |-> new]]
  BY <1>1 DEF Page!Written
<1>6. v3 \in [Page!Names -> [version : Nat, ids : SUBSET Articles]] /\ new \in SUBSET Articles
  BY <1>3, <1>4 DEF PageOK, PageTypes
<1>7. /\ v3' \in [Page!Names -> [version : Nat, ids : SUBSET Articles]]
      /\ v3'["pack"].ids = new
      /\ \A n \in Page!Names : v3'[n] = v3[n] \/ v3'[n].version = v3[n].version + 1
  BY <1>5, <1>6 DEF Page!Names
<1>8. PageTypes'
  BY <1>2, <1>4, <1>7 DEF PageOK, PageTypes
<1>9. PackOK'
  BY <1>2, <1>3, <1>4, <1>7 DEF PackOK
<1>10. \A n \in Page!Names : v3[n].version \in Nat /\ v4[n].signature \in Int
  BY DEF PageOK, PageTypes
<1>11. CacheOK'
  BY <1>2, <1>7, <1>10 DEF PageOK, CacheOK
<1>12. v5.at = "text" => v5.seen <= v3'[v5.name].version
  BY <1>7, <1>10 DEF PageOK, RequestOK, PageTypes
<1>13. DueOK(v5.due)'
  BY <1>2, <1>t, <1>4 DEF PageOK, RequestOK, DueOK
<1>14. v5.at = "text" /\ v5.name = "pack" /\ v4["pack"].signature = v5.seen
          => Covers(v4["pack"].ids, v5.due, v6', v1)
  BY <1>c, <1>t DEF PageOK, RequestOK
<1>15. v5.at = "done" => Covers(v5.got["pack"], v5.due, v6', v1)
  BY <1>c, <1>t DEF PageOK, RequestOK
<1>16. RequestOK'
  <2>1. v5.moment <= v1
    BY DEF PageOK, RequestOK
  <2> QED
    BY <1>2, <1>12, <1>13, <1>14, <1>15, <2>1 DEF RequestOK, DueOK
<1> QED
  BY <1>8, <1>9, <1>11, <1>16 DEF PageOK
(* A reader's request begins with what was packed.                           *)
LEMMA PageBegin ==
  ASSUME PageOK, Page!Begin
  PROVE  PageOK'
<1>1. /\ v5' = [at |-> "stat", name |-> "news", seen |-> -1, moment |-> v1, due |-> v6,
                got |-> [n \in Page!Names |-> {}]]
      /\ v1' = v1 /\ v2' = v2 /\ v3' = v3 /\ v4' = v4 /\ v6' = v6
  BY DEF Page!Begin, Page!Idle
<1>2. v1 \in Int /\ v6 \subseteq Articles /\ \A a \in v6 : Published[a] # Page!Unknown
  BY DEF PageOK, PageTypes, PackOK
<1>3. PageTypes'
  BY <1>1, <1>2 DEF PageOK, PageTypes, Page!Names
<1>4. PackOK' /\ CacheOK'
  BY <1>1 DEF PageOK, PackOK, CacheOK, Covers
<1>5. RequestOK'
  BY <1>1, <1>2 DEF RequestOK, DueOK
<1> QED
  BY <1>3, <1>4, <1>5 DEF PageOK

(* It looks at a file's signature: what the feed holds under it is the file. *)
LEMMA PageStat ==
  ASSUME PageOK, Page!Stat
  PROVE  PageOK'
<1>1. /\ v5' = [v5 EXCEPT !.at = "text", !.seen = v3[v5.name].version]
      /\ v1' = v1 /\ v2' = v2 /\ v3' = v3 /\ v4' = v4 /\ v6' = v6
  BY DEF Page!Stat
<1>2. /\ PageTypes /\ v5.name \in Page!Names /\ v3[v5.name].version \in Nat
      /\ v5.due \subseteq Articles
  BY DEF PageOK, PageTypes
<1>3. /\ v5'.at = "text" /\ v5'.name = v5.name /\ v5'.seen = v3[v5.name].version
      /\ v5'.moment = v5.moment /\ v5'.due = v5.due /\ v5'.got = v5.got
      /\ v5' \in [at : {"none", "stat", "text", "done"}, name : Page!Names, seen : Int,
                  moment : Int, due : SUBSET Articles, got : [Page!Names -> SUBSET Articles]]
  <2>1. v5 \in [at : {"none", "stat", "text", "done"}, name : Page!Names, seen : Int,
                moment : Int, due : SUBSET Articles, got : [Page!Names -> SUBSET Articles]]
    BY <1>2 DEF PageTypes
  <2>2. PICK version \in Nat : version = v3[v5.name].version
    BY <1>2
  <2>3. v5' = [v5 EXCEPT !.at = "text", !.seen = version]
    BY <1>1, <2>2
  <2>4. /\ v5'.at = "text" /\ v5'.name = v5.name /\ v5'.seen = version
        /\ v5'.moment = v5.moment /\ v5'.due = v5.due /\ v5'.got = v5.got
    BY <2>1, <2>3
  <2>5. v5' \in [at : {"none", "stat", "text", "done"}, name : Page!Names, seen : Int,
                 moment : Int, due : SUBSET Articles, got : [Page!Names -> SUBSET Articles]]
    <3>1. v5' = [at |-> "text", name |-> v5.name, seen |-> version, moment |-> v5.moment,
                 due |-> v5.due, got |-> v5.got]
      BY <2>1, <2>3
    <3>2. /\ v5.name \in Page!Names /\ v5.moment \in Int /\ v5.due \in SUBSET Articles
          /\ v5.got \in [Page!Names -> SUBSET Articles]
      BY <2>1
    <3> QED
      BY <3>1, <3>2
  <2> QED
    BY <2>2, <2>4, <2>5
<1>4. PageTypes'
  BY <1>1, <1>2, <1>3 DEF PageTypes
<1>5. PackOK' /\ CacheOK'
  BY <1>1 DEF PageOK, PackOK, CacheOK, Covers
<1>6. \A a \in v5.due : a \in v6 \/ Published[a] < v1 - WatchHours
  BY DEF PageOK, RequestOK, DueOK
<1>7. Covers(v3["pack"].ids, v5.due, v6, v1)
  BY <1>6, CoversDue DEF PageOK, PackOK
<1>8. v5.name = "pack" /\ v4["pack"].signature = v3["pack"].version
        => v4["pack"].ids = v3["pack"].ids
  BY DEF PageOK, CacheOK, Page!Names
<1>9. RequestOK'
  <2>1. v5.moment <= v1 /\ DueOK(v5.due)
    BY DEF PageOK, RequestOK
  <2>2. DueOK(v5.due)'
    BY <1>1, <1>3, <2>1 DEF DueOK
  <2>3. v3[v5.name].version <= v3[v5.name].version
    BY <1>2
  <2> QED
    BY <1>1, <1>3, <1>7, <1>8, <2>1, <2>2, <2>3 DEF RequestOK, DueOK
<1> QED
  BY <1>4, <1>5, <1>9 DEF PageOK

(* It reads the text, unless the feed holds it under this signature.         *)
LEMMA PageReadText ==
  ASSUME PageOK, Page!ReadText
  PROVE  PageOK'
<1> DEFINE n == v5.name
           fresh == [signature |-> v5.seen, ids |-> v3[n].ids]
<1>1. /\ v5.at = "text"
      /\ v4' = [v4 EXCEPT ![n] = IF v4[n].signature = v5.seen THEN v4[n] ELSE fresh]
      /\ v5' = Page!GotText(v4'[n].ids)
      /\ v1' = v1 /\ v2' = v2 /\ v3' = v3 /\ v6' = v6
  BY DEF Page!ReadText, Page!Signature
<1>2. /\ PageTypes /\ n \in Page!Names /\ v3[n].version \in Nat /\ v3[n].ids \subseteq Articles
      /\ v4 \in [Page!Names -> [signature : Int, ids : SUBSET Articles]]
      /\ v5.seen \in Int /\ v5.seen <= v3[n].version
  BY <1>1 DEF PageOK, PageTypes, RequestOK
<1>3. /\ v4' \in [Page!Names -> [signature : Int, ids : SUBSET Articles]]
      /\ \A m \in Page!Names : v4'[m] = v4[m] \/ (m = n /\ v4'[m] = fresh)
      /\ v4[n].signature # v5.seen => v4'[n] = fresh
      /\ v4[n].signature = v5.seen => v4'[n] = v4[n]
  BY <1>1, <1>2
<1>4. CacheOK'
  BY <1>1, <1>2, <1>3 DEF PageOK, CacheOK
<1>5. PackOK'
  BY <1>1 DEF PageOK, PackOK, Covers
<1>6. PICK got : got = v4'[n].ids
  OBVIOUS
<1>7. got \in SUBSET Articles
  BY <1>2, <1>3, <1>6
<1>8. \/ n = "news" /\ v5' = [v5 EXCEPT !.at = "stat", !.name = "pack", !.got["news"] = got]
      \/ n = "pack" /\ v5' = [v5 EXCEPT !.at = "done", !.got["pack"] = got]
  BY <1>1, <1>2, <1>6 DEF Page!GotText, Page!Names
<1>9. v5 \in [at : {"none", "stat", "text", "done"}, name : Page!Names, seen : Int,
              moment : Int, due : SUBSET Articles, got : [Page!Names -> SUBSET Articles]]
  BY <1>2 DEF PageTypes
<1>10. /\ v5' \in [at : {"none", "stat", "text", "done"}, name : Page!Names, seen : Int,
                   moment : Int, due : SUBSET Articles, got : [Page!Names -> SUBSET Articles]]
       /\ v5'.moment = v5.moment /\ v5'.due = v5.due
       /\ v5'.at \in {"stat", "done"}
       /\ v5'.at = "done" => n = "pack" /\ v5'.got["pack"] = got
  <2>1. CASE n = "news" /\ v5' = [v5 EXCEPT !.at = "stat", !.name = "pack", !.got["news"] = got]
    BY <1>7, <1>9, <2>1 DEF Page!Names
  <2>2. CASE n = "pack" /\ v5' = [v5 EXCEPT !.at = "done", !.got["pack"] = got]
    BY <1>7, <1>9, <2>2 DEF Page!Names
  <2> QED
    BY <1>8, <2>1, <2>2
<1>11. PageTypes'
  BY <1>1, <1>2, <1>3, <1>10 DEF PageTypes
<1>12. n = "pack" => Covers(got, v5.due, v6, v1)
  <2>1. CASE v4[n].signature = v5.seen
    BY <1>1, <1>3, <1>6, <2>1 DEF PageOK, RequestOK
  <2>2. CASE v4[n].signature # v5.seen
    <3>1. \A a \in v5.due : a \in v6 \/ Published[a] < v1 - WatchHours
      BY DEF PageOK, RequestOK, DueOK
    <3>2. Covers(v3["pack"].ids, v5.due, v6, v1)
      BY <3>1, CoversDue DEF PageOK, PackOK
    <3> QED
      BY <1>3, <1>6, <2>2, <3>2
  <2> QED
    BY <2>1, <2>2
<1>13. RequestOK'
  <2>1. v5.moment <= v1 /\ DueOK(v5.due)
    BY DEF PageOK, RequestOK
  <2> QED
    BY <1>1, <1>10, <1>12, <2>1 DEF RequestOK, DueOK
<1> QED
  BY <1>4, <1>5, <1>11, <1>13 DEF PageOK

LEMMA PageGoesOn == PageOK /\ [Page!Next]_(Page!vars) => PageOK'
<1> SUFFICES ASSUME PageOK, [Page!Next]_(Page!vars) PROVE PageOK'
  OBVIOUS
<1>1. CASE UNCHANGED Page!vars
  BY <1>1 DEF PageOK, PageTypes, PackOK, CacheOK, RequestOK, DueOK, Covers, Page!vars
<1>2. ASSUME NEW a \in Articles, Page!Enqueue(a) PROVE PageOK'
  BY <1>2, PageEnqueue
<1>3. ASSUME NEW ids \in SUBSET v2, Page!Report(ids, ids) \/ Page!Report(ids, v2) PROVE PageOK'
  <2>1. ids \subseteq v2
    OBVIOUS
  <2> QED
    BY <1>3, <2>1, PageReport
<1> QED
  BY <1>1, <1>2, <1>3, PageWritePack, PageBegin, PageStat, PageReadText, PageHour DEF Page!Next

(* What a finished request read, shown each once, misses nothing.            *)
LEMMA ListedRows ==
  ASSUME NEW ids, ids \subseteq Articles, NEW rows \in Page!Listed(ids)
  PROVE  rows \in Seq(Articles) /\ \A a \in ids : \E i \in 1..Len(rows) : rows[i] = a
<1>1. rows \in [1..Page!Cardinality(ids) -> ids] /\ Page!ToSet(rows) = ids
  BY DEF Page!Listed
<1>2. Page!Cardinality(ids) \in Nat
  BY Finite
<1>3. PICK n \in Nat : n = Page!Cardinality(ids)
  BY <1>2
<1>4. rows \in [1..n -> Articles]
  BY <1>1, <1>3
<1>5. rows \in Seq(Articles) /\ Len(rows) = n /\ DOMAIN rows = 1..Len(rows)
  BY <1>4
<1>6. Page!ToSet(rows) = {rows[i] : i \in DOMAIN rows}
  BY DEF Page!ToSet
<1> QED
  BY <1>1, <1>5, <1>6

LEMMA PageShowsEachOnce == PageOK => Page!PageHasEachOnce
<1> SUFFICES ASSUME PageOK, v5.at = "done" PROVE Page!PageHasEachOnce
  BY DEF Page!PageHasEachOnce
<1>1. /\ v5.got["news"] \subseteq Articles /\ v5.got["pack"] \subseteq Articles
      /\ v5.due \subseteq Articles /\ v1 \in Int /\ v5.moment \in Int /\ v5.moment <= v1
      /\ Covers(v5.got["pack"], v5.due, v6, v1)
      /\ \A a \in v5.due : Published[a] # Page!Unknown
      /\ \A a \in Articles : Published[a] \in Int
      /\ WatchHours \in Nat
  BY ReadersAssumption DEF PageOK, PageTypes, RequestOK, DueOK, Page!Names
<1>2. ASSUME NEW rows \in Page!Documents(v5.got)
      PROVE  /\ Sorted(rows, v5.moment, Page!Once(rows, v5.moment), Len(rows))
             /\ \A a \in v5.got["pack"] : \E k \in 1..Len(rows) : rows[k] = a
  <2>1. PICK news \in Page!Listed(v5.got["news"]), pack \in Page!Listed(v5.got["pack"]) :
          rows = news \o pack
    BY <1>2 DEF Page!Documents
  <2>2. /\ news \in Seq(Articles) /\ pack \in Seq(Articles)
        /\ \A a \in v5.got["pack"] : \E i \in 1..Len(pack) : pack[i] = a
    BY <1>1, ListedRows
  <2>3. /\ rows \in Seq(Articles) /\ Len(rows) = Len(news) + Len(pack)
        /\ \A i \in 1..Len(pack) : rows[Len(news) + i] = pack[i]
    BY <2>1, <2>2
  <2>4. Len(rows) \in Nat /\ Len(news) \in Nat /\ Len(pack) \in Nat
    BY <2>2, <2>3
  <2>5. ASSUME NEW a \in v5.got["pack"] PROVE \E k \in 1..Len(rows) : rows[k] = a
    <3>1. PICK i \in 1..Len(pack) : pack[i] = a
      BY <2>2
    <3>2. Len(news) + i \in 1..Len(rows) /\ rows[Len(news) + i] = a
      BY <2>3, <2>4, <3>1
    <3> QED
      BY <3>2
  <2> QED
    BY <2>4, <2>5, OnceSorts
<1>3. ASSUME NEW rows \in Page!Documents(v5.got), NEW a \in v5.due,
             Published[a] >= v1 - WatchHours, Published[a] <= v5.moment,
             ~(Page!Cardinality(Crowd(v6, a)) >= PackItems)
      PROVE  \E i \in Page!Once(rows, v5.moment) :
               rows[i] = a \/ Page!Keys(rows[i]) \cap Page!Keys(a) # {}
  <2>1. a \in v5.got["pack"]
    BY <1>1, <1>3 DEF Covers
  <2>2. PICK k \in 1..Len(rows) : rows[k] = a
    BY <1>2, <2>1
  <2>3. Page!InHours(rows[k], v5.moment)
    BY <1>1, <1>3, <2>2 DEF Page!InHours
  <2>4. PICK i \in Page!Once(rows, v5.moment) :
          i = k \/ Page!Keys(rows[i]) \cap Page!Keys(rows[k]) # {}
    BY <1>2, <2>2, <2>3 DEF Sorted
  <2> QED
    BY <2>2, <2>4
<1>4. ASSUME NEW rows \in Page!Documents(v5.got),
             NEW i \in Page!Once(rows, v5.moment), NEW j \in Page!Once(rows, v5.moment), i # j
      PROVE  Page!Keys(rows[i]) \cap Page!Keys(rows[j]) = {}
  BY <1>2, <1>4 DEF Sorted
<1> QED
  BY <1>3, <1>4 DEF Page!PageHasEachOnce, Crowd

-----------------------------------------------------------------------------
(* The learner: v1 is the file, v2 the day, v3 what was read, v4 the search, *)
(* v5 a model on its way to the file and v6 the one that is there.           *)

Reads(m, lines, from, to, f) ==
  f = [i \in from..to |-> IF i = from THEN m ELSE Learning!Consume(f[i - 1], lines[i])]
AsRead(m, lines, from, f, i) ==
  f[i] = IF i = from THEN m ELSE Learning!Consume(f[i - 1], lines[i])

AllRead(m, lines, from, f, upto) == \A i \in from..upto : AsRead(m, lines, from, f, i)
SameLines(lines, lines2, from, to) == \A i \in (from + 1)..to : lines[i] = lines2[i]
Equal(f, g, from, to) == \A i \in from..to : f[i] = g[i]

LEMMA ReadDef ==
  ASSUME NEW m, NEW lines, NEW from, NEW to
  PROVE  Learning!Read(m, lines, from, to) = (CHOOSE f : Reads(m, lines, from, to, f))[to]
BY DEF Learning!Read, Reads

LEMMA ReadValues ==
  ASSUME NEW m, NEW lines, NEW from, NEW to, NEW f, Reads(m, lines, from, to, f)
  PROVE  \A i \in from..to : AsRead(m, lines, from, f, i)
<1> DEFINE g == [i \in from..to |-> IF i = from THEN m ELSE Learning!Consume(f[i - 1], lines[i])]
<1>1. f = g
  BY DEF Reads
<1>2. \A i \in from..to : g[i] = IF i = from THEN m ELSE Learning!Consume(f[i - 1], lines[i])
  OBVIOUS
<1> HIDE DEF g
<1> QED
  BY <1>1, <1>2 DEF AsRead

LEMMA ReadsFrom ==
  ASSUME NEW m, NEW lines, NEW from, NEW to, NEW f, f = [i \in from..to |-> f[i]],
         \A i \in from..to : AsRead(m, lines, from, f, i)
  PROVE  Reads(m, lines, from, to, f)
<1>1. [i \in from..to |-> f[i]] =
        [i \in from..to |-> IF i = from THEN m ELSE Learning!Consume(f[i - 1], lines[i])]
  BY DEF AsRead
<1> QED
  BY <1>1 DEF Reads

LEMMA ReadExists ==
  ASSUME NEW m, NEW lines, NEW from \in Nat, NEW to \in Nat
  PROVE  from <= to => \E f : Reads(m, lines, from, to, f)
<1> DEFINE bad == {k \in Nat : from <= k /\ ~\E f : Reads(m, lines, from, k, f)}
<1> SUFFICES ASSUME bad # {} PROVE FALSE
  OBVIOUS
<1>1. PICK k \in bad : \A j \in bad : k <= j
  BY SmallestNumber
<1>2. k # from
  <2> DEFINE g == [i \in from..from |-> m]
  <2>1. \A i \in from..from : AsRead(m, lines, from, g, i)
    BY DEF AsRead
  <2>2. g = [i \in from..from |-> g[i]]
    OBVIOUS
  <2> HIDE DEF g
  <2>3. Reads(m, lines, from, from, g)
    BY <2>1, <2>2, ReadsFrom, Zenon
  <2> QED
    BY <2>3
<1>3. PICK last \in Nat : last = k - 1 /\ from <= last /\ last \notin bad
  BY <1>1, <1>2
<1>4. PICK f : Reads(m, lines, from, last, f)
  BY <1>3
<1> DEFINE new == Learning!Consume(f[last], lines[k])
           g == [i \in from..k |-> IF i = k THEN new ELSE f[i]]
<1> HIDE DEF new
<1>5. ASSUME NEW i \in from..k PROVE AsRead(m, lines, from, g, i)
  <2>1. CASE i = k
    <3>1. g[k] = new /\ g[k - 1] = f[last]
      BY <1>2, <1>3
    <3> QED
      BY <1>2, <2>1, <3>1 DEF new, AsRead
  <2>2. CASE i # k
    <3>1. i \in from..last /\ g[i] = f[i] /\ (i # from => g[i - 1] = f[i - 1])
      BY <1>3, <2>2
    <3>2. AsRead(m, lines, from, f, i)
      BY <1>4, <3>1, ReadValues
    <3> QED
      BY <3>1, <3>2 DEF AsRead
  <2> QED
    BY <2>1, <2>2
<1>6. g = [i \in from..k |-> g[i]]
  OBVIOUS
<1> HIDE DEF g
<1>7. \A i \in from..k : AsRead(m, lines, from, g, i)
  BY <1>5
<1>8. Reads(m, lines, from, k, g)
  BY <1>6, <1>7, ReadsFrom, Zenon
<1> QED
  BY <1>8

(* Two readings of lines that agree so far have read the same.               *)
LEMMA ReadTheSame ==
  ASSUME NEW m, NEW lines, NEW lines2, NEW from \in Nat, NEW f, NEW g, NEW upto \in Nat,
         AllRead(m, lines, from, f, upto), AllRead(m, lines2, from, g, upto),
         SameLines(lines, lines2, from, upto)
  PROVE  Equal(f, g, from, upto)
<1> DEFINE bad == {i \in Nat : i \in from..upto /\ f[i] # g[i]}
<1> SUFFICES ASSUME bad # {} PROVE FALSE
  BY DEF Equal
<1>1. PICK k \in bad : \A j \in bad : k <= j
  BY SmallestNumber
<1>2. AsRead(m, lines, from, f, k) /\ AsRead(m, lines2, from, g, k)
  BY <1>1 DEF AllRead
<1>3. CASE k = from
  BY <1>1, <1>2, <1>3 DEF AsRead
<1>4. CASE k # from
  <2>1. k - 1 \in from..upto /\ k - 1 \in Nat /\ k - 1 \notin bad /\ k \in (from + 1)..upto
    BY <1>1, <1>4
  <2>2. f[k - 1] = g[k - 1] /\ lines[k] = lines2[k]
    BY <2>1 DEF SameLines
  <2> QED
    BY <1>1, <1>2, <1>4, <2>2 DEF AsRead
<1> QED
  BY <1>3, <1>4

LEMMA ReadSame ==
  ASSUME NEW m, NEW lines, NEW lines2, NEW from \in Nat, NEW to \in Nat, from <= to,
         SameLines(lines, lines2, from, to)
  PROVE  Learning!Read(m, lines, from, to) = Learning!Read(m, lines2, from, to)
<1> DEFINE f == CHOOSE h : Reads(m, lines, from, to, h)
           g == CHOOSE h : Reads(m, lines2, from, to, h)
<1>1. Reads(m, lines, from, to, f) /\ Reads(m, lines2, from, to, g)
  BY ReadExists, Zenon
<1>2. /\ Learning!Read(m, lines, from, to) = f[to]
      /\ Learning!Read(m, lines2, from, to) = g[to]
  BY ReadDef, Zenon
<1> HIDE DEF f, g
<1>3. AllRead(m, lines, from, f, to) /\ AllRead(m, lines2, from, g, to)
  BY <1>1, ReadValues, Zenon DEF AllRead
<1>4. Equal(f, g, from, to)
  BY <1>3, ReadTheSame, Zenon
<1> QED
  BY <1>2, <1>4 DEF Equal

(* Reading on from where an earlier reading ended reads what one reading     *)
(* from its start would.                                                     *)
LEMMA ReadOn ==
  ASSUME NEW m, NEW lines, NEW from \in Nat, NEW mid \in Nat, NEW to \in Nat, from <= mid, mid <= to
  PROVE  Learning!Read(Learning!Read(m, lines, from, mid), lines, mid, to) = Learning!Read(m, lines, from, to)
<1> DEFINE half == Learning!Read(m, lines, from, mid)
           f == CHOOSE h : Reads(m, lines, from, mid, h)
           g == CHOOSE h : Reads(half, lines, mid, to, h)
           all == CHOOSE h : Reads(m, lines, from, to, h)
<1>1. Reads(m, lines, from, mid, f) /\ half = f[mid]
  BY ReadExists, ReadDef, Zenon
<1>2. from <= to
  OBVIOUS
<1>3. Reads(m, lines, from, to, all) /\ Learning!Read(m, lines, from, to) = all[to]
  BY <1>2, ReadExists, ReadDef, Zenon
<1> HIDE DEF half
<1>4. Reads(half, lines, mid, to, g) /\ Learning!Read(half, lines, mid, to) = g[to]
  BY ReadExists, ReadDef, Zenon
<1> HIDE DEF f, g, all
<1>5. /\ AllRead(m, lines, from, f, mid) /\ AllRead(m, lines, from, all, to)
      /\ AllRead(half, lines, mid, g, to)
  BY <1>1, <1>3, <1>4, ReadValues, Zenon DEF AllRead
<1>6. AllRead(m, lines, from, all, mid)
  BY <1>5 DEF AllRead
<1>a. SameLines(lines, lines, from, mid) /\ SameLines(lines, lines, mid, to)
  BY DEF SameLines
<1>7. Equal(f, all, from, mid)
  BY <1>5, <1>6, <1>a, ReadTheSame, Zenon
<1>8. all[mid] = half
  BY <1>1, <1>7 DEF Equal
<1>9. AllRead(half, lines, mid, all, to)
  <2>1. ASSUME NEW i \in mid..to PROVE AsRead(half, lines, mid, all, i)
    <3>1. AsRead(m, lines, from, all, i) /\ (i = mid \/ i # from)
      BY <1>5 DEF AllRead
    <3> QED
      BY <1>8, <3>1 DEF AsRead
  <2> QED
    BY <2>1 DEF AllRead
<1>10. Equal(g, all, mid, to)
  BY <1>5, <1>9, <1>a, ReadTheSame, Zenon
<1>11. Learning!Read(half, lines, mid, to) = Learning!Read(m, lines, from, to)
  BY <1>3, <1>4, <1>10 DEF Equal
<1> QED
  BY <1>11 DEF half
-----------------------------------------------------------------------------
(* What was read is what reading the lines so far would give; the bar of a   *)
(* search is what is stored, or on its way there.                            *)

IsSequence(s) == \E S : s \in Seq(S)

ReadOK ==
  /\ IsSequence(v1)
  /\ v3.offset \in Nat /\ v3.offset <= Learning!Whole(v1)
  /\ v3.read = Learning!Read(Learning!Nothing, v1, 0, v3.offset)

BarOK ==
  /\ v6 \in [stored : BOOLEAN, score : Int]
  /\ v4 # Learning!NoSearch => v4.best \in Int /\ v4.best >= Prevalence
  /\ v5 # Learning!None => v5 \in Int /\ v5 >= Prevalence /\ v4.best = v5
  /\ v4 # Learning!NoSearch /\ v5 = Learning!None => v4.best = Learning!Most(Prevalence, v6.score)

LearnOK == ReadOK /\ BarOK

LEMMA WholeLines ==
  ASSUME NEW s, IsSequence(s)
  PROVE  /\ Len(s) \in Nat /\ Learning!Whole(s) \in Nat
         /\ Len(s) - 1 <= Learning!Whole(s) /\ Learning!Whole(s) <= Len(s)
         /\ Learning!Whole(s) < Len(s) => Learning!Whole(s) = Len(s) - 1
<1>1. PICK S : s \in Seq(S)
  BY DEF IsSequence
<1>2. Len(s) \in Nat /\ (s # <<>> => Len(s) # 0)
  BY <1>1
<1> QED
  BY <1>2 DEF Learning!Whole

(* Nothing read of lines that do not change is lost.                         *)
LEMMA ReadStays ==
  ASSUME ReadOK, v3' = v3, IsSequence(v1'),
         Learning!Whole(v1) <= Learning!Whole(v1'),
         \A i \in 1..Learning!Whole(v1) : v1'[i] = v1[i]
  PROVE  ReadOK'
<1>1. /\ v3.offset \in Nat /\ v3.offset <= Learning!Whole(v1)
      /\ v3.read = Learning!Read(Learning!Nothing, v1, 0, v3.offset)
  BY DEF ReadOK
<1>2. Learning!Whole(v1) \in Nat /\ Learning!Whole(v1') \in Nat
  BY WholeLines DEF ReadOK
<1>3. PICK upto \in Nat : upto = v3.offset
  BY <1>1
<1>4. SameLines(v1, v1', 0, upto)
  BY <1>1, <1>2, <1>3 DEF SameLines
<1>5. PICK lines : lines = v1'
  OBVIOUS
<1>6. Learning!Read(Learning!Nothing, v1, 0, upto) = Learning!Read(Learning!Nothing, lines, 0, upto)
  BY <1>3, <1>4, <1>5, ReadSame
<1>7. v3'.offset = upto /\ v3'.read = Learning!Read(Learning!Nothing, v1', 0, upto)
  BY <1>1, <1>3, <1>5, <1>6
<1>8. v3'.offset <= Learning!Whole(v1')
  BY <1>1, <1>2, <1>3, <1>7
<1>9. v3'.offset \in Nat /\ v3'.read = Learning!Read(Learning!Nothing, v1', 0, v3'.offset)
  BY <1>7
<1> QED
  BY <1>8, <1>9 DEF ReadOK

LEMMA ReadNothing ==
  ASSUME NEW lines
  PROVE  Learning!Read(Learning!Nothing, lines, 0, 0) = Learning!Nothing
<1> DEFINE f == CHOOSE h : Reads(Learning!Nothing, lines, 0, 0, h)
<1>1. 0 \in Nat /\ 0 <= 0 /\ 0 \in 0..0
  OBVIOUS
<1>2. Reads(Learning!Nothing, lines, 0, 0, f) /\ Learning!Read(Learning!Nothing, lines, 0, 0) = f[0]
  BY <1>1, ReadExists, ReadDef, Zenon
<1> HIDE DEF f
<1>3. AsRead(Learning!Nothing, lines, 0, f, 0)
  BY <1>1, <1>2, ReadValues, Zenon
<1> QED
  BY <1>2, <1>3 DEF AsRead

LEMMA LearnInit == Learning!Init => LearnOK
<1> SUFFICES ASSUME Learning!Init PROVE LearnOK
  OBVIOUS
<1>1. /\ v1 = <<>> /\ v4 = Learning!NoSearch /\ v5 = Learning!None
      /\ v3 = [read |-> Learning!Nothing, offset |-> 0, compacted |-> Learning!None]
      /\ v6 = [stored |-> FALSE, score |-> 0]
  BY DEF Learning!Init
<1>2. IsSequence(<<>>)
  <2>1. <<>> \in Seq(Nat)
    OBVIOUS
  <2> QED
    BY <2>1 DEF IsSequence
<1>3. Learning!Whole(v1) = 0
  BY <1>1 DEF Learning!Whole
<1>4. Learning!Read(Learning!Nothing, v1, 0, 0) = Learning!Nothing
  BY ReadNothing
<1>5. ReadOK
  BY <1>1, <1>2, <1>3, <1>4 DEF ReadOK
<1>6. BarOK
  BY <1>1 DEF BarOK
<1> QED
  BY <1>5, <1>6 DEF LearnOK

(* Lines are appended; the first one is glued to a torn one.                 *)
LEMMA LearnObserves ==
  ASSUME LearnOK, NEW line, Learning!Observe(<<line>>)
  PROVE  LearnOK'
<1>1. v1' = Learning!Appended(<<line>>) /\ v3' = v3 /\ v4' = v4 /\ v5' = v5 /\ v6' = v6
  BY DEF Learning!Observe
<1>2. PICK S : v1 \in Seq(S)
  BY DEF LearnOK, ReadOK, IsSequence
<1> DEFINE T == S \cup {line, Learning!Unreadable}
<1>3. v1 \in Seq(T) /\ Len(v1) \in Nat
  BY <1>2
<1>4. /\ Learning!Whole(v1) \in Nat /\ Learning!Whole(v1) <= Len(v1)
      /\ Learning!Whole(v1) < Len(v1) => Learning!Whole(v1) = Len(v1) - 1
  BY WholeLines DEF LearnOK, ReadOK
<1>5. /\ v1' \in Seq(T) /\ Len(v1') \in Nat
      /\ Learning!Whole(v1) <= Len(v1') - 1
      /\ \A i \in 1..Learning!Whole(v1) : v1'[i] = v1[i]
  <2>1. CASE Learning!Whole(v1) < Len(v1)
    <3>1. v1' = SubSeq(v1, 1, Len(v1) - 1) \o <<Learning!Unreadable>> \o Tail(<<line>>)
      BY <1>1, <2>1 DEF Learning!Appended
    <3>2. Tail(<<line>>) = <<>>
      OBVIOUS
    <3> DEFINE s == SubSeq(v1, 1, Len(v1) - 1)
    <3>3. s \in Seq(T) /\ Len(s) = Len(v1) - 1 /\ \A i \in 1..(Len(v1) - 1) : s[i] = v1[i]
      BY <1>3, <1>4, <2>1
    <3> HIDE DEF s
    <3>4. v1' = Append(s, Learning!Unreadable)
      BY <3>1, <3>2, <3>3 DEF s
    <3> QED
      BY <1>3, <1>4, <2>1, <3>3, <3>4
  <2>2. CASE ~(Learning!Whole(v1) < Len(v1))
    <3>1. v1' = Append(v1, line)
      BY <1>1, <1>3, <2>2 DEF Learning!Appended
    <3> QED
      BY <1>3, <1>4, <2>2, <3>1
  <2> QED
    BY <2>1, <2>2
<1>6. IsSequence(v1')
  BY <1>5 DEF IsSequence
<1>7. Learning!Whole(v1') \in Nat /\ Len(v1') - 1 <= Learning!Whole(v1')
  BY <1>6, WholeLines
<1>8. Learning!Whole(v1) <= Learning!Whole(v1')
  BY <1>4, <1>5, <1>7
<1>9. ReadOK'
  BY <1>1, <1>5, <1>6, <1>8, ReadStays DEF LearnOK
<1> QED
  BY <1>1, <1>9 DEF LearnOK, BarOK

(* A chunk reads on, or anew what the day's compaction left.                 *)
LEMMA RetainedLines == IsSequence(v1) => IsSequence(Learning!Retained(v1))
<1> SUFFICES ASSUME NEW S, v1 \in Seq(S) PROVE IsSequence(Learning!Retained(v1))
  BY DEF IsSequence
<1> DEFINE kept == {i \in DOMAIN v1 : /\ v1[i].kind \notin {"torn", "unreadable"}
                                      /\ v1[i].day >= v2 - RetentionDays}
           place(n) == CHOOSE i \in kept : Learning!Cardinality({j \in kept : j <= i}) = n
           number == Learning!Cardinality(kept)
           T == {v1[place(n)] : n \in 1..number}
<1>1. Learning!Retained(v1) = [n \in 1..number |-> v1[place(n)]]
  BY DEF Learning!Retained
<1>2. number \in Nat
  <2>1. IsFiniteSet(1..Len(v1)) /\ kept \subseteq 1..Len(v1)
    BY FS_Interval
  <2>2. Cardinality(kept) \in Nat
    BY <2>1, FS_Subset, FS_CardinalityType
  <2>3. Learning!Cardinality(kept) = Cardinality(kept)
    BY DEF Learning!Cardinality, Cardinality
  <2> QED
    BY <2>2, <2>3
<1> HIDE DEF kept, place, number
<1>3. [n \in 1..number |-> v1[place(n)]] \in [1..number -> T]
  OBVIOUS
<1>4. [n \in 1..number |-> v1[place(n)]] \in Seq(T)
  BY <1>2, <1>3, IsASeq
<1> QED
  BY <1>1, <1>4 DEF IsSequence

LEMMA ChunkReads ==
  ASSUME LearnOK, Learning!Chunk
  PROVE  ReadOK'
<1> DEFINE lines == IF Learning!CompactsToday THEN Learning!Retained(v1) ELSE v1
           start == Learning!Start(lines)
<1>1. v1' = lines /\ v3' = Learning!Loaded(lines)
  BY DEF Learning!Chunk
<1>2. /\ v3'.read = Learning!Read(start.read, lines, start.offset, Learning!Whole(lines))
      /\ v3'.offset = Learning!Whole(lines)
  BY <1>1 DEF Learning!Loaded
<1>3. IsSequence(lines) /\ IsSequence(v1)
  BY RetainedLines DEF LearnOK, ReadOK
<1>4. /\ Learning!Whole(lines) \in Nat /\ Learning!Whole(lines) <= Len(lines)
      /\ Learning!Whole(v1) \in Nat /\ Learning!Whole(v1) <= Len(v1) /\ Len(v1) \in Nat
  BY <1>3, WholeLines
<1>5. v3'.read = Learning!Read(Learning!Nothing, lines, 0, Learning!Whole(lines))
  <2>1. CASE start = Learning!Unread
    BY <1>2, <2>1 DEF Learning!Unread
  <2>2. CASE start # Learning!Unread
    <3>1. /\ lines = v1 /\ start.read = v3.read /\ start.offset = v3.offset
      BY <2>2 DEF Learning!Start, Learning!StartKept
    <3>2. /\ v3.offset \in Nat /\ v3.offset <= Learning!Whole(v1)
          /\ v3.read = Learning!Read(Learning!Nothing, v1, 0, v3.offset)
      BY DEF LearnOK, ReadOK
    <3>3. PICK mid \in Nat, to \in Nat : mid = v3.offset /\ to = Learning!Whole(v1) /\ mid <= to
      BY <1>4, <3>2
    <3>4. Learning!Read(Learning!Read(Learning!Nothing, v1, 0, mid), v1, mid, to)
            = Learning!Read(Learning!Nothing, v1, 0, to)
      BY <3>3, ReadOn
    <3>5. v3'.read = Learning!Read(Learning!Read(Learning!Nothing, v1, 0, mid), v1, mid, to)
      BY <1>2, <3>1, <3>2, <3>3
    <3> QED
      BY <3>1, <3>3, <3>4, <3>5
  <2> QED
    BY <2>1, <2>2
<1>6. Learning!Whole(lines) <= Learning!Whole(lines)
  BY <1>4
<1> HIDE DEF lines
<1> QED
  BY <1>1, <1>2, <1>3, <1>4, <1>5, <1>6 DEF ReadOK

LEMMA NoneIsLess == Learning!None \in Int /\ \A n \in Nat : n # Learning!None
BY DEF Learning!None

LEMMA ChunkSearches ==
  ASSUME LearnOK, Learning!Chunk
  PROVE  BarOK'
<1>1. PICK samples : samples = v3'.read.samples
  OBVIOUS
<1>2. v5 = Learning!None /\ Learning!Loaded(v1') = v3'
  BY DEF Learning!Chunk
<1>3. PICK s \in Learning!Searches(samples) :
        \/ /\ s = Learning!NoSearch /\ v4' = Learning!NoSearch
           /\ v5' = v5 /\ v6' = v6
        \/ /\ s # Learning!NoSearch /\ v4' \in Learning!Tried(s)
           /\ v5' = IF v4'.best > s.best THEN v4'.best ELSE Learning!None
           /\ v6' = [v6 EXCEPT !.score = Learning!Measured(s)]
  BY <1>1 DEF Learning!Chunk
<1>4. /\ v6 \in [stored : BOOLEAN, score : Int]
      /\ v4 # Learning!NoSearch => v4.best \in Int /\ v4.best >= Prevalence
      /\ v4 # Learning!NoSearch => v4.best = Learning!Most(Prevalence, v6.score)
      /\ Prevalence \in Nat /\ MaxScore \in Nat
  BY <1>2, LearnerAssumption DEF LearnOK, BarOK
<1>5. CASE v4' = Learning!NoSearch /\ v5' = v5 /\ v6' = v6
  BY <1>2, <1>4, <1>5 DEF BarOK
<1>6. CASE /\ s # Learning!NoSearch /\ v4' \in Learning!Tried(s)
           /\ v5' = IF v4'.best > s.best THEN v4'.best ELSE Learning!None
           /\ v6' = [v6 EXCEPT !.score = Learning!Measured(s)]
  <2>1. /\ s.best \in Int /\ s.best >= Prevalence
        /\ Learning!Measured(s) \in Int
        /\ s.best = Learning!Most(Prevalence, Learning!Measured(s))
    <3>1. CASE v4 # Learning!NoSearch /\ v4.samples = samples
      <4>1. s = v4
        BY <1>3, <1>6, <3>1 DEF Learning!Searches
      <4>2. Learning!Measured(s) = v6.score
        BY <3>1, <4>1 DEF Learning!Measured
      <4> QED
        BY <1>4, <3>1, <4>1, <4>2
    <3>2. CASE ~(v4 # Learning!NoSearch /\ v4.samples = samples)
      <4>1. PICK again \in 0..MaxScore :
              s = [samples |-> samples, trials |-> 0, best |-> Learning!Most(Prevalence, again)]
        BY <1>3, <1>4, <1>6, <3>2 DEF Learning!Searches
      <4>2. s.samples = samples /\ s.best = Learning!Most(Prevalence, again)
        BY <4>1
      <4>3. Learning!Measured(s) = s.best
        BY <3>2, <4>2 DEF Learning!Measured
      <4>4. s.best \in Int /\ s.best >= Prevalence
        BY <1>4, <4>2 DEF Learning!Most
      <4>5. s.best = Learning!Most(Prevalence, s.best)
        BY <1>4, <4>4 DEF Learning!Most
      <4> QED
        BY <4>3, <4>4, <4>5
    <3> QED
      BY <3>1, <3>2
  <2>2. v4'.best \in Int /\ v4'.best >= s.best
    <3>1. CASE v4' = s
      BY <2>1, <3>1
    <3>2. CASE v4' # s
      <4>1. PICK n \in 1..(SearchTrials - s.trials), score \in 0..MaxScore :
              v4' = [samples |-> s.samples, trials |-> s.trials + n,
                     best |-> Learning!Most(s.best, score)]
        BY <1>6, <3>2 DEF Learning!Tried
      <4>3. v4'.best = Learning!Most(s.best, score)
        BY <4>1
      <4> QED
        BY <1>4, <2>1, <4>3 DEF Learning!Most
    <3> QED
      BY <3>1, <3>2
  <2>3. v6'.score = Learning!Measured(s) /\ v6' \in [stored : BOOLEAN, score : Int]
    BY <1>4, <1>6, <2>1
  <2>4. CASE v4'.best > s.best
    <3>1. v5' = v4'.best /\ v5' \in Nat /\ v5' >= Prevalence
      BY <1>4, <1>6, <2>1, <2>2, <2>4
    <3>2. v5' # Learning!None
      BY <3>1, NoneIsLess
    <3> QED
      BY <1>4, <2>1, <2>2, <2>3, <3>1, <3>2 DEF BarOK
  <2>5. CASE ~(v4'.best > s.best)
    <3>1. v4'.best = s.best /\ v5' = Learning!None
      BY <1>6, <2>1, <2>2, <2>5
    <3> QED
      BY <2>1, <2>3, <3>1 DEF BarOK
  <2> QED
    BY <2>4, <2>5
<1> QED
  BY <1>3, <1>5, <1>6

LEMMA LearnGoesOn == LearnOK /\ [Learning!Next]_(Learning!vars) => LearnOK'
<1> SUFFICES ASSUME LearnOK, [Learning!Next]_(Learning!vars) PROVE LearnOK'
  OBVIOUS
<1>1. CASE UNCHANGED <<v1, v3, v4, v5, v6>>
  BY <1>1 DEF LearnOK, ReadOK, BarOK
<1>2. CASE Learning!Ranked
  BY <1>2, LearnObserves DEF Learning!Ranked
<1>3. CASE Learning!Reported
  BY <1>3, LearnObserves DEF Learning!Reported
<1>4. CASE Learning!Chunk
  BY <1>4, ChunkReads, ChunkSearches DEF LearnOK
<1>5. CASE Learning!Save
  <2>1. /\ v5 # Learning!None /\ v6' = [stored |-> TRUE, score |-> v5] /\ v5' = Learning!None
        /\ v1' = v1 /\ v3' = v3 /\ v4' = v4
    BY <1>5 DEF Learning!Save
  <2>2. v5 \in Int /\ v5 >= Prevalence /\ v4.best = v5 /\ Prevalence \in Nat
    BY <2>1, LearnerAssumption DEF LearnOK, BarOK
  <2>3. v6' \in [stored : BOOLEAN, score : Int] /\ v6'.score = v5
    BY <2>1, <2>2
  <2>4. v4.best = Learning!Most(Prevalence, v6'.score)
    BY <2>2, <2>3 DEF Learning!Most
  <2>5. v4 # Learning!NoSearch => v4.best \in Int /\ v4.best >= Prevalence
    BY DEF LearnOK, BarOK
  <2>6. BarOK'
    BY <2>1, <2>3, <2>4, <2>5 DEF BarOK
  <2> QED
    BY <2>1, <2>6 DEF LearnOK, ReadOK
<1>6. CASE Learning!SaveFails
  <2>1. v5' = Learning!None /\ v4' = Learning!NoSearch /\ v1' = v1 /\ v3' = v3 /\ v6' = v6
    BY <1>6 DEF Learning!SaveFails
  <2> QED
    BY <2>1 DEF LearnOK, ReadOK, BarOK
<1>7. CASE Learning!Restart
  <2>1. /\ v3' = [read |-> Learning!Nothing, offset |-> 0, compacted |-> Learning!None]
        /\ v4' = Learning!NoSearch /\ v5' = Learning!None /\ v6' = v6
        /\ v1' = v1 \/ v1' = Append(v1, Learning!Torn)
    BY <1>7 DEF Learning!Restart
  <2>2. IsSequence(v1')
    <3>1. PICK S : v1 \in Seq(S)
      BY DEF LearnOK, ReadOK, IsSequence
    <3>2. v1' \in Seq(S \cup {Learning!Torn})
      BY <2>1, <3>1
    <3> QED
      BY <3>2 DEF IsSequence
  <2>3. PICK lines : lines = v1'
    OBVIOUS
  <2>4. Learning!Whole(lines) \in Nat
    BY <2>2, <2>3, WholeLines
  <2>5. Learning!Read(Learning!Nothing, lines, 0, 0) = Learning!Nothing
    BY ReadNothing
  <2>6. ReadOK'
    BY <2>1, <2>2, <2>3, <2>4, <2>5 DEF ReadOK
  <2>7. BarOK'
    BY <2>1 DEF LearnOK, BarOK
  <2> QED
    BY <2>6, <2>7 DEF LearnOK
<1> QED
  BY <1>1, <1>2, <1>3, <1>4, <1>5, <1>6, <1>7
  DEF Learning!Next, Learning!vars, Learning!Maintain, Learning!EndSlice, Learning!NextDay, Learning!Burst

LEMMA LearnTells == LearnOK => Learning!ReadsLikeAnew /\ Learning!BarIsWhatIsStored
BY DEF LearnOK, ReadOK, BarOK, Learning!ReadsLikeAnew, Learning!BarIsWhatIsStored
-----------------------------------------------------------------------------
(* The stocks: v1 is the file, v2 the memory, v3 tells that the file is      *)
(* written and v4 what each market was last collected as.                    *)

(* The keys a market may have; no key is of two markets.                     *)
Home(m) == UNION {Names!Keys(m, rows) : rows \in Listings[m]}

LEMMA MarketKeys ==
  ASSUME NEW m, NEW k \in Home(m)
  PROVE  /\ m \in Names!Bare => k.scope = "" /\ k = [scope |-> "", exchange |-> "", code |-> k.code]
         /\ m \notin Names!Bare => k.scope = m
<1>1. PICK rows \in Listings[m] : k \in Names!Keys(m, rows)
  BY DEF Home
<1>2. PICK row \in rows : k = Names!Key(m, row.exchange, row.code)
  BY <1>1 DEF Names!Keys
<1> QED
  BY <1>2 DEF Names!Key

LEMMA MarketsAreNamed == "" \notin Names!MarketsOf
BY DEF Names!MarketsOf

LEMMA HomesApart ==
  ASSUME NEW m \in Names!MarketsOf, NEW n \in Names!MarketsOf, NEW k, k \in Home(m), k \in Home(n)
  PROVE  m = n
<1>1. CASE m \in Names!Bare /\ n \in Names!Bare
  <2>1. Home("CN") \cap Home("HK") = {}
    BY UniverseAssumption DEF Home
  <2> QED
    BY <1>1, <2>1 DEF Names!Bare
<1>2. CASE m \notin Names!Bare /\ n \notin Names!Bare
  BY <1>2, MarketKeys
<1>3. CASE m \in Names!Bare /\ n \notin Names!Bare
  <2>1. k.scope = "" /\ k.scope = n
    BY <1>3, MarketKeys
  <2> QED
    BY <2>1, MarketsAreNamed
<1>4. CASE m \notin Names!Bare /\ n \in Names!Bare
  <2>1. k.scope = "" /\ k.scope = m
    BY <1>4, MarketKeys
  <2> QED
    BY <2>1, MarketsAreNamed
<1> QED
  BY <1>1, <1>2, <1>3, <1>4

OfMarket(db, m) == {k \in DOMAIN db : db[k] = m}
DbOK(db) == \A k \in DOMAIN db : db[k] \in Names!MarketsOf /\ k \in Home(db[k])

(* One market joins a database that has no key of it.                        *)
With(db, old, m, rows) ==
  IF rows = Names!Failed THEN Names!PreserveMarkets(db, old, m) ELSE Names!Over(db, Names!Entries(m, rows))
Joining(old, m, rows) == IF rows = Names!Failed THEN OfMarket(old, m) ELSE Names!Keys(m, rows)
Joined(new, db, old, m, rows) ==
  /\ Joining(old, m, rows) \subseteq Home(m)
  /\ DOMAIN new = DOMAIN db \cup Joining(old, m, rows)
  /\ \A k \in Joining(old, m, rows) : new[k] = m
  /\ \A k \in DOMAIN db : new[k] = db[k]

LEMMA MarketJoins ==
  ASSUME NEW db, NEW old, DbOK(old), NEW m, NEW rows \in {Names!Failed} \cup Listings[m],
         DOMAIN db \cap Home(m) = {}
  PROVE  Joined(With(db, old, m, rows), db, old, m, rows)
<1>1. Joining(old, m, rows) \subseteq Home(m)
  BY DEF Joining, OfMarket, DbOK, Home
<1>2. CASE rows = Names!Failed
  <2> DEFINE kept == [k \in {o \in DOMAIN old : old[o] = m} |-> m]
  <2>1. With(db, old, m, rows) = Names!Over(kept, db)
    BY <1>2 DEF With, Names!PreserveMarkets
  <2>2. DOMAIN kept = Joining(old, m, rows) /\ \A k \in DOMAIN kept : kept[k] = m
    BY <1>2 DEF Joining, OfMarket
  <2> HIDE DEF kept
  <2> QED
    BY <1>1, <2>1, <2>2 DEF Joined, Names!Over
<1>3. CASE rows # Names!Failed
  <2>1. With(db, old, m, rows) = Names!Over(db, Names!Entries(m, rows))
    BY <1>3 DEF With
  <2>2. /\ DOMAIN Names!Entries(m, rows) = Joining(old, m, rows)
        /\ \A k \in Joining(old, m, rows) : Names!Entries(m, rows)[k] = m
    BY <1>3 DEF Joining, Names!Entries
  <2> QED
    BY <1>1, <2>1, <2>2 DEF Joined, Names!Over
<1> QED
  BY <1>2, <1>3

(* The four markets, each as it was collected or as it was kept.             *)
LEMMA FourMarkets ==
  ASSUME NEW old, DbOK(old), NEW collected \in Names!Collections,
         NEW db, db = Names!Built(old, collected)
  PROVE  /\ DbOK(db)
         /\ \A m \in Names!MarketsOf : OfMarket(db, m) = Joining(old, m, collected[m])
<1> DEFINE cn == With(<<>>, old, "CN", collected["CN"])
           hk == With(cn, old, "HK", collected["HK"])
           kr == With(hk, old, "KR", collected["KR"])
           us == With(kr, old, "US", collected["US"])
           G(m) == Joining(old, m, collected[m])
<1>1. db = us
  BY DEF Names!Built, With
<1>2. \A m \in Names!MarketsOf : collected[m] \in {Names!Failed} \cup Listings[m]
  BY DEF Names!Collections, Names!MarketsOf
<1>3. \A m, n \in Names!MarketsOf : m # n => Home(m) \cap Home(n) = {}
  BY HomesApart
<1>4. {"CN", "HK", "KR", "US"} = Names!MarketsOf
  BY DEF Names!MarketsOf
<1>5. DOMAIN <<>> = {}
  OBVIOUS
<1>6. Joined(cn, <<>>, old, "CN", collected["CN"])
  BY <1>2, <1>4, <1>5, MarketJoins
<1> HIDE DEF cn
<1>7. DOMAIN cn = G("CN") /\ G("CN") \subseteq Home("CN") /\ \A k \in G("CN") : cn[k] = "CN"
  BY <1>5, <1>6 DEF Joined
<1>8. DOMAIN cn \cap Home("HK") = {}
  BY <1>3, <1>4, <1>7
<1>9. Joined(hk, cn, old, "HK", collected["HK"])
  BY <1>2, <1>4, <1>8, MarketJoins
<1> HIDE DEF hk
<1>10. /\ DOMAIN hk = G("CN") \cup G("HK") /\ G("HK") \subseteq Home("HK")
       /\ \A k \in G("CN") : hk[k] = "CN"
       /\ \A k \in G("HK") : hk[k] = "HK"
  BY <1>7, <1>9 DEF Joined
<1>11. DOMAIN hk \cap Home("KR") = {}
  BY <1>3, <1>4, <1>7, <1>10
<1>12. Joined(kr, hk, old, "KR", collected["KR"])
  BY <1>2, <1>4, <1>11, MarketJoins
<1> HIDE DEF kr
<1>13. /\ DOMAIN kr = G("CN") \cup G("HK") \cup G("KR") /\ G("KR") \subseteq Home("KR")
       /\ \A k \in G("CN") : kr[k] = "CN"
       /\ \A k \in G("HK") : kr[k] = "HK"
       /\ \A k \in G("KR") : kr[k] = "KR"
  BY <1>10, <1>12 DEF Joined
<1>14. DOMAIN kr \cap Home("US") = {}
  BY <1>3, <1>4, <1>7, <1>10, <1>13
<1>15. Joined(us, kr, old, "US", collected["US"])
  BY <1>2, <1>4, <1>14, MarketJoins
<1> HIDE DEF us
<1>16. /\ DOMAIN us = G("CN") \cup G("HK") \cup G("KR") \cup G("US") /\ G("US") \subseteq Home("US")
       /\ \A k \in G("CN") : us[k] = "CN"
       /\ \A k \in G("HK") : us[k] = "HK"
       /\ \A k \in G("KR") : us[k] = "KR"
       /\ \A k \in G("US") : us[k] = "US"
  BY <1>13, <1>15 DEF Joined
<1> HIDE DEF G
<1>17. \A m \in Names!MarketsOf : G(m) \subseteq DOMAIN us /\ G(m) \subseteq Home(m) /\ \A k \in G(m) : us[k] = m
  BY <1>4, <1>7, <1>10, <1>13, <1>16
<1>18. \A k \in DOMAIN us : \E m \in Names!MarketsOf : k \in G(m)
  BY <1>4, <1>16
<1>19. DbOK(us)
  BY <1>17, <1>18 DEF DbOK
<1>20. \A m \in Names!MarketsOf : OfMarket(us, m) = G(m)
  BY <1>17, <1>18 DEF OfMarket
<1> QED
  BY <1>1, <1>19, <1>20 DEF G

UniverseOK ==
  /\ DbOK(Names!OldDb) /\ DbOK(v2)
  /\ \A m \in Names!MarketsOf : v4[m] = OfMarket(Names!OldDb, m)
  /\ v3 \in BOOLEAN /\ v6 \in Nat
  /\ v3 => v1.file = "whole"
  /\ v1.file = "whole" /\ ~v3 /\ v6 = 0 => v2 = v1.db

LEMMA NoStocks == DbOK(<<>>) /\ \A m : OfMarket(<<>>, m) = {}
<1>1. DOMAIN <<>> = {}
  OBVIOUS
<1> QED
  BY <1>1 DEF DbOK, OfMarket

LEMMA UniverseInit == Names!Init => UniverseOK
<1> SUFFICES ASSUME Names!Init PROVE UniverseOK
  OBVIOUS
<1>1. /\ v1 = Names!Missing /\ v2 = <<>> /\ v3 = FALSE /\ v6 = 0
      /\ v4 = [m \in Names!MarketsOf |-> {}]
  BY DEF Names!Init
<1>2. v1.file # "whole" /\ Names!OldDb = <<>>
  BY <1>1 DEF Names!Missing, Names!OldDb
<1>3. v3 \in BOOLEAN
  BY <1>1, Zenon
<1> QED
  BY <1>1, <1>2, <1>3, NoStocks DEF UniverseOK

LEMMA UniverseGoesOn == UniverseOK /\ [Names!Next]_(Names!vars) => UniverseOK'
<1> SUFFICES ASSUME UniverseOK, [Names!Next]_(Names!vars) PROVE UniverseOK'
  OBVIOUS
<1>0. /\ DbOK(Names!OldDb) /\ DbOK(v2)
      /\ \A m \in Names!MarketsOf : v4[m] = OfMarket(Names!OldDb, m)
      /\ v3 \in BOOLEAN /\ v6 \in Nat
      /\ v3 => v1.file = "whole"
      /\ v1.file = "whole" /\ ~v3 /\ v6 = 0 => v2 = v1.db
  BY DEF UniverseOK
<1>1. CASE UNCHANGED Names!vars
  <2>1. v1' = v1 /\ v2' = v2 /\ v3' = v3 /\ v4' = v4 /\ v6' = v6
    BY <1>1 DEF Names!vars
  <2> QED
    BY <1>0, <2>1 DEF UniverseOK, Names!OldDb
<1>2. ASSUME NEW collected \in Names!Collections, Names!Build(collected) PROVE UniverseOK'
  <2>1. PICK db : db = Names!Built(Names!OldDb, collected)
    OBVIOUS
  <2>2. /\ v1' = Names!Whole(db) /\ v3' = TRUE /\ v2' = v2 /\ v6' = v6
        /\ v4' = [m \in Names!MarketsOf |-> IF collected[m] = Names!Failed THEN v4[m]
                                            ELSE Names!Keys(m, collected[m])]
    BY <1>2, <2>1 DEF Names!Build
  <2>3. v1'.file = "whole" /\ v1'.db = db
    BY <2>2 DEF Names!Whole
  <2>4. Names!OldDb' = db
    BY <2>3 DEF Names!OldDb
  <2>5. PICK old : old = Names!OldDb
    OBVIOUS
  <2>6. DbOK(db) /\ \A m \in Names!MarketsOf : OfMarket(db, m) = Joining(old, m, collected[m])
    BY <1>0, <2>1, <2>5, FourMarkets
  <2>7. \A m \in Names!MarketsOf : v4'[m] = OfMarket(db, m)
    BY <1>0, <2>2, <2>5, <2>6 DEF Joining
  <2>8. v3' \in BOOLEAN
    BY <2>2, Zenon
  <2> QED
    BY <1>0, <2>2, <2>3, <2>4, <2>6, <2>7, <2>8 DEF UniverseOK
<1>3. CASE Names!Adopt \/ Names!Restart
  <2>1. /\ v1.file = "whole" /\ v2' = v1.db /\ v3' = FALSE
        /\ v1' = v1 /\ v4' = v4 /\ v6' = v6
    BY <1>0, <1>3 DEF Names!Adopt, Names!Restart
  <2>2. Names!OldDb = v1.db /\ Names!OldDb' = v1.db
    BY <2>1 DEF Names!OldDb
  <2>3. v3' \in BOOLEAN
    BY <2>1, Zenon
  <2> QED
    BY <1>0, <2>1, <2>2, <2>3 DEF UniverseOK
<1>4. CASE Names!RestartUnreadable
  <2>1. /\ v1.file # "whole" /\ v2' = <<>> /\ v3' = FALSE
        /\ v1' = v1 /\ v4' = v4 /\ v6' = v6
    BY <1>4 DEF Names!RestartUnreadable
  <2>2. Names!OldDb' = Names!OldDb
    BY <2>1 DEF Names!OldDb
  <2>3. v3' \in BOOLEAN
    BY <2>1, Zenon
  <2> QED
    BY <1>0, <2>1, <2>2, <2>3, NoStocks DEF UniverseOK
<1>5. CASE Names!Damage
  <2>1. /\ v1' = Names!Damaged /\ v6' = v6 + 1 /\ ~v3 /\ v3' = v3 /\ v2' = v2
        /\ v4' = [m \in Names!MarketsOf |-> {}]
    BY <1>5 DEF Names!Damage
  <2>2. v1'.file # "whole" /\ Names!OldDb' = <<>>
    BY <2>1 DEF Names!Damaged, Names!OldDb
  <2> QED
    BY <1>0, <2>1, <2>2, NoStocks DEF UniverseOK
<1> QED
  BY <1>1, <1>2, <1>3, <1>4, <1>5 DEF Names!Next

LEMMA UniverseTells == UniverseOK => Names!KnownUntilCollectedAnew /\ Names!CodeNamesOneStock
<1> SUFFICES ASSUME UniverseOK PROVE Names!KnownUntilCollectedAnew /\ Names!CodeNamesOneStock
  OBVIOUS
<1>1. Names!KnownUntilCollectedAnew
  <2>1. SUFFICES ASSUME v1.file = "whole"
        PROVE  /\ DOMAIN v1.db = UNION {v4[m] : m \in Names!MarketsOf}
               /\ ~v3 /\ v6 = 0 => v2 = v1.db
    BY DEF Names!KnownUntilCollectedAnew
  <2>2. Names!OldDb = v1.db
    BY <2>1 DEF Names!OldDb
  <2>3. DbOK(v1.db) /\ \A m \in Names!MarketsOf : v4[m] = OfMarket(v1.db, m)
    BY <2>2 DEF UniverseOK
  <2>4. DOMAIN v1.db = UNION {v4[m] : m \in Names!MarketsOf}
    BY <2>3 DEF DbOK, OfMarket
  <2> QED
    BY <2>1, <2>4 DEF UniverseOK
<1>2. ASSUME NEW code \in Codes, NEW m \in Names!MarketsOf, NEW k \in Names!ResolveScoped(v2, m, "", code)
      PROVE  v2[k] = m
  <2> DEFINE exact == [scope |-> m, exchange |-> "", code |-> code]
  <2>1. CASE exact \in DOMAIN v2
    <3>1. k = exact
      BY <2>1 DEF Names!ResolveScoped
    <3>2. k.scope = m /\ k \in DOMAIN v2
      BY <2>1, <3>1
    <3>3. v2[k] \in Names!MarketsOf /\ k \in Home(v2[k])
      BY <3>2 DEF UniverseOK, DbOK
    <3>4. PICK home : home = v2[k]
      OBVIOUS
    <3>5. m # ""
      BY MarketsAreNamed
    <3> QED
      BY <3>2, <3>3, <3>4, <3>5, MarketKeys
  <2>2. CASE exact \notin DOMAIN v2
    BY <2>2 DEF Names!ResolveScoped, Names!Alias
  <2> QED
    BY <2>1, <2>2
<1>3. ASSUME NEW code \in Codes, Names!ResolveBare(v2, code) # {},
             Names!Key("CN", "", code) \notin DOMAIN v2
      PROVE  Names!Cardinality({k \in DOMAIN v2 : k.code = code}) = 1
  <2>1. Names!Cardinality({k \in DOMAIN v2 : k.scope # "" /\ k.code = code}) = 1
    BY <1>3 DEF Names!ResolveBare, Names!BareAlias
  <2>2. Names!Key("CN", "", code) = [scope |-> "", exchange |-> "", code |-> code]
    BY DEF Names!Key, Names!Bare
  <2>3. ASSUME NEW k \in DOMAIN v2, k.code = code PROVE k.scope # ""
    <3>1. PICK home \in Names!MarketsOf : home = v2[k] /\ k \in Home(home)
      BY DEF UniverseOK, DbOK
    <3>2. CASE home \in Names!Bare
      BY <1>3, <2>2, <2>3, <3>1, <3>2, MarketKeys
    <3>3. CASE home \notin Names!Bare
      BY <3>1, <3>3, MarketKeys, MarketsAreNamed
    <3> QED
      BY <3>2, <3>3
  <2>4. {k \in DOMAIN v2 : k.code = code} = {k \in DOMAIN v2 : k.scope # "" /\ k.code = code}
    BY <2>3
  <2> QED
    BY <2>1, <2>4
<1> QED
  BY <1>1, <1>2, <1>3 DEF Names!CodeNamesOneStock
-----------------------------------------------------------------------------
(* The sentiment of the markets: v1 is the day, v2 the digests in memory, v3 *)
(* the file, v4 what each refresh is doing and v5 the chart.                 *)

(* A day is settled by headlines taken after it.                             *)
TakenAfter(digest) == digest.final /\ digest.scheme = Sentiment!Scheme => digest.on > digest.day
AllTakenAfter(db) == \A k \in DOMAIN db : TakenAfter(db[k])

(* A refresh goes through days of markets; the headlines at hand were taken  *)
(* no earlier than the day on which it began.                                *)
Turns == Sentiment!MarketSet \X Int
AtWork(w, day) ==
  /\ DOMAIN w = {"phase", "today", "work", "calls", "count", "on"}
  /\ w.today \in Int /\ w.on \in Int /\ w.today <= day
  /\ w.work \in Seq(Turns)
  /\ w.phase = "analysing" => w.work # <<>> /\ w.today <= w.on

RefreshesOK(refresh, day) ==
  /\ DOMAIN refresh = Refreshes
  /\ \A r \in Refreshes : AtWork(refresh[r], day)

Enough == IF Lookback < DenseDays THEN Lookback ELSE DenseDays
ChartOK(chart) ==
  chart # <<>> =>
    /\ Cardinality(DOMAIN chart) >= 2
    /\ \A m \in DOMAIN chart :
         Cardinality({k \in DOMAIN chart[m] : chart[m][k].count >= MinArticles}) >= Enough

SentimentOK ==
  /\ v1 \in Nat
  /\ AllTakenAfter(v2) /\ AllTakenAfter(v3)
  /\ RefreshesOK(v4, v1)
  /\ ChartOK(v5)

-----------------------------------------------------------------------------
(* The work of a refresh is a sequence, for there are finitely many jobs.    *)
LEMMA MarketsAreFew == IsFiniteSet(Sentiment!MarketSet)
<1>1. DOMAIN Markets = 1..Len(Markets) /\ Len(Markets) \in Nat
  BY SentimentAssumption
<1>2. IsFiniteSet(1..Len(Markets))
  BY <1>1, FS_Interval
<1>3. Sentiment!MarketSet = {Markets[i] : i \in 1..Len(Markets)}
  BY <1>1 DEF Sentiment!MarketSet, Sentiment!ToSet
<1>4. Markets \in Surjection(1..Len(Markets), Sentiment!MarketSet)
  BY <1>1, <1>3, SentimentAssumption DEF Surjection
<1> QED
  BY <1>2, <1>4, FS_Surjection

LEMMA JobsAreFew ==
  ASSUME v1 \in Nat
  PROVE  Sentiment!Jobs \subseteq Turns /\ IsFiniteSet(Sentiment!Jobs)
<1>1. Sentiment!LookbackDays \subseteq Int /\ IsFiniteSet(Sentiment!LookbackDays)
  <2>1. v1 - (Lookback - 1) \in Int /\ v1 \in Int
    BY SentimentAssumption
  <2>2. IsFiniteSet((v1 - (Lookback - 1))..v1)
    BY <2>1, FS_Interval
  <2> QED
    BY <2>1, <2>2 DEF Sentiment!LookbackDays
<1>2. \A m \in Sentiment!MarketSet : Sentiment!Queue(m) \subseteq Sentiment!LookbackDays
  BY DEF Sentiment!Queue, Sentiment!Spread, Sentiment!Missing
<1>3. Sentiment!Jobs \subseteq Sentiment!MarketSet \X Sentiment!LookbackDays
  BY <1>2 DEF Sentiment!Jobs, Sentiment!Key
<1>4. IsFiniteSet(Sentiment!MarketSet \X Sentiment!LookbackDays)
  BY <1>1, MarketsAreFew, FS_Product
<1> QED
  BY <1>1, <1>3, <1>4, FS_Subset DEF Turns

LEMMA OrdersAreSequences ==
  ASSUME v1 \in Nat, NEW work \in Sentiment!Interleaved
  PROVE  work \in Seq(Turns)
<1>1. Cardinality(Sentiment!Jobs) \in Nat
  BY JobsAreFew, FS_CardinalityType
<1>2. Sentiment!Cardinality(Sentiment!Jobs) = Cardinality(Sentiment!Jobs)
  BY DEF Sentiment!Cardinality, Cardinality
<1>3. work \in [1..Cardinality(Sentiment!Jobs) -> Sentiment!Jobs]
  BY <1>2 DEF Sentiment!Interleaved
<1>4. work \in [1..Cardinality(Sentiment!Jobs) -> Turns]
  BY <1>3, JobsAreFew
<1> QED
  BY <1>1, <1>4

-----------------------------------------------------------------------------
LEMMA KeptAreTakenAfter ==
  ASSUME NEW db, AllTakenAfter(db)
  PROVE  AllTakenAfter(Sentiment!Kept(db))
BY DEF AllTakenAfter, Sentiment!Kept

LEMMA PutIsTakenAfter ==
  ASSUME NEW db, AllTakenAfter(db), NEW digest, TakenAfter(digest)
  PROVE  AllTakenAfter(Sentiment!Put(db, digest))
<1> DEFINE new == [k \in DOMAIN db \cup {Sentiment!Key(digest.market, digest.day)} |->
                     IF k = Sentiment!Key(digest.market, digest.day) THEN digest ELSE db[k]]
<1>1. AllTakenAfter(new)
  BY Zenon DEF AllTakenAfter
<1> QED
  BY <1>1, KeptAreTakenAfter DEF Sentiment!Put

LEMMA IdleIsAtWork ==
  ASSUME NEW day \in Nat
  PROVE  AtWork(Sentiment!Idle, day)
<1>1. <<>> \in Seq(Turns)
  OBVIOUS
<1> QED
  BY <1>1 DEF Sentiment!Idle, AtWork

(* What a refresh may become when it goes on.                                *)
LEMMA OneGoesOn ==
  ASSUME NEW refresh, NEW day, RefreshesOK(refresh, day), NEW r \in Refreshes, NEW w, AtWork(w, day)
  PROVE  RefreshesOK([refresh EXCEPT ![r] = w], day)
BY DEF RefreshesOK

LEMMA SentimentInit ==
  ASSUME Sentiment!Init
  PROVE  SentimentOK
<1>1. v1 = 1 /\ v3 \in OldFile /\ v2 = Sentiment!Kept(v3)
      /\ v4 = [r \in Refreshes |-> Sentiment!Idle] /\ v5 = <<>>
  BY DEF Sentiment!Init
<1>2. AllTakenAfter(v3)
  BY <1>1, SentimentAssumption DEF AllTakenAfter, TakenAfter, Sentiment!Settled
<1>3. AllTakenAfter(v2)
  BY <1>1, <1>2, KeptAreTakenAfter
<1>4. RefreshesOK(v4, v1)
  BY <1>1, IdleIsAtWork DEF RefreshesOK
<1> QED
  BY <1>1, <1>2, <1>3, <1>4 DEF SentimentOK, ChartOK

LEMMA TurnsGoOn ==
  ASSUME NEW work \in Seq(Turns), work # <<>>
  PROVE  Tail(work) \in Seq(Turns) /\ Head(work) \in Turns /\ Head(work)[2] \in Int
BY DEF Turns

LEMMA RefreshStarts ==
  ASSUME SentimentOK, NEW r \in Refreshes, Sentiment!Start(r)
  PROVE  SentimentOK'
<1>1. PICK work \in Sentiment!Interleaved :
        v4' = [v4 EXCEPT ![r] = [phase |-> "working", today |-> v1, work |-> work,
                                 calls |-> 0, count |-> 0, on |-> 0]]
  BY DEF Sentiment!Start
<1> DEFINE w == [phase |-> "working", today |-> v1, work |-> work, calls |-> 0, count |-> 0, on |-> 0]
<1>3. work \in Seq(Turns)
  BY OrdersAreSequences DEF SentimentOK
<1>4. AtWork(w, v1)
  BY <1>3 DEF AtWork, SentimentOK
<1> HIDE DEF w
<1>5. RefreshesOK(v4', v1)
  BY <1>1, <1>4, OneGoesOn DEF SentimentOK, w
<1>6. UNCHANGED <<v1, v2, v3, v5>>
  BY DEF Sentiment!Start
<1> QED
  BY <1>5, <1>6 DEF SentimentOK

LEMMA RefreshGathers ==
  ASSUME SentimentOK, NEW r \in Refreshes, Sentiment!Gather(r)
  PROVE  SentimentOK'
<1> DEFINE w == v4[r]
<1>0. AtWork(w, v1) /\ v1 \in Nat
  BY DEF SentimentOK, RefreshesOK
<1>1. \/ v4' = [v4 EXCEPT ![r].work = Tail(@)]
      \/ \E n : v4' = [v4 EXCEPT ![r] = Sentiment!Headlines(@, n)]
  BY DEF Sentiment!Gather
<1>2. w.phase = "working" /\ w.work # <<>>
  BY DEF Sentiment!Gather, Sentiment!Finished
<1>6. RefreshesOK(v4', v1)
  <2>1. CASE v4' = [v4 EXCEPT ![r].work = Tail(@)]
    <3>1. Tail(w.work) \in Seq(Turns)
      BY <1>0, <1>2, TurnsGoOn DEF AtWork
    <3> DEFINE x == [w EXCEPT !.work = Tail(@)]
    <3>2. AtWork(x, v1) /\ v4' = [v4 EXCEPT ![r] = x]
      BY <1>0, <1>2, <2>1, <3>1 DEF AtWork
    <3> HIDE DEF x
    <3>3. RefreshesOK([v4 EXCEPT ![r] = x], v1)
      BY <3>2, OneGoesOn DEF SentimentOK
    <3> QED
      BY <3>2, <3>3, Zenon
  <2>2. CASE \E n : v4' = [v4 EXCEPT ![r] = Sentiment!Headlines(@, n)]
    <3>1. PICK n : v4' = [v4 EXCEPT ![r] = Sentiment!Headlines(w, n)]
      BY <2>2
    <3>2. AtWork(Sentiment!Headlines(w, n), v1)
      BY <1>0, <1>2 DEF AtWork, Sentiment!Headlines
    <3>3. RefreshesOK([v4 EXCEPT ![r] = Sentiment!Headlines(w, n)], v1)
      BY <3>2, OneGoesOn DEF SentimentOK
    <3> QED
      BY <3>1, <3>3, Zenon
  <2> QED
    BY <1>1, <2>1, <2>2
<1>7. UNCHANGED <<v1, v2, v3, v5>>
  BY DEF Sentiment!Gather
<1> QED
  BY <1>6, <1>7 DEF SentimentOK

LEMMA NextTurn ==
  ASSUME SentimentOK, NEW r \in Refreshes, v4[r].phase = "analysing"
  PROVE  RefreshesOK(Sentiment!Continue(r), v1)
<1> DEFINE w == v4[r]
<1>0. AtWork(w, v1)
  BY DEF SentimentOK, RefreshesOK
<1>1. Sentiment!Continue(r) = [v4 EXCEPT ![r] = [w EXCEPT !.phase = "working", !.work = Tail(@)]]
  BY DEF Sentiment!Continue, SentimentOK, RefreshesOK
<1>2. Tail(w.work) \in Seq(Turns)
  BY <1>0, TurnsGoOn DEF AtWork
<1>3. AtWork([w EXCEPT !.phase = "working", !.work = Tail(@)], v1)
  BY <1>0, <1>2 DEF AtWork
<1> DEFINE x == [w EXCEPT !.phase = "working", !.work = Tail(@)]
<1>4. AtWork(x, v1) /\ Sentiment!Continue(r) = [v4 EXCEPT ![r] = x]
  BY <1>1, <1>3
<1> HIDE DEF x
<1>5. RefreshesOK([v4 EXCEPT ![r] = x], v1)
  BY <1>4, OneGoesOn DEF SentimentOK
<1> QED
  BY <1>4, <1>5, Zenon

LEMMA RefreshAnalyses ==
  ASSUME SentimentOK, NEW r \in Refreshes, NEW value, Sentiment!Analysed(r, value)
  PROVE  SentimentOK'
<1> DEFINE w == v4[r]
<1>0. AtWork(w, v1) /\ w.phase = "analysing"
  BY DEF SentimentOK, RefreshesOK, Sentiment!Analysed
<1>1. Head(w.work)[2] \in Int
  BY <1>0, TurnsGoOn DEF AtWork
<1> DEFINE d == Sentiment!Digest(r, value)
<1>2. d.day = Head(w.work)[2] /\ d.on = w.on /\ (d.final => Head(w.work)[2] < w.today)
  BY DEF Sentiment!Digest, Sentiment!IsFinal
<1> HIDE DEF d
<1>3. TakenAfter(d)
  BY <1>0, <1>1, <1>2 DEF TakenAfter, AtWork
<1>4. v2' = Sentiment!Put(v2, d) /\ v3' = v2' /\ v4' = Sentiment!Continue(r) /\ v1' = v1 /\ v5' = v5
  BY DEF Sentiment!Analysed, d
<1>5. AllTakenAfter(v2')
  BY <1>3, <1>4, PutIsTakenAfter DEF SentimentOK
<1>6. RefreshesOK(v4', v1)
  BY <1>0, <1>4, NextTurn
<1> QED
  BY <1>4, <1>5, <1>6 DEF SentimentOK

LEMMA RefreshFails ==
  ASSUME SentimentOK, NEW r \in Refreshes, Sentiment!AnalysisFails(r) \/ Sentiment!WriteFails(r)
  PROVE  SentimentOK'
<1>1. UNCHANGED <<v1, v2, v3, v5>>
  BY DEF Sentiment!AnalysisFails, Sentiment!WriteFails
<1>2. RefreshesOK(v4', v1)
  <2>1. CASE Sentiment!AnalysisFails(r)
    BY <2>1, NextTurn DEF Sentiment!AnalysisFails
  <2>2. CASE Sentiment!WriteFails(r)
    BY <2>2, IdleIsAtWork, OneGoesOn DEF Sentiment!WriteFails, SentimentOK
  <2> QED
    BY <2>1, <2>2
<1> QED
  BY <1>1, <1>2 DEF SentimentOK

LEMMA ChartIsDense ==
  ASSUME SentimentOK, NEW r \in Refreshes, Sentiment!Publish(r)
  PROVE  ChartOK(v5')
<1> DEFINE ready == {m \in Sentiment!MarketSet : Sentiment!Ready(m)}
<1>1. v5' = IF Sentiment!Cardinality(ready) < 2 THEN v5
            ELSE [m \in ready |-> [k \in Sentiment!DaysOf(m) |-> v2[k]]]
  BY DEF Sentiment!Publish
<1>2. \A S : Sentiment!Cardinality(S) = Cardinality(S)
  BY DEF Sentiment!Cardinality, Cardinality
<1>3. Cardinality(ready) \in Nat
  BY MarketsAreFew, FS_Subset, FS_CardinalityType
<1>4. CASE Cardinality(ready) < 2
  BY <1>1, <1>2, <1>4 DEF SentimentOK
<1>5. CASE ~(Cardinality(ready) < 2)
  <2>1. v5' = [m \in ready |-> [k \in Sentiment!DaysOf(m) |-> v2[k]]]
    BY <1>1, <1>2, <1>5
  <2>2. DOMAIN v5' = ready /\ Cardinality(ready) >= 2
    BY <1>3, <1>5, <2>1
  <2>3. ASSUME NEW m \in ready
        PROVE  Cardinality({k \in DOMAIN v5'[m] : v5'[m][k].count >= MinArticles}) >= Enough
    <3>1. v5'[m] = [k \in Sentiment!DaysOf(m) |-> v2[k]]
      BY <2>1
    <3>2. {k \in DOMAIN v5'[m] : v5'[m][k].count >= MinArticles} =
            {k \in Sentiment!DaysOf(m) : Sentiment!Dense(k)}
      BY <3>1 DEF Sentiment!Dense
    <3>3. Cardinality({k \in Sentiment!DaysOf(m) : Sentiment!Dense(k)}) >= Enough
      BY <1>2 DEF Sentiment!Ready, Enough
    <3> QED
      BY <3>2, <3>3
  <2> QED
    BY <2>2, <2>3 DEF ChartOK
<1> QED
  BY <1>4, <1>5

LEMMA RefreshPublishes ==
  ASSUME SentimentOK, NEW r \in Refreshes, Sentiment!Publish(r)
  PROVE  SentimentOK'
<1>1. UNCHANGED <<v1, v2, v3>> /\ v4' = [v4 EXCEPT ![r] = Sentiment!Idle]
  BY DEF Sentiment!Publish
<1>2. RefreshesOK(v4', v1)
  BY <1>1, IdleIsAtWork, OneGoesOn DEF SentimentOK
<1> QED
  BY <1>1, <1>2, ChartIsDense DEF SentimentOK

LEMMA DayEnds ==
  ASSUME SentimentOK, Sentiment!Midnight
  PROVE  SentimentOK'
<1>1. v1' = v1 + 1 /\ UNCHANGED <<v2, v3, v4, v5>>
  BY DEF Sentiment!Midnight
<1>2. v1' \in Nat /\ RefreshesOK(v4, v1')
  BY <1>1 DEF SentimentOK, RefreshesOK, AtWork
<1> QED
  BY <1>1, <1>2 DEF SentimentOK

LEMMA BotRestarts ==
  ASSUME SentimentOK, Sentiment!Restart
  PROVE  SentimentOK'
<1>1. v2' = Sentiment!Kept(v3) /\ v3' = v2' /\ v4' = [r \in Refreshes |-> Sentiment!Idle]
      /\ UNCHANGED <<v1, v5>>
  BY DEF Sentiment!Restart
<1>2. AllTakenAfter(v2')
  BY <1>1, KeptAreTakenAfter DEF SentimentOK
<1>3. RefreshesOK(v4', v1)
  BY <1>1, IdleIsAtWork DEF RefreshesOK, SentimentOK
<1> QED
  BY <1>1, <1>2, <1>3 DEF SentimentOK

LEMMA SentimentGoesOn ==
  ASSUME SentimentOK, [Sentiment!Next]_(Sentiment!vars)
  PROVE  SentimentOK'
<1>1. CASE Sentiment!Next
  BY <1>1, RefreshStarts, RefreshGathers, RefreshAnalyses, RefreshFails, RefreshPublishes, DayEnds,
     BotRestarts DEF Sentiment!Next
<1>2. CASE UNCHANGED Sentiment!vars
  BY <1>2 DEF Sentiment!vars, SentimentOK
<1> QED
  BY <1>1, <1>2

LEMMA SentimentTells ==
  ASSUME SentimentOK
  PROVE  Sentiment!SettledAfterTheDay
<1>1. \A k \in DOMAIN v2 : Sentiment!Settled(v2, k) => v2[k].on > v2[k].day
  BY DEF SentimentOK, AllTakenAfter, TakenAfter, Sentiment!Settled
<1>2. \A S : Sentiment!Cardinality(S) = Cardinality(S)
  BY DEF Sentiment!Cardinality, Cardinality
<1> QED
  BY <1>1, <1>2 DEF SentimentOK, ChartOK, Enough, Sentiment!SettledAfterTheDay
-----------------------------------------------------------------------------
(* The prefilter: v1 is the clock, v2 the memory of events, v3 its file, v6  *)
(* what is claimed in the cycle, v8 the offer, v10 when a report used an     *)
(* event and v11 the events whose mark was lost.                             *)

(* What a later memory keeps of an earlier one: the marks of its events.     *)
Keeps(memory, later) ==
  \A k \in DOMAIN memory : k \in DOMAIN later /\ later[k].reported = memory[k].reported

LEMMA KeepsAreJoined ==
  ASSUME NEW a, NEW b, NEW c, Keeps(a, b), Keeps(b, c)
  PROVE  Keeps(a, c)
BY DEF Keeps

LEMMA ObservedKeeps ==
  ASSUME NEW memory, NEW article
  PROVE  Keeps(memory, Filter!Observed(memory, article))
<1> DEFINE key == Filter!EventOf(memory, article)
           old == IF key \in DOMAIN memory THEN memory[key].reported ELSE Filter!Never
           new == [k \in DOMAIN memory \cup {key} |->
                     IF k = key THEN [seen |-> v1, reported |-> old] ELSE memory[k]]
<1> HIDE DEF key
<1>1. Keeps(memory, new)
  BY DEF Keeps
<1> QED
  BY <1>1 DEF Filter!Observed, key

(* The event of a recap is a recap, that of another article is not.          *)
LEMMA EventKind ==
  ASSUME NEW memory, NEW article
  PROVE  Filter!IsRecap(Filter!EventOf(memory, article)) <=> article.recap # Filter!NoIndex
<1>1. CASE article.recap # Filter!NoIndex
  BY <1>1 DEF Filter!EventOf, Filter!RecapKey, Filter!IsRecap
<1>2. CASE article.recap = Filter!NoIndex
  <2> DEFINE found == Filter!Matching(memory, article.text)
  <2>1. ~Filter!IsRecap(Filter!TextKey(article.text))
    BY DEF Filter!TextKey, Filter!IsRecap
  <2>2. \A k \in found : ~Filter!IsRecap(k)
    BY <2>1, Zenon DEF Filter!Matching
  <2>3. Filter!EventOf(memory, article) =
          IF found = {} THEN Filter!TextKey(article.text) ELSE CHOOSE k \in found : TRUE
    BY <1>2 DEF Filter!EventOf
  <2> HIDE DEF found
  <2> QED
    BY <1>2, <2>1, <2>2, <2>3
<1> QED
  BY <1>1, <1>2

AsRemembered(memory, feed, f, n) ==
  f[n] = IF n = 0 THEN memory ELSE Filter!Observed(f[n - 1], feed[n])
RemembersTo(memory, feed, m, f) ==
  f = [n \in 0..m |-> IF n = 0 THEN memory ELSE Filter!Observed(f[n - 1], feed[n])]

LEMMA RememberedValues ==
  ASSUME NEW memory, NEW feed, NEW m \in Nat, NEW f, RemembersTo(memory, feed, m, f)
  PROVE  \A n \in 0..m : AsRemembered(memory, feed, f, n)
<1> DEFINE g == [n \in 0..m |-> IF n = 0 THEN memory ELSE Filter!Observed(f[n - 1], feed[n])]
<1>1. f = g
  BY DEF RemembersTo
<1>2. \A n \in 0..m : g[n] = IF n = 0 THEN memory ELSE Filter!Observed(f[n - 1], feed[n])
  OBVIOUS
<1> HIDE DEF g
<1> QED
  BY <1>1, <1>2 DEF AsRemembered

LEMMA RemembersFrom ==
  ASSUME NEW memory, NEW feed, NEW m, NEW f, f = [n \in 0..m |-> f[n]],
         \A n \in 0..m : AsRemembered(memory, feed, f, n)
  PROVE  RemembersTo(memory, feed, m, f)
<1>1. [n \in 0..m |-> f[n]] =
        [n \in 0..m |-> IF n = 0 THEN memory ELSE Filter!Observed(f[n - 1], feed[n])]
  BY DEF AsRemembered
<1> QED
  BY <1>1 DEF RemembersTo

LEMMA RemembersExists ==
  ASSUME NEW memory, NEW feed, NEW m \in Nat
  PROVE  \E f : RemembersTo(memory, feed, m, f)
<1> DEFINE bad == {k \in Nat : ~\E f : RemembersTo(memory, feed, k, f)}
<1> SUFFICES ASSUME bad # {} PROVE FALSE
  OBVIOUS
<1>1. PICK k \in bad : \A j \in bad : k <= j
  BY SmallestNumber
<1>2. k # 0
  <2> DEFINE g == [n \in 0..0 |-> memory]
  <2>1. \A n \in 0..0 : AsRemembered(memory, feed, g, n)
    BY DEF AsRemembered
  <2>2. g = [n \in 0..0 |-> g[n]]
    OBVIOUS
  <2> HIDE DEF g
  <2>3. RemembersTo(memory, feed, 0, g)
    BY <2>1, <2>2, RemembersFrom, Zenon
  <2> QED
    BY <2>3
<1>3. PICK last \in Nat : last = k - 1 /\ last \notin bad
  BY <1>1, <1>2
<1>4. PICK f : RemembersTo(memory, feed, last, f)
  BY <1>3
<1> DEFINE new == Filter!Observed(f[last], feed[k])
           g == [n \in 0..k |-> IF n = k THEN new ELSE f[n]]
<1> HIDE DEF new
<1>5. ASSUME NEW n \in 0..k PROVE AsRemembered(memory, feed, g, n)
  <2>1. CASE n = k
    <3>1. g[k] = new /\ g[k - 1] = f[last]
      BY <1>2, <1>3
    <3> QED
      BY <1>2, <2>1, <3>1 DEF new, AsRemembered
  <2>2. CASE n # k
    <3>1. n \in 0..last /\ g[n] = f[n] /\ (n # 0 => g[n - 1] = f[n - 1])
      BY <1>3, <2>2
    <3>2. AsRemembered(memory, feed, f, n)
      BY <1>4, <3>1, RememberedValues
    <3> QED
      BY <3>1, <3>2 DEF AsRemembered
  <2> QED
    BY <2>1, <2>2
<1>6. g = [n \in 0..k |-> g[n]]
  OBVIOUS
<1> HIDE DEF g
<1>7. \A n \in 0..k : AsRemembered(memory, feed, g, n)
  BY <1>5
<1>8. RemembersTo(memory, feed, k, g)
  BY <1>6, <1>7, RemembersFrom, Zenon
<1> QED
  BY <1>8

LEMMA RememberKeeps ==
  ASSUME NEW memory, NEW feed, NEW m \in Nat, NEW f, RemembersTo(memory, feed, m, f)
  PROVE  Keeps(memory, f[m])
<1> DEFINE bad == {n \in Nat : n \in 0..m /\ ~Keeps(memory, f[n])}
<1> SUFFICES ASSUME bad # {} PROVE FALSE
  OBVIOUS
<1>1. PICK k \in bad : \A j \in bad : k <= j
  BY SmallestNumber
<1>2. AsRemembered(memory, feed, f, k)
  BY <1>1, RememberedValues
<1>3. CASE k = 0
  BY <1>1, <1>2, <1>3 DEF AsRemembered, Keeps
<1>4. CASE k # 0
  <2>1. k - 1 \in 0..m /\ k - 1 \in Nat /\ k - 1 \notin bad
    BY <1>1, <1>4
  <2>2. Keeps(memory, f[k - 1])
    BY <2>1
  <2>3. f[k] = Filter!Observed(f[k - 1], feed[k])
    BY <1>2, <1>4 DEF AsRemembered
  <2>4. Keeps(memory, f[k])
    BY <2>2, <2>3, ObservedKeeps, KeepsAreJoined
  <2> QED
    BY <1>1, <2>4
<1> QED
  BY <1>3, <1>4

(* A feed is read to its end: the marks of the memory stay, and every        *)
(* article has an event of its kind.                                         *)
KeysOf(keys, feed) ==
  /\ DOMAIN keys = 1..Len(feed)
  /\ \A n \in 1..Len(feed) : Filter!IsRecap(keys[n]) <=> feed[n].recap # Filter!NoIndex

LEMMA RememberedFeed ==
  ASSUME NEW memory, NEW feed, Len(feed) \in Nat
  PROVE  /\ Keeps(memory, Filter!Remember(memory, feed).memory)
         /\ KeysOf(Filter!Remember(memory, feed).keys, feed)
<1> DEFINE f == CHOOSE g : RemembersTo(memory, feed, Len(feed), g)
           keys == [n \in 1..Len(feed) |-> Filter!EventOf(f[n - 1], feed[n])]
<1>1. RemembersTo(memory, feed, Len(feed), f)
  BY RemembersExists, Zenon
<1>2. Filter!Remember(memory, feed) = [memory |-> f[Len(feed)], keys |-> keys]
  BY DEF Filter!Remember, RemembersTo
<1> HIDE DEF f
<1>3. Keeps(memory, f[Len(feed)])
  BY <1>1, RememberKeeps
<1>4. KeysOf(keys, feed)
  BY EventKind DEF KeysOf
<1> HIDE DEF keys
<1> QED
  BY <1>2, <1>3, <1>4

-----------------------------------------------------------------------------
(* The gates *)

Better(M, i, j) == M[i] > M[j] \/ (M[i] = M[j] /\ i <= j)
BestSoFar(F, M, m, i) == i \in F /\ i <= m /\ \A j \in F : j <= m => Better(M, i, j)

(* Of finitely many places, one has the greatest value, the first of several. *)
LEMMA BestExists ==
  ASSUME NEW n \in Nat, NEW F, F \subseteq 1..n, F # {}, NEW M \in [1..n -> Int]
  PROVE  \E i \in F : \A j \in F : Better(M, i, j)
<1> DEFINE bad == {m \in Nat : m <= n /\ (\E i \in F : i <= m) /\ ~\E i \in F : BestSoFar(F, M, m, i)}
<1>1. bad = {}
  <2> SUFFICES ASSUME bad # {} PROVE FALSE
    OBVIOUS
  <2>1. PICK m \in bad : \A j \in bad : m <= j
    BY SmallestNumber
  <2>2. m \in Nat /\ m <= n /\ (\E i \in F : i <= m) /\ \A i \in F : ~BestSoFar(F, M, m, i)
    BY <2>1
  <2>3. m # 0
    BY <2>2
  <2>4. m - 1 \in Nat /\ m - 1 <= n /\ m - 1 \notin bad
    <3> HIDE DEF bad
    <3>1. m - 1 \in Nat /\ m - 1 <= n /\ ~(m <= m - 1)
      BY <2>2, <2>3
    <3> QED
      BY <2>1, <3>1
  <2>5. CASE \A i \in F : ~(i <= m - 1)
    <3>1. m \in F /\ \A j \in F : j <= m => j = m
      BY <2>2, <2>3, <2>5
    <3>2. BestSoFar(F, M, m, m)
      BY <3>1 DEF BestSoFar, Better
    <3> QED
      BY <2>2, <3>1, <3>2
  <2>6. CASE \E i \in F : i <= m - 1
    <3> DEFINE last == m - 1
    <3>0. last \in Nat /\ last <= n /\ (\E i \in F : i <= last) /\ last \notin bad
      BY <2>4, <2>6, Zenon
    <3> HIDE DEF last
    <3>a. PICK i \in F : BestSoFar(F, M, last, i)
      BY <3>0, Zenon
    <3>1. BestSoFar(F, M, m - 1, i)
      BY <3>a, Zenon DEF last
    <3>2. i \in 1..n /\ M[i] \in Int /\ i <= m - 1 /\ \A j \in F : j <= m - 1 => Better(M, i, j)
      BY <3>1 DEF BestSoFar
    <3>3. CASE m \notin F
      <4>1. BestSoFar(F, M, m, i)
        BY <2>2, <3>2, <3>3 DEF BestSoFar
      <4> QED
        BY <2>2, <4>1
    <3>4. CASE m \in F /\ M[m] > M[i]
      <4>1. BestSoFar(F, M, m, m)
        <5>1. ASSUME NEW j \in F, j <= m PROVE Better(M, m, j)
          <6>1. j = m \/ j <= m - 1
            BY <2>2, <5>1
          <6>2. M[j] \in Int /\ M[m] \in Int
            BY <3>4
          <6> QED
            BY <3>2, <3>4, <6>1, <6>2 DEF Better
        <5> QED
          BY <2>2, <3>4, <5>1 DEF BestSoFar
      <4> QED
        BY <2>2, <3>4, <4>1
    <3>5. CASE m \in F /\ ~(M[m] > M[i])
      <4>1. Better(M, i, m)
        BY <2>2, <3>2, <3>5 DEF Better
      <4>2. BestSoFar(F, M, m, i)
        BY <2>2, <3>2, <4>1 DEF BestSoFar
      <4> QED
        BY <2>2, <4>2
    <3> QED
      BY <3>3, <3>4, <3>5
  <2> QED
    BY <2>5, <2>6
<1>2. n \in Nat /\ n <= n /\ \E i \in F : i <= n
  <2>1. PICK i \in F : TRUE
    OBVIOUS
  <2>2. i <= n
    BY <2>1
  <2> QED
    BY <2>2
<1>3. PICK i \in F : BestSoFar(F, M, n, i)
  BY <1>1, <1>2, Zenon
<1>4. \A j \in F : j <= n
  OBVIOUS
<1> QED
  BY <1>3, <1>4 DEF BestSoFar

(* The articles of an event that may pass.                                   *)
Shut(memory, excluded, claimed, k) == Filter!RecentlyReported(memory, k) \/ k \in excluded \cup claimed
Gate(memory, feed, keys, excluded, claimed, i) ==
  /\ ~Shut(memory, excluded, claimed, keys[i])
  /\ feed[i].recap = Filter!NoIndex \/ Filter!NewestRecap(feed, keys, i)
OfEvent(keys, k) == {i \in DOMAIN keys : keys[i] = k}
InTime(feed, i) == feed[i].published = Filter!Unknown \/ feed[i].published >= Filter!Floor
FirstOf(feed, keys, memory, excluded, claimed, i) ==
  /\ Gate(memory, feed, keys, excluded, claimed, i)
  /\ \A j \in 1..(i - 1) : keys[j] = keys[i] => ~Gate(memory, feed, keys, excluded, claimed, j)

LEMMA PassedDef ==
  ASSUME NEW memory, NEW feed, NEW keys, NEW excluded, NEW claimed
  PROVE  Filter!Passed(memory, feed, keys, excluded, claimed) =
           {i \in DOMAIN feed : FirstOf(feed, keys, memory, excluded, claimed, i)}
BY DEF Filter!Passed, FirstOf, Gate, Shut

FeedOK(feed) ==
  /\ Len(feed) \in Nat /\ DOMAIN feed = 1..Len(feed)
  /\ \A i \in 1..Len(feed) : feed[i].published \in Int

(* At most one article of an event passes.                                   *)
LEMMA OneOfEach ==
  ASSUME NEW memory, NEW feed, FeedOK(feed), NEW keys, NEW excluded, NEW claimed,
         NEW i \in 1..Len(feed), NEW j \in 1..Len(feed), keys[i] = keys[j],
         FirstOf(feed, keys, memory, excluded, claimed, i),
         FirstOf(feed, keys, memory, excluded, claimed, j)
  PROVE  i = j
<1>1. ~(i < j)
  BY DEF FirstOf, FeedOK
<1>2. ~(j < i)
  BY DEF FirstOf, FeedOK
<1> QED
  BY <1>1, <1>2 DEF FeedOK

(* Where some article of an event may pass, the first of them does.          *)
LEMMA FirstPasses ==
  ASSUME NEW memory, NEW feed, FeedOK(feed), NEW keys, NEW excluded, NEW claimed,
         NEW i \in 1..Len(feed), Gate(memory, feed, keys, excluded, claimed, i)
  PROVE  \E j \in 1..Len(feed) : keys[j] = keys[i] /\ FirstOf(feed, keys, memory, excluded, claimed, j)
<1> DEFINE T == {j \in 1..Len(feed) : keys[j] = keys[i] /\ Gate(memory, feed, keys, excluded, claimed, j)}
<1>1. T \subseteq Nat /\ T # {}
  BY DEF FeedOK
<1>2. PICK j \in T : \A k \in T : j <= k
  BY <1>1, SmallestNumber
<1>3. ASSUME NEW k \in 1..(j - 1), keys[k] = keys[j], Gate(memory, feed, keys, excluded, claimed, k)
      PROVE  FALSE
  <2>1. k \in 1..Len(feed) /\ k < j /\ keys[k] = keys[i]
    BY <1>2, <1>3 DEF FeedOK
  <2> QED
    BY <1>2, <1>3, <2>1
<1> QED
  BY <1>2, <1>3 DEF FirstOf

(* Of the recaps of an event that are in time, one is the newest.            *)
Recaps(feed, keys, k) == {i \in 1..Len(feed) : feed[i].recap # Filter!NoIndex /\ keys[i] = k /\ InTime(feed, i)}

LEMMA NewestIsThere ==
  ASSUME v1 \in Nat, NEW feed, FeedOK(feed), NEW keys, NEW k, Recaps(feed, keys, k) # {}
  PROVE  \E i \in Recaps(feed, keys, k) : Filter!NewestRecap(feed, keys, i)
<1> DEFINE F == Recaps(feed, keys, k)
           M == [i \in 1..Len(feed) |-> Filter!Moment(feed[i])]
<1>1. M \in [1..Len(feed) -> Int]
  <2>1. Filter!Floor \in Int
    BY FilterAssumption DEF Filter!Floor
  <2>2. \A i \in 1..Len(feed) : Filter!Moment(feed[i]) \in Int
    BY <2>1 DEF Filter!Moment, FeedOK
  <2> QED
    BY <2>2
<1>2. F \subseteq 1..Len(feed) /\ F # {} /\ Len(feed) \in Nat
  BY DEF Recaps, FeedOK
<1>a. \A i \in 1..Len(feed) : M[i] = Filter!Moment(feed[i])
  OBVIOUS
<1> HIDE DEF F, M
<1>3. PICK i \in F : \A j \in F : Better(M, i, j)
  BY <1>1, <1>2, BestExists
<1>4. ASSUME NEW j \in 1..Len(feed), feed[j].recap # Filter!NoIndex, keys[j] = keys[i], InTime(feed, j)
      PROVE  \/ Filter!Moment(feed[i]) > Filter!Moment(feed[j])
             \/ Filter!Moment(feed[i]) = Filter!Moment(feed[j]) /\ i <= j
  <2>1. j \in F
    BY <1>3, <1>4 DEF F, Recaps
  <2> QED
    BY <1>2, <1>3, <1>a, <2>1 DEF Better
<1>5. i \in 1..Len(feed) /\ feed[i].recap # Filter!NoIndex /\ InTime(feed, i)
  BY <1>3 DEF F, Recaps
<1>6. Filter!NewestRecap(feed, keys, i)
  BY <1>4, <1>5 DEF Filter!NewestRecap, InTime, FeedOK
<1> QED
  BY <1>3, <1>6 DEF F

(* What the gates let pass of an event.                                      *)
New(memory, feed, keys, excluded, claimed, k) ==
  /\ ~Shut(memory, excluded, claimed, k)
  /\ Filter!IsRecap(k) => \E i \in OfEvent(keys, k) : InTime(feed, i)

LEMMA NothingElsePasses ==
  ASSUME NEW memory, NEW feed, FeedOK(feed), NEW keys, KeysOf(keys, feed), NEW excluded, NEW claimed,
         NEW i \in 1..Len(feed), Gate(memory, feed, keys, excluded, claimed, i)
  PROVE  New(memory, feed, keys, excluded, claimed, keys[i])
<1>1. ~Shut(memory, excluded, claimed, keys[i])
  BY DEF Gate
<1>2. ASSUME Filter!IsRecap(keys[i]) PROVE \E j \in OfEvent(keys, keys[i]) : InTime(feed, j)
  <2>1. Filter!NewestRecap(feed, keys, i)
    BY <1>2 DEF Gate, KeysOf
  <2>2. InTime(feed, i) /\ i \in OfEvent(keys, keys[i])
    BY <2>1 DEF Filter!NewestRecap, InTime, OfEvent, KeysOf
  <2> QED
    BY <2>2
<1> QED
  BY <1>1, <1>2 DEF New

LEMMA NewPasses ==
  ASSUME v1 \in Nat, NEW memory, NEW feed, FeedOK(feed), NEW keys, KeysOf(keys, feed), NEW excluded,
         NEW claimed, NEW n \in 1..Len(feed), New(memory, feed, keys, excluded, claimed, keys[n])
  PROVE  \E i \in 1..Len(feed) : keys[i] = keys[n] /\ Gate(memory, feed, keys, excluded, claimed, i)
<1> DEFINE k == keys[n]
<1>1. ~Shut(memory, excluded, claimed, k)
  BY DEF New
<1>2. CASE ~Filter!IsRecap(k)
  <2>1. feed[n].recap = Filter!NoIndex
    BY <1>2 DEF KeysOf
  <2> QED
    BY <1>1, <2>1 DEF Gate
<1>3. CASE Filter!IsRecap(k)
  <2>1. PICK i \in OfEvent(keys, k) : InTime(feed, i)
    BY <1>3 DEF New
  <2>2. i \in 1..Len(feed) /\ keys[i] = k /\ feed[i].recap # Filter!NoIndex
    BY <1>3, <2>1 DEF OfEvent, KeysOf
  <2>3. Recaps(feed, keys, k) # {}
    BY <2>1, <2>2 DEF Recaps
  <2>4. PICK j \in Recaps(feed, keys, k) : Filter!NewestRecap(feed, keys, j)
    BY <2>3, NewestIsThere
  <2>5. j \in 1..Len(feed) /\ keys[j] = k
    BY <2>4 DEF Recaps
  <2> QED
    BY <1>1, <2>4, <2>5 DEF Gate
<1> QED
  BY <1>2, <1>3

-----------------------------------------------------------------------------
(* The order of an offer *)

AnOrder(p, P) ==
  /\ DOMAIN p = 1..Cardinality(P) /\ Cardinality(P) \in Nat
  /\ \A n \in DOMAIN p : p[n] \in P
  /\ \A i \in P : \E n \in DOMAIN p : p[n] = i
  /\ \A m, n \in DOMAIN p : p[m] = p[n] => m = n

LEMMA OrdersAreOrders ==
  ASSUME NEW P, IsFiniteSet(P), NEW p \in Filter!Orders(P)
  PROVE  AnOrder(p, P) /\ Filter!ToSet(p) = P /\ Len(p) = Cardinality(P)
<1>1. Cardinality(P) \in Nat
  BY FS_CardinalityType
<1>2. Filter!Cardinality(P) = Cardinality(P)
  BY DEF Filter!Cardinality, Cardinality
<1>3. p \in [1..Cardinality(P) -> P] /\ Filter!ToSet(p) = P
  BY <1>2 DEF Filter!Orders
<1>4. \A i \in P : \E n \in DOMAIN p : p[n] = i
  BY <1>3 DEF Filter!ToSet
<1>5. p \in Surjection(1..Cardinality(P), P)
  BY <1>3, <1>4 DEF Surjection
<1>6. IsFiniteSet(1..Cardinality(P)) /\ Cardinality(1..Cardinality(P)) = Cardinality(P)
  BY <1>1, FS_Interval
<1>7. p \in Injection(1..Cardinality(P), P)
  BY <1>5, <1>6, FS_SurjSameCardinalityImpliesInj
<1>8. Len(p) = Cardinality(P)
  BY <1>1, <1>3
<1> QED
  BY <1>1, <1>3, <1>4, <1>7, <1>8 DEF AnOrder, Injection, IsInjective

LEMMA ReturnedIsAnOrder ==
  ASSUME NEW P, IsFiniteSet(P), NEW ranked \in Filter!Orders(P), NEW rows \in Filter!Returned(ranked)
  PROVE  AnOrder(rows, P)
<1>1. AnOrder(ranked, P) /\ Filter!ToSet(ranked) = P
  BY OrdersAreOrders
<1>2. rows = ranked \/ rows \in Filter!Orders(Filter!ToSet(ranked))
  BY DEF Filter!Returned, Filter!Explored
<1> QED
  BY <1>1, <1>2, OrdersAreOrders

OfferedOnce(memory, feed, keys, excluded, claimed, rows, k) ==
  Cardinality({n \in DOMAIN rows : rows[n] \in OfEvent(keys, k)}) =
    IF New(memory, feed, keys, excluded, claimed, k) THEN 1 ELSE 0

(* Of an event the offer holds one article when the event is new, and none   *)
(* otherwise.                                                                *)
LEMMA EachIsOfferedOnce ==
  ASSUME v1 \in Nat, NEW memory, NEW feed, FeedOK(feed), NEW keys, KeysOf(keys, feed), NEW excluded,
         NEW claimed, NEW P, P = Filter!Passed(memory, feed, keys, excluded, claimed),
         NEW rows, AnOrder(rows, P), NEW at \in 1..Len(feed)
  PROVE  OfferedOnce(memory, feed, keys, excluded, claimed, rows, keys[at])
<1> DEFINE k == keys[at]
           there == {n \in DOMAIN rows : rows[n] \in OfEvent(keys, k)}
<1>0. \A i : i \in P <=> i \in 1..Len(feed) /\ FirstOf(feed, keys, memory, excluded, claimed, i)
  BY PassedDef DEF FeedOK
<1>1. CASE New(memory, feed, keys, excluded, claimed, k)
  <2>1. PICK i \in 1..Len(feed) : keys[i] = k /\ Gate(memory, feed, keys, excluded, claimed, i)
    BY <1>1, NewPasses
  <2>2. PICK j \in 1..Len(feed) : keys[j] = k /\ FirstOf(feed, keys, memory, excluded, claimed, j)
    BY <2>1, FirstPasses
  <2>3. j \in P /\ j \in OfEvent(keys, k)
    BY <1>0, <2>2 DEF OfEvent, KeysOf
  <2>4. \A m \in P : m \in OfEvent(keys, k) => m = j
    BY <1>0, <2>2, OneOfEach DEF OfEvent
  <2>5. PICK n \in DOMAIN rows : rows[n] = j
    BY <2>3 DEF AnOrder
  <2>6. there = {n}
    <3>1. n \in there
      BY <2>3, <2>5
    <3>2. \A m \in there : m = n
      BY <2>4, <2>5 DEF AnOrder
    <3> QED
      BY <3>1, <3>2
  <2>7. Cardinality({n}) = 1
    BY FS_Singleton
  <2> QED
    BY <1>1, <2>6, <2>7 DEF OfferedOnce
<1>2. CASE ~New(memory, feed, keys, excluded, claimed, k)
  <2>1. \A i \in P : i \notin OfEvent(keys, k)
    BY <1>0, <1>2, NothingElsePasses DEF OfEvent, FirstOf
  <2>2. there = {}
    BY <2>1 DEF AnOrder
  <2>3. Cardinality({}) = 0
    BY FS_EmptySet
  <2> QED
    BY <1>2, <2>2, <2>3 DEF OfferedOnce
<1> QED
  BY <1>1, <1>2

(* The head of the offer gives up no more places than are explored.          *)
LEMMA HeadIsKept ==
  ASSUME Mode # "shadow", NEW P, IsFiniteSet(P), NEW ranked \in Filter!Orders(P),
         NEW rows \in Filter!Returned(ranked)
  PROVE  Cardinality(Filter!Top(ranked) \ Filter!Top(rows)) <= Slots
<1>0. rows \in Filter!Explored(ranked) /\ Limit \in Nat /\ Slots \in Nat /\ Slots < Limit
  BY FilterAssumption DEF Filter!Returned
<1>1. AnOrder(ranked, P) /\ AnOrder(rows, P) /\ Len(ranked) = Cardinality(P)
  BY OrdersAreOrders, ReturnedIsAnOrder
<1>2. CASE Slots = 0 \/ Len(ranked) <= Limit
  <2>1. rows = ranked
    BY <1>0, <1>2 DEF Filter!Explored
  <2>2. Filter!Top(ranked) \ Filter!Top(rows) = {}
    BY <2>1
  <2>3. Cardinality({}) = 0
    BY FS_EmptySet
  <2> QED
    BY <1>0, <2>2, <2>3
<1>3. CASE ~(Slots = 0 \/ Len(ranked) <= Limit)
  <2>1. Filter!Fixed = Limit - Slots
    BY <1>0 DEF Filter!Fixed
  <2>2. \A i \in 1..(Limit - Slots) : rows[i] = ranked[i]
    BY <1>0, <1>3, <2>1 DEF Filter!Explored
  <2> DEFINE low == (Limit - Slots + 1)..Limit
             L == {ranked[i] : i \in low}
  <2>3. low \subseteq DOMAIN ranked /\ 1..(Limit - Slots) \subseteq DOMAIN rows
    BY <1>0, <1>1, <1>3 DEF AnOrder
  <2>4. Filter!Top(ranked) \ Filter!Top(rows) \subseteq L
    <3> SUFFICES ASSUME NEW i \in DOMAIN ranked \cap 1..Limit, ranked[i] \notin Filter!Top(rows)
                 PROVE  i \in low
      BY DEF Filter!Top
    <3>1. i \notin 1..(Limit - Slots)
      BY <1>0, <2>2, <2>3 DEF Filter!Top
    <3> QED
      BY <1>0, <3>1
  <2>5. IsFiniteSet(low) /\ Cardinality(low) = Slots
    <3>1. Limit - Slots + 1 \in Int /\ Limit \in Int /\ ~(Limit - Slots + 1 > Limit)
          /\ Limit - (Limit - Slots + 1) + 1 = Slots
      BY <1>0, <1>3
    <3> QED
      BY <3>1, FS_Interval
  <2>6. [i \in low |-> ranked[i]] \in Surjection(low, L)
    BY DEF Surjection
  <2>7. IsFiniteSet(L) /\ Cardinality(L) <= Slots
    BY <2>5, <2>6, FS_Surjection
  <2>8. Cardinality(Filter!Top(ranked) \ Filter!Top(rows)) <= Cardinality(L)
        /\ Cardinality(Filter!Top(ranked) \ Filter!Top(rows)) \in Nat /\ Cardinality(L) \in Nat
    BY <2>4, <2>7, FS_Subset, FS_CardinalityType
  <2> QED
    BY <1>0, <2>7, <2>8
<1> QED
  BY <1>2, <1>3

-----------------------------------------------------------------------------
(* The invariant: an event a report has used keeps its mark, unless that was *)
(* lost; and an offer is right when it is made.                              *)
MarksKept(truth, forgotten, events) ==
  \A k \in DOMAIN truth \ forgotten :
    /\ k \in DOMAIN events
    /\ truth[k] \in Nat /\ events[k].reported \in Nat /\ truth[k] <= events[k].reported

OfferOK == Filter!NoRepeatInCooldown /\ Filter!EveryNewEventIsOffered /\ Filter!HeadIsClaimedOnce

UsedBefore(truth, clock) == \A k \in DOMAIN truth : truth[k] \in Nat /\ truth[k] <= clock

FilterOK == v1 \in Nat /\ UsedBefore(v10, v1) /\ MarksKept(v10, v11, v2) /\ OfferOK

LEMMA NoOfferIsOK ==
  ASSUME v8 = Filter!NoOffer
  PROVE  OfferOK
BY DEF OfferOK, Filter!NoRepeatInCooldown, Filter!EveryNewEventIsOffered, Filter!HeadIsClaimedOnce, Filter!Offering

LEMMA NoNextOfferIsOK ==
  ASSUME v8' = Filter!NoOffer
  PROVE  OfferOK'
BY DEF OfferOK, Filter!NoRepeatInCooldown, Filter!EveryNewEventIsOffered, Filter!HeadIsClaimedOnce, Filter!Offering

LEMMA FilterInit ==
  ASSUME Filter!Init
  PROVE  FilterOK
<1>1. v1 = 0 /\ v10 = <<>> /\ v8 = Filter!NoOffer
  BY DEF Filter!Init
<1>2. MarksKept(v10, v11, v2) /\ UsedBefore(v10, v1)
  BY <1>1 DEF MarksKept, UsedBefore
<1> QED
  BY <1>1, <1>2, NoOfferIsOK DEF FilterOK

LEMMA FeedsAreOK ==
  ASSUME NEW s \in Sources, NEW feed \in Feeds[s]
  PROVE  FeedOK(feed)
<1>1. feed \in Seq({feed[i] : i \in DOMAIN feed}) /\ \A i \in DOMAIN feed : feed[i].published \in Int
  BY FilterAssumption DEF IsList
<1>2. DOMAIN feed = 1..Len(feed) /\ Len(feed) \in Nat
  BY <1>1
<1> QED
  BY <1>1, <1>2 DEF FeedOK

(* What is offered of an event that a report used: the mark is gone.         *)
LEMMA MarkShuts ==
  ASSUME v1 \in Nat, NEW truth, NEW forgotten, NEW memory, MarksKept(truth, forgotten, memory),
         NEW k \in DOMAIN truth \ forgotten, v1 - truth[k] < ReportedCooldown
  PROVE  Filter!RecentlyReported(memory, k)
<1>1. k \in DOMAIN memory /\ truth[k] \in Nat /\ memory[k].reported \in Nat /\ truth[k] <= memory[k].reported
  BY DEF MarksKept
<1>2. memory[k].reported # Filter!Never
  BY <1>1 DEF Filter!Never
<1>3. v1 - memory[k].reported < ReportedCooldown
  BY <1>1, FilterAssumption
<1> QED
  BY <1>1, <1>2, <1>3 DEF Filter!RecentlyReported

LEMMA MarksSurvive ==
  ASSUME MarksKept(v10, v11, v2), NEW kept, NEW seen, Keeps([k \in kept |-> v2[k]], seen)
  PROVE  MarksKept(v10, v11 \cup ((DOMAIN v2 \ kept) \cap DOMAIN v10), seen)
<1> SUFFICES ASSUME NEW k \in DOMAIN v10, k \notin v11, k \notin (DOMAIN v2 \ kept)
             PROVE  /\ k \in DOMAIN seen
                    /\ v10[k] \in Nat /\ seen[k].reported \in Nat /\ v10[k] <= seen[k].reported
  BY DEF MarksKept
<1>1. k \in DOMAIN v2 /\ v10[k] \in Nat /\ v2[k].reported \in Nat /\ v10[k] <= v2[k].reported
  BY DEF MarksKept
<1>2. k \in kept
  BY <1>1
<1>3. k \in DOMAIN seen /\ seen[k].reported = v2[k].reported
  BY <1>2 DEF Keeps
<1> QED
  BY <1>1, <1>3

(* An offer, from what made it.                                              *)
Offers(s, feed, memory, keys, claimed, excluded, ranked, rows) ==
  /\ ranked \in Filter!Orders(Filter!Passed(memory, feed, keys, excluded, claimed))
  /\ rows \in Filter!Returned(ranked)
  /\ v2' = memory
  /\ v6' = [id |-> v7.id, claimed |-> claimed \cup Filter!Claimed(rows, keys)]
  /\ v8' = [source |-> s, feed |-> feed, keys |-> keys, ranked |-> ranked,
            rows |-> rows, claimed |-> claimed, excluded |-> excluded]

LEMMA RankOffers ==
  ASSUME NEW s, NEW feed, Filter!Rank(s, feed)
  PROVE  \E kept, claimed, excluded, ranked, rows :
           LET seen == Filter!Remember([k \in kept |-> v2[k]], feed)
           IN  /\ Offers(s, feed, seen.memory, seen.keys, claimed, excluded, ranked, rows)
               /\ v11' = v11 \cup ((DOMAIN v2 \ kept) \cap DOMAIN v10)
BY DEF Filter!Rank, Offers

LEMMA OfferIsRight ==
  ASSUME v1 \in Nat, NEW s, NEW feed, FeedOK(feed), NEW memory, NEW keys, KeysOf(keys, feed),
         NEW claimed, NEW excluded, NEW ranked, NEW rows,
         Offers(s, feed, memory, keys, claimed, excluded, ranked, rows),
         v1' = v1, MarksKept(v10', v11', memory)
  PROVE  OfferOK'
<1> DEFINE P == Filter!Passed(memory, feed, keys, excluded, claimed)
<1>1. /\ v8'.source = s /\ v8'.feed = feed /\ v8'.keys = keys /\ v8'.ranked = ranked
      /\ v8'.rows = rows /\ v8'.claimed = claimed /\ v8'.excluded = excluded
      /\ v6'.claimed = claimed \cup Filter!Claimed(rows, keys) /\ v2' = memory
  BY DEF Offers
<1>2. \A i : i \in P <=> i \in 1..Len(feed) /\ FirstOf(feed, keys, memory, excluded, claimed, i)
  BY PassedDef DEF FeedOK
<1>3. IsFiniteSet(P)
  <2>0. 1 \in Int /\ Len(feed) \in Int
    BY DEF FeedOK
  <2>1. IsFiniteSet(1..Len(feed))
    BY <2>0, FS_Interval
  <2> QED
    BY <1>2, <2>1, FS_Subset
<1>4. ranked \in Filter!Orders(P) /\ rows \in Filter!Returned(ranked)
  BY DEF Offers
<1> HIDE DEF P
<1>5. AnOrder(rows, P)
  BY <1>3, <1>4, ReturnedIsAnOrder
<1>6. \A n \in DOMAIN rows :
         /\ rows[n] \in 1..Len(feed)
         /\ ~Filter!RecentlyReported(memory, keys[rows[n]])
         /\ keys[rows[n]] \notin excluded \cup claimed
  BY <1>2, <1>5 DEF AnOrder, FirstOf, Gate, Shut
<1>7. Filter!NoRepeatInCooldown'
  <2> SUFFICES ASSUME NEW n \in DOMAIN rows, keys[rows[n]] \in DOMAIN v10',
                      v1 - v10'[keys[rows[n]]] < ReportedCooldown
               PROVE  keys[rows[n]] \in v11'
    BY <1>1 DEF Filter!NoRepeatInCooldown, Filter!ToSet
  <2>1. ~Filter!RecentlyReported(memory, keys[rows[n]])
    BY <1>6
  <2> QED
    BY <2>1, MarkShuts
<1>8. Filter!EveryNewEventIsOffered'
  <2> SUFFICES ASSUME NEW at \in 1..Len(feed)
               PROVE  Cardinality({n \in DOMAIN rows : rows[n] \in OfEvent(keys, keys[at])}) =
                        IF New(memory, feed, keys, excluded, claimed, keys[at])' THEN 1 ELSE 0
    <3>1. \A S : Filter!Cardinality(S) = Cardinality(S)
      BY DEF Filter!Cardinality, Cardinality
    <3> QED
      BY <1>1, <3>1 DEF Filter!EveryNewEventIsOffered, OfEvent, New, Shut, InTime, KeysOf, Filter!ToSet
  <2>1. New(memory, feed, keys, excluded, claimed, keys[at])' <=> New(memory, feed, keys, excluded, claimed, keys[at])
    BY DEF New, Shut, InTime, Filter!RecentlyReported, Filter!Floor
  <2>2. P = Filter!Passed(memory, feed, keys, excluded, claimed)
    BY DEF P
  <2>a. OfferedOnce(memory, feed, keys, excluded, claimed, rows, keys[at])
    BY <1>5, <2>2, EachIsOfferedOnce, Zenon
  <2>3. Cardinality({n \in DOMAIN rows : rows[n] \in OfEvent(keys, keys[at])}) =
          IF New(memory, feed, keys, excluded, claimed, keys[at]) THEN 1 ELSE 0
    BY <2>a, Zenon DEF OfferedOnce
  <2>4. CASE New(memory, feed, keys, excluded, claimed, keys[at])
    BY <2>1, <2>3, <2>4, Zenon
  <2>5. CASE ~New(memory, feed, keys, excluded, claimed, keys[at])
    BY <2>1, <2>3, <2>5, Zenon
  <2> QED
    BY <2>4, <2>5
<1>9. Filter!HeadIsClaimedOnce'
  <2>1. \A k : (\E i \in Filter!Top(rows) : keys[i] = k) =>
                 k \in (claimed \cup Filter!Claimed(rows, keys)) \ claimed
    BY <1>6 DEF Filter!Top, Filter!Claimed
  <2>2. Mode = "active" => Cardinality(Filter!Top(ranked) \ Filter!Top(rows)) <= Slots
    BY <1>3, <1>4, HeadIsKept
  <2>3. \A S : Filter!Cardinality(S) = Cardinality(S)
    BY DEF Filter!Cardinality, Cardinality
  <2> QED
    BY <1>1, <2>1, <2>2, <2>3 DEF Filter!HeadIsClaimedOnce, Filter!InHead
<1> QED
  BY <1>7, <1>8, <1>9 DEF OfferOK

LEMMA RankKeeps ==
  ASSUME FilterOK, NEW s \in Sources, NEW feed \in Feeds[s], Filter!Rank(s, feed)
  PROVE  FilterOK'
<1>1. PICK kept, claimed, excluded, ranked, rows :
        LET seen == Filter!Remember([k \in kept |-> v2[k]], feed)
        IN  /\ Offers(s, feed, seen.memory, seen.keys, claimed, excluded, ranked, rows)
            /\ v11' = v11 \cup ((DOMAIN v2 \ kept) \cap DOMAIN v10)
  BY RankOffers
<1> DEFINE seen == Filter!Remember([k \in kept |-> v2[k]], feed)
           memory == seen.memory
           keys == seen.keys
<1>2. FeedOK(feed)
  BY FeedsAreOK
<1>3. Keeps([k \in kept |-> v2[k]], memory) /\ KeysOf(keys, feed)
  BY <1>2, RememberedFeed DEF FeedOK
<1>4. Offers(s, feed, memory, keys, claimed, excluded, ranked, rows)
      /\ v11' = v11 \cup ((DOMAIN v2 \ kept) \cap DOMAIN v10)
  BY <1>1
<1>5. v1' = v1 /\ v10' = v10 /\ v1 \in Nat
  BY DEF Filter!Rank, FilterOK
<1> HIDE DEF memory, keys, seen
<1>6. MarksKept(v10', v11', memory)
  BY <1>3, <1>4, <1>5, MarksSurvive DEF FilterOK
<1>7. OfferOK'
  BY <1>2, <1>3, <1>4, <1>5, <1>6, OfferIsRight
<1>8. v2' = memory
  BY <1>4 DEF Offers
<1> QED
  BY <1>5, <1>6, <1>7, <1>8 DEF FilterOK

LEMMA UsedKeeps ==
  ASSUME FilterOK, NEW r, Filter!Used(r)
  PROVE  FilterOK'
<1> DEFINE known == {v5[j].event : j \in {n \in DOMAIN v5 : v5[n].id = r.id}} \cap DOMAIN v2
<1>1. /\ v2' = [k \in DOMAIN v2 |-> IF k \in known THEN [seen |-> v2[k].seen, reported |-> v1] ELSE v2[k]]
      /\ v10' = [k \in DOMAIN v10 \cup {r.event} |-> IF k = r.event THEN v1 ELSE v10[k]]
      /\ v11' = IF r.event \in known THEN v11 \ {r.event} ELSE v11 \cup {r.event}
      /\ v8' = Filter!NoOffer /\ v1' = v1
  BY DEF Filter!Used
<1>2. known \subseteq DOMAIN v2
  OBVIOUS
<1> HIDE DEF known
<1>3. ASSUME NEW k \in DOMAIN v10' \ v11'
      PROVE  /\ k \in DOMAIN v2'
             /\ v10'[k] \in Nat /\ v2'[k].reported \in Nat /\ v10'[k] <= v2'[k].reported
  <2>0. v1 \in Nat
    BY DEF FilterOK
  <2>1. CASE k = r.event
    <3>1. k \in known
      BY <1>1, <1>3, <2>1
    <3> QED
      BY <1>1, <1>2, <2>0, <2>1, <3>1
  <2>2. CASE k # r.event
    <3>1. k \in DOMAIN v10 \ v11 /\ v10'[k] = v10[k]
      BY <1>1, <1>3, <2>2
    <3>2. k \in DOMAIN v2 /\ v10[k] \in Nat /\ v2[k].reported \in Nat /\ v10[k] <= v2[k].reported
      BY <3>1 DEF FilterOK, MarksKept
    <3>3. v2'[k] = IF k \in known THEN [seen |-> v2[k].seen, reported |-> v1] ELSE v2[k]
      BY <1>1, <3>2
    <3>4. v2'[k].reported = v1 \/ v2'[k].reported = v2[k].reported
      BY <3>3
    <3>5. v10[k] <= v1
      BY <3>1 DEF FilterOK, UsedBefore
    <3>6. k \in DOMAIN v2'
      BY <1>1, <3>2
    <3> QED
      BY <2>0, <3>1, <3>2, <3>4, <3>5, <3>6
  <2> QED
    BY <2>1, <2>2
<1>4. UsedBefore(v10', v1')
  BY <1>1 DEF FilterOK, UsedBefore
<1>5. MarksKept(v10', v11', v2')
  BY <1>3 DEF MarksKept
<1> QED
  BY <1>1, <1>4, <1>5, NoNextOfferIsOK DEF FilterOK

LEMMA RestartKeeps ==
  ASSUME FilterOK, Filter!Restart
  PROVE  FilterOK'
<1>1. /\ v2' = v3 /\ v10' = v10 /\ v1' = v1 /\ v8' = Filter!NoOffer
      /\ v11' = v11 \cup {k \in DOMAIN v10 : k \notin DOMAIN v3 \/ v3[k].reported # v10[k]}
  BY DEF Filter!Restart
<1>2. MarksKept(v10, v11, v2) /\ v1 \in Nat
  BY DEF FilterOK
<1>3. MarksKept(v10, v11', v3)
  BY <1>1, <1>2 DEF MarksKept
<1> QED
  BY <1>1, <1>2, <1>3, NoNextOfferIsOK DEF FilterOK

LEMMA OthersKeep ==
  ASSUME FilterOK, Filter!Take \/ Filter!Unused \/ \E hours \in 0..2 : Filter!NextCycle(hours)
  PROVE  FilterOK'
<1>1. v1' \in Nat /\ v1 <= v1' /\ UNCHANGED <<v2, v10, v11>> /\ v8' = Filter!NoOffer
  BY DEF Filter!Take, Filter!Unused, Filter!NextCycle, FilterOK
<1>2. UsedBefore(v10, v1')
  BY <1>1 DEF FilterOK, UsedBefore
<1> QED
  BY <1>1, <1>2, NoNextOfferIsOK DEF FilterOK

LEMMA FilterGoesOn ==
  ASSUME FilterOK, [Filter!Next]_(Filter!vars)
  PROVE  FilterOK'
<1>1. CASE Filter!Next
  BY <1>1, RankKeeps, UsedKeeps, RestartKeeps, OthersKeep DEF Filter!Next
<1>2. CASE UNCHANGED Filter!vars
  BY <1>2 DEF Filter!vars, FilterOK, OfferOK, Filter!NoRepeatInCooldown, Filter!EveryNewEventIsOffered,
     Filter!HeadIsClaimedOnce, Filter!Offering, Filter!InHead, Filter!RecentlyReported, Filter!Floor
<1> QED
  BY <1>1, <1>2
-----------------------------------------------------------------------------
(* The report of a market: v1 is the stage, v2 the market with its queue,    *)
(* v3 what the model answered and v4 what became of the market.              *)

(* A queue's articles with a title have different ids.                       *)
LEMMA ReportableOnce ==
  ASSUME NEW queued \in Queues, NEW i \in Report!Reportable(queued), NEW j \in Report!Reportable(queued),
         queued[i].id = queued[j].id
  PROVE  i = j
<1>1. queued \in Seq({queued[k] : k \in DOMAIN queued})
  BY ReportAssumption DEF IsList
<1>2. DOMAIN queued = 1..Len(queued)
  BY <1>1
<1>3. i \in Nat /\ j \in Nat
  <2>1. i \in DOMAIN queued /\ j \in DOMAIN queued
    BY DEF Report!Reportable
  <2> QED
    BY <1>2, <2>1
<1>4. ~(i < j) /\ ~(j < i)
  BY DEF Report!Reportable
<1> QED
  BY <1>3, <1>4

LEMMA ShownIsQueued ==
  ASSUME NEW queued, NEW i \in DOMAIN Report!Shown(queued)
  PROVE  i \in Report!Reportable(queued) /\ i \in DOMAIN queued /\ Report!Shown(queued)[i] = queued[i]
BY DEF Report!Shown, Report!FirstOf, Report!Reportable

(* A title begins as before when the publisher's names are taken off.        *)
LEMMA TitlesBegin ==
  ASSUME NEW title, IsList(title), title # <<>>, NEW publisher
  PROVE  1 \in DOMAIN Report!Comparable(title, publisher)
<1>1. title \in Seq({title[k] : k \in DOMAIN title}) /\ Len(title) \in Nat /\ DOMAIN title = 1..Len(title)
  BY DEF IsList
<1>2. Len(title) # 0
  BY <1>1, EmptySeq
<1>3. 1 \in DOMAIN title /\ 1 \in 1..Len(title)
  BY <1>1, <1>2
<1> QED
  BY <1>3 DEF Report!Comparable

LEMMA ComparableBegins ==
  ASSUME NEW title, NEW publisher, 1 \in DOMAIN Report!Comparable(title, publisher)
  PROVE  Report!Comparable(title, publisher)[1] = title[1]
BY DEF Report!Comparable

(* A row names one article, by its id and the beginning of its title.        *)
LEMMA RowNamesOne ==
  ASSUME NEW queued \in Queues, NEW row,
         NEW i \in Report!ArticleIndex(row, Report!Shown(queued))
  PROVE  /\ i \in DOMAIN Report!Shown(queued)
         /\ row.id = queued[i].id /\ row.title[1] = queued[i].title[1]
         /\ \A j \in Report!ArticleIndex(row, Report!Shown(queued)) : j = i
<1> DEFINE items == Report!Shown(queued)
<1>1. /\ i \in DOMAIN items /\ items[i].id = row.id
      /\ Report!Comparable(row.title, items[i].publisher) = Report!Comparable(items[i].title, items[i].publisher)
  BY DEF Report!ArticleIndex
<1>2. i \in Report!Reportable(queued) /\ i \in DOMAIN queued /\ items[i] = queued[i]
  BY <1>1, ShownIsQueued
<1>3. IsList(queued[i].title) /\ queued[i].title # <<>>
  BY <1>2, ReportAssumption DEF Report!Reportable
<1>4. 1 \in DOMAIN Report!Comparable(queued[i].title, queued[i].publisher)
  BY <1>3, TitlesBegin
<1>5. row.title[1] = queued[i].title[1]
  BY <1>1, <1>2, <1>4, ComparableBegins
<1>6. ASSUME NEW j \in Report!ArticleIndex(row, items) PROVE j = i
  <2>1. j \in DOMAIN items /\ items[j].id = row.id
    BY <1>6 DEF Report!ArticleIndex
  <2>2. j \in Report!Reportable(queued) /\ items[j] = queued[j]
    BY <2>1, ShownIsQueued
  <2> QED
    BY <1>1, <1>2, <2>1, <2>2, ReportableOnce
<1> QED
  BY <1>1, <1>2, <1>5, <1>6

(* Entries made of the first row of each article.                            *)
Taken(entries, rows, items) ==
  /\ DOMAIN entries \subseteq DOMAIN rows
  /\ \A k \in DOMAIN entries : /\ entries[k].index \in Report!ArticleIndex(rows[k], items)
                               /\ entries[k].impact = rows[k].impact
  /\ \A j, k \in DOMAIN entries : entries[j].index = entries[k].index => j = k

LEMMA FirstOfEachOnce ==
  ASSUME NEW queued \in Queues, NEW rows, NEW places, places \subseteq DOMAIN rows, DOMAIN rows \subseteq Nat,
         NEW j \in Report!FirstOfEach(places, rows, Report!Shown(queued)),
         NEW k \in Report!FirstOfEach(places, rows, Report!Shown(queued)),
         NEW i \in Report!ArticleIndex(rows[j], Report!Shown(queued)),
         i \in Report!ArticleIndex(rows[k], Report!Shown(queued))
  PROVE  j = k
<1>1. Report!ArticleIndex(rows[j], Report!Shown(queued)) = {i}
  BY RowNamesOne
<1>2. Report!ArticleIndex(rows[k], Report!Shown(queued)) = {i}
  BY RowNamesOne
<1>3. ~(j < k) /\ ~(k < j) /\ j \in Nat /\ k \in Nat
  BY <1>1, <1>2 DEF Report!FirstOfEach
<1> QED
  BY <1>3

LEMMA TheIndex ==
  ASSUME NEW indexes, NEW i \in indexes
  PROVE  Report!The(indexes) \in indexes
BY DEF Report!The

LEMMA HighlightsAreTaken ==
  ASSUME NEW queued \in Queues, NEW rows, DOMAIN rows \subseteq Nat
  PROVE  Taken(Report!Highlights(rows, Report!Shown(queued)), rows, Report!Shown(queued))
<1> DEFINE items == Report!Shown(queued)
           kept == Report!Highlights(rows, items)
           usable == {k \in DOMAIN rows :
                        /\ \E i \in Report!ArticleIndex(rows[k], items) : items[i].korean \/ rows[k].said
                        /\ rows[k].fine /\ rows[k].impact \in Report!Impacts}
<1>1. DOMAIN kept = Report!FirstOfEach(usable, rows, items)
  BY DEF Report!Highlights
<1>2. DOMAIN kept \subseteq usable /\ usable \subseteq DOMAIN rows
  BY <1>1 DEF Report!FirstOfEach
<1>3. ASSUME NEW k \in DOMAIN kept
      PROVE  kept[k].index = Report!The(Report!ArticleIndex(rows[k], items)) /\ kept[k].impact = rows[k].impact
  BY <1>1, <1>3 DEF Report!Highlights
<1>4. ASSUME NEW k \in DOMAIN kept PROVE kept[k].index \in Report!ArticleIndex(rows[k], items)
  BY <1>2, <1>3, <1>4, TheIndex
<1> HIDE DEF kept, usable
<1>5. ASSUME NEW j \in DOMAIN kept, NEW k \in DOMAIN kept, kept[j].index = kept[k].index PROVE j = k
  <2>1. kept[j].index \in Report!ArticleIndex(rows[j], items) /\ kept[j].index \in Report!ArticleIndex(rows[k], items)
    BY <1>4, <1>5
  <2> QED
    BY <1>1, <1>2, <1>5, <2>1, FirstOfEachOnce
<1> QED
  BY <1>2, <1>3, <1>4, <1>5 DEF Taken, kept

LEMMA EvaluationsAreTaken ==
  ASSUME NEW queued \in Queues, NEW rows, DOMAIN rows \subseteq Nat, NEW highlighted
  PROVE  LET kept == Report!Evaluations(rows, Report!Shown(queued), highlighted)
         IN  /\ Taken(kept, rows, Report!Shown(queued))
             /\ \A k \in DOMAIN kept : kept[k].index \notin highlighted
<1> DEFINE items == Report!Shown(queued)
           kept == Report!Evaluations(rows, items, highlighted)
           usable == {k \in DOMAIN rows :
                        /\ k <= RowsRead /\ rows[k].impact \in Report!Impacts
                        /\ \E i \in Report!ArticleIndex(rows[k], items) : i \notin highlighted}
<1>1. DOMAIN kept = Report!FirstOfEach(usable, rows, items)
  BY DEF Report!Evaluations
<1>2. DOMAIN kept \subseteq usable /\ usable \subseteq DOMAIN rows
  BY <1>1 DEF Report!FirstOfEach
<1>3. ASSUME NEW k \in DOMAIN kept
      PROVE  kept[k].index = Report!The(Report!ArticleIndex(rows[k], items)) /\ kept[k].impact = rows[k].impact
  BY <1>1, <1>3 DEF Report!Evaluations
<1>4. ASSUME NEW k \in DOMAIN kept
      PROVE  kept[k].index \in Report!ArticleIndex(rows[k], items) /\ kept[k].index \notin highlighted
  <2>1. PICK i \in Report!ArticleIndex(rows[k], items) : i \notin highlighted
    BY <1>2, <1>4
  <2>2. kept[k].index \in Report!ArticleIndex(rows[k], items)
    BY <1>3, <1>4, TheIndex
  <2>3. kept[k].index = i
    BY <2>2, RowNamesOne
  <2> QED
    BY <2>1, <2>2, <2>3
<1> HIDE DEF kept, usable
<1>5. ASSUME NEW j \in DOMAIN kept, NEW k \in DOMAIN kept, kept[j].index = kept[k].index PROVE j = k
  <2>1. kept[j].index \in Report!ArticleIndex(rows[j], items) /\ kept[j].index \in Report!ArticleIndex(rows[k], items)
    BY <1>4, <1>5
  <2> QED
    BY <1>1, <1>2, <1>5, <2>1, FirstOfEachOnce
<1> QED
  BY <1>2, <1>3, <1>4, <1>5 DEF Taken, kept

(* What is believed of an answer: highlights and evaluations of rows that    *)
(* the answer has, each of another article.                                  *)
Believed(result, answer, items) ==
  /\ Taken(result.highlights, answer.highlights, items)
  /\ Taken(result.evaluations, answer.evaluations, items)
  /\ \A j \in DOMAIN result.highlights, k \in DOMAIN result.evaluations :
       result.highlights[j].index # result.evaluations[k].index

IsAnswer(a) ==
  /\ a.form \in {"fails", "nothing", "broken", "object"}
  /\ DOMAIN a.highlights = 1..Len(a.highlights) /\ Len(a.highlights) \in Nat
  /\ a.highlights = [k \in DOMAIN a.highlights |-> a.highlights[k]]
  /\ DOMAIN a.evaluations \subseteq Nat

LEMMA AnswersAreAnswers ==
  ASSUME NEW given \in AnswerPairs, NEW n \in {1, 2}
  PROVE  IsAnswer(given[n])
<1>1. /\ given[n].form \in {"fails", "nothing", "broken", "object"}
      /\ given[n].highlights \in Seq({given[n].highlights[k] : k \in DOMAIN given[n].highlights})
      /\ given[n].evaluations \in Seq({given[n].evaluations[k] : k \in DOMAIN given[n].evaluations})
  BY ReportAssumption DEF IsList
<1>2. /\ DOMAIN given[n].highlights = 1..Len(given[n].highlights) /\ Len(given[n].highlights) \in Nat
      /\ given[n].highlights = [k \in DOMAIN given[n].highlights |-> given[n].highlights[k]]
  BY <1>1
<1>3. DOMAIN given[n].evaluations = 1..Len(given[n].evaluations) /\ Len(given[n].evaluations) \in Nat
  BY <1>1
<1> QED
  BY <1>1, <1>2, <1>3 DEF IsAnswer

LEMMA NothingTaken ==
  ASSUME NEW rows, NEW items
  PROVE  Taken(<<>>, rows, items) /\ DOMAIN <<>> = {}
BY DEF Taken

(* The rows that are read, and what is kept of them.                         *)
ReadRows(answer, items, publish) ==
  [k \in {k \in DOMAIN answer.highlights : publish /\ k <= Report!HighlightLimit(Report!Cardinality(DOMAIN items))}
     |-> answer.highlights[k]]

LEMMA ObjectRead ==
  ASSUME NEW answer, NEW items, NEW publish, NEW last
  PROVE  LET kept == Report!Highlights(ReadRows(answer, items, publish), items)
         IN  Report!ReadObject(answer, items, publish, last)
               = Report!OfObject(answer, publish, ReadRows(answer, items, publish), kept,
                                 Report!Rated(answer, items, kept), last)
BY DEF Report!ReadObject, ReadRows

LEMMA ReadRowsTaken ==
  ASSUME NEW queued \in Queues, NEW answer, IsAnswer(answer), NEW publish
  PROVE  LET items == Report!Shown(queued)
         IN  Taken(Report!Highlights(ReadRows(answer, items, publish), items), answer.highlights, items)
<1> DEFINE items == Report!Shown(queued)
           read == ReadRows(answer, items, publish)
           kept == Report!Highlights(read, items)
<1>1. DOMAIN read \subseteq DOMAIN answer.highlights /\ \A k \in DOMAIN read : read[k] = answer.highlights[k]
  BY DEF ReadRows
<1>2. DOMAIN read \subseteq Nat
  BY <1>1 DEF IsAnswer
<1> HIDE DEF read
<1>3. Taken(kept, read, items)
  BY <1>2, HighlightsAreTaken
<1> HIDE DEF kept, items
<1>4. Taken(kept, answer.highlights, items)
  BY <1>1, <1>3 DEF Taken
<1> QED
  BY <1>4 DEF kept, read, items

LEMMA ParsedIsBelieved ==
  ASSUME NEW queued \in Queues, NEW answer, IsAnswer(answer), NEW last, NEW must,
         Report!Parse(answer, Report!Shown(queued), last, must).ok
  PROVE  Believed(Report!Parse(answer, Report!Shown(queued), last, must), answer, Report!Shown(queued))
<1> DEFINE items == Report!Shown(queued)
           result == Report!Parse(answer, items, last, must)
           publish == Report!Publishes(answer, must)
           kept == Report!Highlights(ReadRows(answer, items, publish), items)
           rated == Report!Rated(answer, items, kept)
<1>1. ~Report!Wrong.ok
  BY DEF Report!Wrong
<1>2. CASE answer.form = "broken"
  <2>1. result = Report!Result(TRUE, Report!Paragraphs(answer.text), <<>>, <<>>)
    BY <1>1, <1>2 DEF Report!Parse, Report!Saved
  <2>2. result.highlights = <<>> /\ result.evaluations = <<>>
    BY <2>1 DEF Report!Result
  <2> QED
    BY <2>2, NothingTaken DEF Believed
<1>3. CASE answer.form = "object"
  <2>1. result = Report!OfObject(answer, publish, ReadRows(answer, items, publish), kept, rated, last)
    BY <1>3, ObjectRead DEF Report!Parse
  <2>2. Taken(kept, answer.highlights, items)
    BY ReadRowsTaken
  <2>3. /\ Taken(rated, answer.evaluations, items)
        /\ \A k \in DOMAIN rated : rated[k].index \notin {kept[j].index : j \in DOMAIN kept}
    BY EvaluationsAreTaken DEF Report!Rated, IsAnswer
  <2> HIDE DEF kept, rated, publish
  <2>4. \/ result = Report!Result(TRUE, Report!Paragraphs(answer.text), kept, rated)
        \/ result = Report!Result(FALSE, <<>>, <<>>, rated)
    BY <1>1, <2>1 DEF Report!OfObject
  <2>5. result.highlights \in {kept, <<>>} /\ result.evaluations = rated
    BY <2>4 DEF Report!Result
  <2> HIDE DEF result, items
  <2>6. Believed(result, answer, items)
    BY <2>2, <2>3, <2>5, NothingTaken DEF Believed
  <2> QED
    BY <2>6 DEF result, items
<1>4. CASE answer.form \in {"fails", "nothing"}
  BY <1>1, <1>4 DEF Report!Parse
<1> QED
  BY <1>2, <1>3, <1>4 DEF IsAnswer

(* An answer that is believed has all that a result has.                     *)
LEMMA ParsedIsWhole ==
  ASSUME NEW answer, NEW items, NEW last, NEW must, IsAnswer(answer),
         NEW result, result = Report!Parse(answer, items, last, must), result.ok
  PROVE  /\ result = Report!Result(result.publish, result.text, result.highlights, result.evaluations)
         /\ result.publish => result.text = Report!Paragraphs(answer.text)
         /\ ~result.publish => answer.form = "object" /\ ~Report!Publishes(answer, must)
<1> DEFINE publish == Report!Publishes(answer, must)
           kept == Report!Highlights(ReadRows(answer, items, publish), items)
           rated == Report!Rated(answer, items, kept)
           text == Report!Paragraphs(answer.text)
<1>1. ~Report!Wrong.ok
  BY DEF Report!Wrong
<1>2. \/ result = Report!Result(TRUE, text, <<>>, <<>>)
      \/ result = Report!Result(TRUE, text, kept, rated)
      \/ result = Report!Result(FALSE, <<>>, <<>>, rated) /\ answer.form = "object" /\ ~publish
  <2>1. CASE answer.form = "broken"
    BY <1>1, <2>1 DEF Report!Parse, Report!Saved
  <2>2. CASE answer.form = "object"
    <3>1. result = Report!OfObject(answer, publish, ReadRows(answer, items, publish), kept, rated, last)
      BY <2>2, ObjectRead DEF Report!Parse
    <3> HIDE DEF kept, rated, text, publish
    <3> QED
      BY <1>1, <2>2, <3>1 DEF Report!OfObject, text
  <2>3. CASE answer.form \in {"fails", "nothing"}
    BY <1>1, <2>3 DEF Report!Parse
  <2> QED
    BY <2>1, <2>2, <2>3 DEF IsAnswer
<1> HIDE DEF kept, rated, text, publish
<1> QED
  BY <1>2 DEF Report!Result, text, publish

(* What is asked of the result that is used.                                 *)
LEMMA AnalysisIsBelieved ==
  ASSUME NEW queued \in Queues, NEW given \in AnswerPairs, NEW sample, NEW must,
         NEW n, n = Report!Calls(given, Report!Shown(queued), must),
         NEW result, result = Report!Analyze(given, Report!Shown(queued), sample, must), result.ok
  PROVE  /\ n \in {1, 2}
         /\ Believed(result, given[n], Report!Shown(queued))
         /\ \A k \in DOMAIN result.evaluations : result.evaluations[k].index \in sample
         /\ result.publish => result.text = Report!Paragraphs(given[n].text)
         /\ ~result.publish => given[n].form = "object" /\ ~Report!Publishes(given[n], must)
<1> DEFINE items == Report!Shown(queued)
           used == Report!Parse(given[n], items, n = 2, must)
           asked == {k \in DOMAIN used.evaluations : used.evaluations[k].index \in sample}
<1>1. n \in {1, 2}
  BY DEF Report!Calls
<1>2. IsAnswer(given[n])
  BY <1>1, AnswersAreAnswers
<1>3. result = Report!Asked(used, sample)
  BY DEF Report!Analyze, Report!Used
<1>4. used.ok
  BY <1>3 DEF Report!Asked, Report!Wrong
<1>5. Believed(used, given[n], items)
  BY <1>2, <1>4, ParsedIsBelieved
<1>6. /\ used = Report!Result(used.publish, used.text, used.highlights, used.evaluations)
      /\ used.publish => used.text = Report!Paragraphs(given[n].text)
      /\ ~used.publish => given[n].form = "object" /\ ~Report!Publishes(given[n], must)
  BY <1>2, <1>4, ParsedIsWhole
<1> HIDE DEF used, items
<1>7. /\ result.publish = used.publish /\ result.text = used.text /\ result.highlights = used.highlights
      /\ result.evaluations = [k \in asked |-> used.evaluations[k]]
  BY <1>3, <1>4, <1>6 DEF Report!Asked, Report!Result
<1>8. asked \subseteq DOMAIN used.evaluations /\ \A k \in asked : used.evaluations[k].index \in sample
  OBVIOUS
<1> HIDE DEF asked
<1>9. DOMAIN result.evaluations = asked /\ \A k \in asked : result.evaluations[k] = used.evaluations[k]
  BY <1>7
<1>10. Believed(result, given[n], items)
  BY <1>5, <1>7, <1>8, <1>9 DEF Believed, Taken
<1> QED
  BY <1>1, <1>6, <1>7, <1>8, <1>9, <1>10 DEF items

LEMMA EachLabel ==
  ASSUME NEW h, NEW e, NEW from \in DOMAIN Report!Labels(h, e)
  PROVE  \/ from[2] \in DOMAIN h /\ from = <<"highlight", from[2]>> /\ Report!Labels(h, e)[from] = h[from[2]]
         \/ from[2] \in DOMAIN e /\ from = <<"evaluation", from[2]>> /\ Report!Labels(h, e)[from] = e[from[2]]
<1>1. from \in ({"highlight"} \X DOMAIN h) \cup ({"evaluation"} \X DOMAIN e)
  BY DEF Report!Labels
<1>2. Report!Labels(h, e)[from] = IF from[1] = "highlight" THEN h[from[2]] ELSE e[from[2]]
  BY <1>1 DEF Report!Labels
<1> QED
  BY <1>1, <1>2

LEMMA HighlightLabel ==
  ASSUME NEW h, NEW e, NEW k \in DOMAIN h
  PROVE  /\ <<"highlight", k>> \in DOMAIN Report!Labels(h, e)
         /\ Report!Labels(h, e)[<<"highlight", k>>] = h[k]
BY DEF Report!Labels

LEMMA NoLabels == DOMAIN Report!Unlabelled = {}
BY DEF Report!Unlabelled, Report!Labels

(* The rows of an answer; labels that are each of another article and have   *)
(* each a row with the article's id and title and the label's importance.    *)
RowsOf(answer) ==
  {answer.highlights[k] : k \in DOMAIN answer.highlights} \cup {answer.evaluations[k] : k \in DOMAIN answer.evaluations}

Meant(labels, answer, queued) ==
  /\ \A r, s \in DOMAIN labels : labels[r].index = labels[s].index => r = s
  /\ \A r \in DOMAIN labels :
       \E row \in RowsOf(answer) : /\ row.id = queued[labels[r].index].id /\ row.impact = labels[r].impact
                                   /\ row.title[1] = queued[labels[r].index].title[1]

(* Labels of what is believed: each of another article, each with its row.   *)
LEMMA LabelsAreRows ==
  ASSUME NEW queued \in Queues, NEW answer, NEW h, NEW e,
         Believed([highlights |-> h, evaluations |-> e], answer, Report!Shown(queued))
  PROVE  Meant(Report!Labels(h, e), answer, queued)
<1> DEFINE labels == Report!Labels(h, e)
           items == Report!Shown(queued)
<1>1. Taken(h, answer.highlights, items) /\ Taken(e, answer.evaluations, items)
  BY DEF Believed
<1>2. \A j \in DOMAIN h, k \in DOMAIN e : h[j].index # e[k].index
  BY DEF Believed
<1>3. ASSUME NEW r \in DOMAIN labels, NEW s \in DOMAIN labels, labels[r].index = labels[s].index PROVE r = s
  <2>1. \/ r[2] \in DOMAIN h /\ r = <<"highlight", r[2]>> /\ labels[r] = h[r[2]]
        \/ r[2] \in DOMAIN e /\ r = <<"evaluation", r[2]>> /\ labels[r] = e[r[2]]
    BY <1>3, EachLabel
  <2>2. \/ s[2] \in DOMAIN h /\ s = <<"highlight", s[2]>> /\ labels[s] = h[s[2]]
        \/ s[2] \in DOMAIN e /\ s = <<"evaluation", s[2]>> /\ labels[s] = e[s[2]]
    BY <1>3, EachLabel
  <2> QED
    BY <1>1, <1>2, <1>3, <2>1, <2>2 DEF Taken
<1>4. ASSUME NEW r \in DOMAIN labels
      PROVE  \E row \in RowsOf(answer) :
               /\ row.impact = labels[r].impact
               /\ labels[r].index \in Report!ArticleIndex(row, items)
  <2>1. CASE r[2] \in DOMAIN h /\ labels[r] = h[r[2]]
    <3>1. /\ r[2] \in DOMAIN answer.highlights /\ answer.highlights[r[2]].impact = labels[r].impact
          /\ labels[r].index \in Report!ArticleIndex(answer.highlights[r[2]], items)
      BY <1>1, <2>1 DEF Taken
    <3> QED
      BY <3>1 DEF RowsOf
  <2>2. CASE r[2] \in DOMAIN e /\ labels[r] = e[r[2]]
    <3>1. /\ r[2] \in DOMAIN answer.evaluations /\ answer.evaluations[r[2]].impact = labels[r].impact
          /\ labels[r].index \in Report!ArticleIndex(answer.evaluations[r[2]], items)
      BY <1>1, <2>2 DEF Taken
    <3> QED
      BY <3>1 DEF RowsOf
  <2> QED
    BY <1>4, <2>1, <2>2, EachLabel
<1> HIDE DEF labels
<1>5. ASSUME NEW r \in DOMAIN labels
      PROVE  \E row \in RowsOf(answer) :
               /\ row.id = queued[labels[r].index].id /\ row.impact = labels[r].impact
               /\ row.title[1] = queued[labels[r].index].title[1]
  <2>1. PICK row \in RowsOf(answer) :
               /\ row.impact = labels[r].impact
               /\ labels[r].index \in Report!ArticleIndex(row, items)
    BY <1>4, <1>5
  <2>2. row.id = queued[labels[r].index].id /\ row.title[1] = queued[labels[r].index].title[1]
    BY <2>1, RowNamesOne
  <2> QED
    BY <2>1, <2>2
<1> QED
  BY <1>3, <1>5 DEF labels, Meant

(* How many highlights may be read is a number.                              *)
LEMMA LimitIsNumber ==
  ASSUME NEW queued \in Queues
  PROVE  Report!HighlightLimit(Report!Cardinality(DOMAIN Report!Shown(queued))) \in Int
<1> DEFINE n == Report!Cardinality(DOMAIN Report!Shown(queued))
           rounded == Report!RoundHalfEven(n, OneIn)
<1>1. n \in Nat
  <2>1. queued \in Seq({queued[k] : k \in DOMAIN queued})
    BY ReportAssumption DEF IsList
  <2>2. DOMAIN queued = 1..Len(queued) /\ Len(queued) \in Nat
    BY <2>1
  <2>3. DOMAIN Report!Shown(queued) \subseteq 1..Len(queued)
    BY <2>2, ShownIsQueued
  <2>4. IsFiniteSet(1..Len(queued))
    BY <2>2, FS_Interval
  <2>6. IsFiniteSet(DOMAIN Report!Shown(queued))
    BY <2>3, <2>4, FS_Subset
  <2>7. Cardinality(DOMAIN Report!Shown(queued)) \in Nat
    BY <2>6, FS_CardinalityType
  <2>5. n = Cardinality(DOMAIN Report!Shown(queued))
    BY DEF Report!Cardinality, Cardinality
  <2> QED
    BY <2>5, <2>7
<1> HIDE DEF n
<1>2. rounded \in Int
  <2>1. n \div OneIn \in Int
    BY <1>1, ReportAssumption
  <2> QED
    BY <2>1 DEF Report!RoundHalfEven
<1> HIDE DEF rounded
<1>3. \A a, b \in Int : Report!Min({a, b}) \in Int /\ Report!Max({a, b}) \in Int
  <2>1. ASSUME NEW a \in Int, NEW b \in Int PROVE Report!Min({a, b}) \in {a, b}
    <3>1. \E x \in {a, b} : \A y \in {a, b} : x <= y
      OBVIOUS
    <3> QED
      BY <3>1 DEF Report!Min
  <2>2. ASSUME NEW a \in Int, NEW b \in Int PROVE Report!Max({a, b}) \in {a, b}
    <3>1. \E x \in {a, b} : \A y \in {a, b} : x >= y
      OBVIOUS
    <3> QED
      BY <3>1 DEF Report!Max
  <2> QED
    BY <2>1, <2>2
<1>4. Report!Min({MaxHighlights, rounded}) \in Int
  BY <1>2, <1>3, ReportAssumption
<1>5. Report!Max({MinHighlights, Report!Min({MaxHighlights, rounded})}) \in Int
  BY <1>3, <1>4, ReportAssumption
<1> QED
  BY <1>5 DEF Report!HighlightLimit, n, rounded

(* The model is asked again only for an answer that gave nothing.            *)
LEMMA AskedAgainForNothing ==
  ASSUME NEW queued \in Queues, NEW given \in AnswerPairs, NEW must,
         Report!Calls(given, Report!Shown(queued), must) = 2
  PROVE  \/ given[1].form \in {"nothing", "broken"}
         \/ DOMAIN Report!Highlights(given[1].highlights, Report!Shown(queued)) = {}
         \/ Len(given[1].highlights)
              > Report!HighlightLimit(Report!Cardinality(DOMAIN Report!Shown(queued)))
<1> DEFINE items == Report!Shown(queued)
           answer == given[1]
           limit == Report!HighlightLimit(Report!Cardinality(DOMAIN items))
           publish == Report!Publishes(answer, must)
           read == ReadRows(answer, items, publish)
           kept == Report!Highlights(read, items)
           rated == Report!Rated(answer, items, kept)
<1>1. IsAnswer(answer)
  BY AnswersAreAnswers
<1>2. answer.form # "fails" /\ ~Report!Parse(answer, items, FALSE, must).ok
  <2>1. (IF answer.form = "fails" \/ Report!Parse(answer, items, FALSE, must).ok THEN 1 ELSE 2) = 2
    BY Zenon DEF Report!Calls
  <2>2. 1 # 2
    OBVIOUS
  <2> QED
    BY <2>1, <2>2, Zenon
<1> SUFFICES ASSUME answer.form = "object", ~(Len(answer.highlights) > limit)
             PROVE  DOMAIN Report!Highlights(answer.highlights, items) = {}
  BY <1>1, <1>2 DEF IsAnswer
<1>3. Report!Parse(answer, items, FALSE, must) = Report!OfObject(answer, publish, read, kept, rated, FALSE)
  BY ObjectRead DEF Report!Parse
<1>4. DOMAIN read # {} => publish
  BY DEF ReadRows
<1> HIDE DEF rated, kept, read, publish
<1>5. publish /\ DOMAIN kept = {}
  <2>1. ~Report!OfObject(answer, publish, read, kept, rated, FALSE).ok
    BY <1>2, <1>3, Zenon
  <2>2. /\ Report!Result(TRUE, Report!Paragraphs(answer.text), kept, rated).ok
        /\ Report!Result(FALSE, <<>>, <<>>, rated).ok
    BY DEF Report!Result
  <2>3. \/ DOMAIN kept = {} /\ DOMAIN read # {}
        \/ publish /\ DOMAIN kept = {}
    BY <2>1, <2>2, Zenon DEF Report!OfObject
  <2> QED
    BY <1>4, <2>3, Zenon
<1>6. read = answer.highlights
  <2>1. limit \in Int
    BY LimitIsNumber
  <2> HIDE DEF limit, items, answer
  <2>2. \A k \in DOMAIN answer.highlights : k <= limit
    BY <1>1, <2>1 DEF IsAnswer
  <2>3. read = [k \in {k \in DOMAIN answer.highlights : publish /\ k <= limit} |-> answer.highlights[k]]
    BY DEF read, ReadRows, limit
  <2>4. {k \in DOMAIN answer.highlights : publish /\ k <= limit} = DOMAIN answer.highlights
    BY <1>5, <2>2
  <2> QED
    BY <1>1, <2>3, <2>4 DEF IsAnswer
<1> QED
  BY <1>5, <1>6 DEF kept

(* A market that is decided is decided as the program decides.               *)
ReportOK ==
  /\ v1 = "collected" =>
       \E queued \in Queues, situation \in Situations, previous \in Earlier :
         v2 = [market |-> situation[1], held |-> situation[2], queued |-> queued, previous |-> previous,
               sample |-> {}]
  /\ v1 = "decided" =>
       /\ v2.queued \in Queues /\ v3 \in AnswerPairs
       /\ v4 = Report!Market(v2.market, v2.queued, v2.held, v2.previous, v3, v2.sample)

LEMMA ReportInit == Report!Init => ReportOK
BY DEF Report!Init, ReportOK

LEMMA ReportGoesOn ==
  ASSUME ReportOK, [Report!Next]_(Report!vars)
  PROVE  ReportOK'
<1>1. CASE Report!Collect
  BY <1>1 DEF Report!Collect, ReportOK
<1>2. CASE Report!Decide
  <2>1. PICK queued \in Queues, situation \in Situations, previous \in Earlier :
          v2 = [market |-> situation[1], held |-> situation[2], queued |-> queued, previous |-> previous,
                sample |-> {}]
    BY <1>2 DEF Report!Decide, ReportOK
  <2>2. PICK sample :
          /\ v4' = Report!Market(v2.market, v2.queued, v2.held, v2.previous, v3', sample)
          /\ v2' = [v2 EXCEPT !.sample = sample]
    BY <1>2 DEF Report!Decide
  <2>3. /\ v2'.market = v2.market /\ v2'.queued = v2.queued /\ v2'.held = v2.held
        /\ v2'.previous = v2.previous /\ v2'.sample = sample /\ v2.queued \in Queues
    BY <2>1, <2>2
  <2>4. v3' \in AnswerPairs /\ v1' = "decided"
    BY <1>2 DEF Report!Decide
  <2>5. v4' = Report!Market(v2'.market, v2'.queued, v2'.held, v2'.previous, v3', v2'.sample)
    BY <2>2, <2>3
  <2> QED
    BY <2>3, <2>4, <2>5 DEF ReportOK
<1>3. CASE UNCHANGED Report!vars
  BY <1>3 DEF Report!vars, ReportOK
<1> QED
  BY <1>1, <1>2, <1>3 DEF Report!Next

(* What is learned was meant for the article it is learned of.               *)
LEMMA LabelsTell ==
  ASSUME ReportOK
  PROVE  Report!LabelsAreMeant
<1> SUFFICES ASSUME v1 = "decided" PROVE Report!LabelsAreMeant
  BY DEF Report!LabelsAreMeant
<1> DEFINE queued == v2.queued
           items == Report!Shown(queued)
           forced == Report!Forced(v2.market, v2.held)
           n == Report!Calls(v3, items, forced)
           result == Report!Analyze(v3, items, v2.sample, forced)
           labels == v4.labels
<1>1. /\ queued \in Queues /\ v3 \in AnswerPairs
      /\ v4 = Report!Verdict(Report!Reportable(queued), Report!Must(v2.held), v2.previous, result)
  BY DEF ReportOK, Report!Market
<1>2. \/ labels = Report!Unlabelled
      \/ result.ok /\ v4 = Report!Held(Report!Labels(<<>>, result.evaluations))
      \/ result.ok /\ v4 = Report!MadePublic(Report!Notable(result.highlights),
                                            Report!Labels(result.highlights, result.evaluations))
  <2> HIDE DEF result
  <2> QED
    BY <1>1 DEF Report!Verdict, Report!Held, Report!MadePublic
<1>3. Report!Attempt = n
  BY DEF Report!Attempt
<1>4. ASSUME result.ok
      PROVE  /\ Believed([highlights |-> <<>>, evaluations |-> result.evaluations], v3[n], items)
             /\ Believed([highlights |-> result.highlights, evaluations |-> result.evaluations], v3[n], items)
             /\ \A k \in DOMAIN result.evaluations : result.evaluations[k].index \in v2.sample
  <2>1. /\ Believed(result, v3[n], items)
        /\ \A k \in DOMAIN result.evaluations : result.evaluations[k].index \in v2.sample
    BY <1>1, <1>4, AnalysisIsBelieved
  <2> HIDE DEF result, n, items
  <2> QED
    BY <2>1, NothingTaken DEF Believed
<1>5. Meant(labels, v3[n], queued)
  <2>1. CASE labels = Report!Unlabelled
    BY <2>1, NoLabels DEF Meant
  <2>2. CASE result.ok /\ v4 = Report!Held(Report!Labels(<<>>, result.evaluations))
    <3>1. labels = Report!Labels(<<>>, result.evaluations)
      BY <2>2 DEF Report!Held
    <3>2. Believed([highlights |-> <<>>, evaluations |-> result.evaluations], v3[n], items)
      BY <1>4, <2>2
    <3> HIDE DEF result, n, labels
    <3>3. Meant(Report!Labels(<<>>, result.evaluations), v3[n], queued)
      BY <1>1, <3>2, LabelsAreRows
    <3> QED
      BY <3>1, <3>3
  <2>3. CASE result.ok /\ v4 = Report!MadePublic(Report!Notable(result.highlights),
                                            Report!Labels(result.highlights, result.evaluations))
    <3>1. labels = Report!Labels(result.highlights, result.evaluations)
      BY <2>3 DEF Report!MadePublic
    <3>2. Believed([highlights |-> result.highlights, evaluations |-> result.evaluations], v3[n], items)
      BY <1>4, <2>3
    <3> HIDE DEF result, n, labels
    <3>3. Meant(Report!Labels(result.highlights, result.evaluations), v3[n], queued)
      BY <1>1, <3>2, LabelsAreRows
    <3> QED
      BY <3>1, <3>3
  <2> QED
    BY <1>2, <2>1, <2>2, <2>3
<1>6. ASSUME NEW r \in DOMAIN labels
      PROVE  labels[r].index \in v2.sample \/ v4.verdict = "published"
  <2>1. CASE result.ok /\ v4 = Report!Held(Report!Labels(<<>>, result.evaluations))
    <3>1. labels = Report!Labels(<<>>, result.evaluations)
      BY <2>1 DEF Report!Held
    <3>2. r[2] \in DOMAIN result.evaluations /\ labels[r] = result.evaluations[r[2]]
      BY <1>6, <3>1, EachLabel
    <3> QED
      BY <1>4, <2>1, <3>2
  <2>2. CASE result.ok /\ v4 = Report!MadePublic(Report!Notable(result.highlights),
                                            Report!Labels(result.highlights, result.evaluations))
    BY <2>2 DEF Report!MadePublic
  <2> QED
    BY <1>2, <1>6, <2>1, <2>2, NoLabels
<1>7. ASSUME v4.verdict = "published", DOMAIN labels # {}, NEW i \in v4.public
      PROVE  \E r \in DOMAIN labels : labels[r].index = i
  <2>1. v4 = Report!MadePublic(Report!Notable(result.highlights), Report!Labels(result.highlights, result.evaluations))
    BY <1>2, <1>7, NoLabels DEF Report!Held
  <2>2. labels = Report!Labels(result.highlights, result.evaluations) /\ i \in Report!Notable(result.highlights)
    BY <1>7, <2>1 DEF Report!MadePublic
  <2>3. PICK k \in DOMAIN result.highlights : i = result.highlights[k].index
    BY <2>2 DEF Report!Notable
  <2> HIDE DEF labels, result
  <2>4. /\ <<"highlight", k>> \in DOMAIN labels
        /\ labels[<<"highlight", k>>].index = i
    BY <2>2, <2>3, HighlightLabel
  <2> QED
    BY <2>4, Zenon
<1> HIDE DEF result, n
<1>8. Meant(labels, v3[Report!Attempt], queued)
  BY <1>3, <1>5
<1> QED
  BY <1>6, <1>7, <1>8 DEF Report!LabelsAreMeant, Meant, RowsOf

(* A market is silent for a reason.                                          *)
LEMMA SilenceTells ==
  ASSUME ReportOK
  PROVE  Report!SilenceHasAReason
<1> SUFFICES ASSUME v1 = "decided" PROVE Report!SilenceHasAReason
  BY DEF Report!SilenceHasAReason
<1> DEFINE queued == v2.queued
           items == Report!Shown(queued)
           must == Report!Must(v2.held)
           forced == Report!Forced(v2.market, v2.held)
           n == Report!Calls(v3, items, forced)
           result == Report!Analyze(v3, items, v2.sample, forced)
           few == Report!Cardinality(Report!Reportable(queued)) < WorthACall
<1>1. /\ queued \in Queues /\ v3 \in AnswerPairs
      /\ v4 = Report!Verdict(Report!Reportable(queued), must, v2.previous, result)
  BY DEF ReportOK, Report!Market
<1>2. Report!Attempt = n
  BY DEF Report!Attempt
<1>3. result.ok => /\ result.publish => result.text = Report!Paragraphs(v3[n].text)
                   /\ ~result.publish => v3[n].form = "object" /\ ~Report!Publishes(v3[n], forced)
  BY <1>1, AnalysisIsBelieved
<1>4. ASSUME v4.verdict = "held"
      PROVE  \/ ~must /\ few
             \/ ~forced /\ v3[n].form = "object" /\ v3[n].publish = "no"
             \/ ~must /\ ~result.ok
             \/ v2.previous # <<>> /\ Report!Paragraphs(v3[n].text) = v2.previous
  <2> HIDE DEF result, must, forced, n, queued
  <2>1. \/ few /\ ~must
        \/ ~result.ok /\ ~must
        \/ result.ok /\ (~result.publish \/ Report!SameText(result.text, v2.previous))
    BY <1>1, <1>4 DEF Report!Verdict, Report!Held, Report!MadePublic
  <2> QED
    BY <1>3, <2>1 DEF Report!SameText, Report!Publishes
<1>5. ASSUME n = 2
      PROVE  \/ v3[1].form \in {"nothing", "broken"}
             \/ DOMAIN Report!Highlights(v3[1].highlights, items) = {}
             \/ Len(v3[1].highlights) > Report!HighlightLimit(Report!Cardinality(DOMAIN items))
  BY <1>1, <1>5, AskedAgainForNothing
<1> HIDE DEF n
<1> QED
  BY <1>2, <1>4, <1>5, Zenon DEF Report!SilenceHasAReason

-----------------------------------------------------------------------------
(* Together *)

MachinesInvariant ==
  /\ part = "llm" => LlmInvariant
  /\ part = "registry" => SourcesOK
  /\ part = "quotes" => QuotesInvariant
  /\ part = "prefilter" => FilterOK
  /\ part = "learning" => LearnOK
  /\ part = "universe" => UniverseOK
  /\ part = "sentiment" => SentimentOK
  /\ part = "watch" => PageOK
  /\ part = "briefing" => TalkOK
  /\ part = "report" => ReportOK

LEMMA MachinesInit == Init => MachinesInvariant
BY LlmBegins, SourcesInit, QuotesBegin, FilterInit, LearnInit, UniverseInit, SentimentInit, PageInit, TalkInit,
   ReportInit DEF Init, MachinesInvariant

(* A step of the whole is one of the part it belongs to, or none.            *)
LEMMA OnePart ==
  ASSUME [Next]_v
  PROVE  /\ part' = part
         /\ part = "llm" => [Llm!Next]_(Llm!vars)
         /\ part = "registry" => [Registry!Next]_(Registry!vars)
         /\ part = "quotes" => [Prices!Next]_(Prices!vars)
         /\ part = "prefilter" => [Filter!Next]_(Filter!vars)
         /\ part = "learning" => [Learning!Next]_(Learning!vars)
         /\ part = "universe" => [Names!Next]_(Names!vars)
         /\ part = "sentiment" => [Sentiment!Next]_(Sentiment!vars)
         /\ part = "watch" => [Page!Next]_(Page!vars)
         /\ part = "briefing" => [Talk!Next]_(Talk!vars)
         /\ part = "report" => [Report!Next]_(Report!vars)
<1>1. CASE Next
  BY <1>1 DEF Next, LlmSteps, PrefilterSteps, LearningSteps, RegistrySteps, QuotesSteps,
     UniverseSteps, SentimentSteps, WatchSteps, BriefingSteps, ReportSteps
<1>2. CASE UNCHANGED v
  BY <1>2 DEF v, Llm!vars, Registry!vars, Prices!vars, Filter!vars, Learning!vars, Names!vars, Sentiment!vars,
     Page!vars, Talk!vars, Report!vars
<1> QED
  BY <1>1, <1>2

LEMMA MachinesStep ==
  ASSUME MachinesInvariant, [Next]_v
  PROVE  /\ MachinesInvariant'
         /\ part = "llm" => Llm!StayingAway
<1>1. part = "llm" => LlmInvariant' /\ Llm!StayingAway
  BY OnePart, LlmGoesOn DEF MachinesInvariant
<1>2. part = "registry" => SourcesOK'
  BY OnePart, SourcesGoOn DEF MachinesInvariant
<1>3. part = "quotes" => QuotesInvariant'
  BY OnePart, QuotesGoOn DEF MachinesInvariant
<1>4. part = "watch" => PageOK'
  BY OnePart, PageGoesOn DEF MachinesInvariant
<1>5. part = "briefing" => TalkOK'
  BY OnePart, TalkGoesOn DEF MachinesInvariant
<1>6. part = "learning" => LearnOK'
  BY OnePart, LearnGoesOn DEF MachinesInvariant
<1>7. part = "universe" => UniverseOK'
  BY OnePart, UniverseGoesOn DEF MachinesInvariant
<1>8. part = "sentiment" => SentimentOK'
  BY OnePart, SentimentGoesOn DEF MachinesInvariant
<1>9. part = "prefilter" => FilterOK'
  BY OnePart, FilterGoesOn DEF MachinesInvariant
<1>10. part = "report" => ReportOK'
  BY OnePart, ReportGoesOn DEF MachinesInvariant
<1> QED
  BY OnePart, <1>1, <1>2, <1>3, <1>4, <1>5, <1>6, <1>7, <1>8, <1>9, <1>10 DEF MachinesInvariant

(* Each part keeps its invariant whatever the configuration says of          *)
(* thresholds, rests, times to live, bounds and the size of a pack.          *)
THEOREM MachinesAreSound == Spec => []MachinesInvariant
<1>1. MachinesInvariant /\ [Next]_v => MachinesInvariant'
  BY MachinesStep
<1> QED
  BY <1>1, MachinesInit, PTL DEF Spec

(* Of a day's spent quota the operator hears once, but for the restarts      *)
(* between the message and its record (llm_status.py); no source of news is  *)
(* left out without a reason or for longer than its rest (registry.py); old  *)
(* quotes are served only while their provider rests (quotes.py).            *)
THEOREM FailuresStayKept == Spec => []FailuresAreKept
<1>1. MachinesInvariant => FailuresAreKept
  <2>1. LlmInvariant => Llm!ToldOncePerDay
    BY NoticeTells DEF LlmInvariant
  <2>2. SourcesOK => Registry!OutForAReason
    BY SourcesTell
  <2>3. QuotesInvariant => Prices!OldOnlyAfterFailure
    BY DEF QuotesInvariant, Prices!OldOnlyAfterFailure
  <2> QED
    BY <2>1, <2>2, <2>3 DEF MachinesInvariant, FailuresAreKept
<1> QED
  BY <1>1, MachinesAreSound, PTL

(* A purpose whose last answer spoke of the quota, the credentials or the    *)
(* request, or of the rate for good, sends nothing before the time is over   *)
(* (llm/backends.py).                                                        *)
THEOREM StaysAwayAlways == Spec => StaysAway
<1>1. MachinesInvariant /\ [Next]_v => [part = "llm" => Llm!StayingAway]_v
  BY MachinesStep
<1> QED
  BY <1>1, MachinesAreSound, PTL DEF Spec, StaysAway

(* The prefilter stops repetitions and nothing else: an event whose mark is  *)
(* there does not come back in the cooldown, any other event of a feed is    *)
(* offered once, and no two sources of a cycle bring the same one            *)
(* (news_prefilter/service.py).                                              *)
THEOREM NewsIsAlwaysOffered == Spec => []NewsIsOffered
<1>1. MachinesInvariant => NewsIsOffered
  BY DEF MachinesInvariant, NewsIsOffered, FilterOK, OfferOK
<1> QED
  BY <1>1, MachinesAreSound, PTL

(* What is kept of earlier days agrees with what happened on them: the       *)
(* samples of the learner are what its files told and its bar is the one     *)
(* stored (prefilter_learning.py), a stock stays known until its market is   *)
(* collected anew and a code names one stock (universe.py), and a day is     *)
(* settled only by headlines taken after it was over (market_digest.py).     *)
THEOREM MemoryStaysTrue == Spec => []MemoryIsTrue
<1>1. MachinesInvariant => MemoryIsTrue
  BY LearnTells, UniverseTells, SentimentTells DEF MachinesInvariant, MemoryIsTrue
<1> QED
  BY <1>1, MachinesAreSound, PTL

(* A page of an account has each article of its hours, and none twice,       *)
(* although the bot replaces both files while the web reads them             *)
(* (publish.py, portfolio/watch.py); a briefing is told once, and a new one  *)
(* is refused while one is being made (handlers/briefing.py).                *)
THEOREM ReadersAreServed == Spec => []ReaderIsServed
<1>1. MachinesInvariant => ReaderIsServed
  BY PageShowsEachOnce, TalkTells DEF MachinesInvariant, ReaderIsServed
<1> QED
  BY <1>1, MachinesAreSound, PTL

(* What the model answers of a market is used for what it was asked: an      *)
(* importance is learned once and of the article it was meant for, whatever  *)
(* ids, titles and rows the answers hold, and a market stays silent, and the *)
(* model is asked again, only for a reason (news/report.py,                  *)
(* llm/news_report.py).                                                      *)
THEOREM ReportsStayHonest == Spec => []ReportIsHonest
<1>1. MachinesInvariant => ReportIsHonest
  BY LabelsTell, SilenceTells DEF MachinesInvariant, ReportIsHonest
<1> QED
  BY <1>1, MachinesAreSound, PTL
=============================================================================

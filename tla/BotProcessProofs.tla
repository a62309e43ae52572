--------------------------- MODULE BotProcessProofs ---------------------------
(***************************************************************************)
(* The pool of threads, alone and inside the bot process, for every limit,  *)
(* every set of calls and every set of research runs.                        *)
(*                                                                         *)
(* The pool never lets a call wait for a thread it could have created.  The   *)
(* argument is a balance: below the limit every idle announcement, every      *)
(* queued item and every item being executed stands for one thread, plus one  *)
(* while submit has put its item and not yet accounted for it.              *)
(*                                                                         *)
(* A drain that ended in time left nothing: every call that has not ended is  *)
(* in one place, the queue or a thread, and a file is written by a thread.   *)
(*                                                                         *)
(* A research saves on what it read: the run that works holds the lock, the   *)
(* result of any other cannot be on its way, and a topic that is changed     *)
(* meanwhile marks the run.                                                 *)
(***************************************************************************)
EXTENDS BotProcess, FiniteSetTheorems, SequenceTheorems, TLAPS

States == {"unborn", "waits", "holds", "runs", "returns", "ended"}

PoolType ==
  /\ worker \in [Threads -> States]
  /\ idle \in Nat
  /\ engaging \in BOOLEAN
  /\ queue \in Seq(Jobs \cup {Stop})
  /\ drain = "no" => queue \in Seq(Jobs)

Owed == IF engaging THEN 1 ELSE 0

Balance ==
  (Born # Threads /\ drain = "no") =>
    idle + Len(queue) + Cardinality(Executing) = Cardinality(Born) + Owed

PoolInvariant == PoolType /\ Balance

-----------------------------------------------------------------------------
(* Threads, and every set of them, are finite.                                *)
LEMMA ThreadsAreFinite ==
  /\ IsFiniteSet(Threads)
  /\ IsFiniteSet(Born) /\ IsFiniteSet(Executing)
  /\ Cardinality(Born) \in Nat /\ Cardinality(Executing) \in Nat
<1>1. IsFiniteSet(Threads)
  BY PoolAssumption, FS_Interval DEF Threads
<1>2. Born \subseteq Threads /\ Executing \subseteq Threads
  BY DEF Born, Executing
<1>3. IsFiniteSet(Born) /\ IsFiniteSet(Executing)
  BY <1>1, <1>2, FS_Subset
<1> QED BY <1>1, <1>3, FS_CardinalityType

(* Executing threads were started; the others are what a queued call waits for. *)
LEMMA FreeThreads ==
  ASSUME PoolType
  PROVE  Cardinality(Born \ Executing) = Cardinality(Born) - Cardinality(Executing)
<1>1. Executing \subseteq Born
  BY DEF Executing, Born
<1>2. Born \cap Executing = Executing
  BY <1>1
<1>3. Cardinality(Born \ Executing) = Cardinality(Born) - Cardinality(Born \cap Executing)
  BY ThreadsAreFinite, FS_Difference
<1> QED BY <1>2, <1>3

(* The balance is what keeps a call from waiting.                             *)
LEMMA BalanceSuffices == PoolInvariant => PoolNeverStalls
<1> SUFFICES ASSUME PoolInvariant, ~engaging, Born # Threads, drain = "no"
             PROVE  Len(queue) =< Cardinality(Born \ Executing)
  BY DEF PoolNeverStalls
<1>1. idle + Len(queue) + Cardinality(Executing) = Cardinality(Born)
  BY ThreadsAreFinite DEF PoolInvariant, Balance, Owed
<1>2. idle \in Nat /\ Len(queue) \in Nat
  BY DEF PoolInvariant, PoolType
<1>3. Cardinality(Born \ Executing) = Cardinality(Born) - Cardinality(Executing)
  BY FreeThreads DEF PoolInvariant
<1> QED BY <1>1, <1>2, <1>3, ThreadsAreFinite

LEMMA InitBalanced == PoolInit => PoolInvariant
<1> SUFFICES ASSUME PoolInit PROVE PoolInvariant
  OBVIOUS
<1>1. Born = {} /\ Executing = {}
  BY DEF PoolInit, Born, Executing
<1>2. Cardinality(Born) = 0 /\ Cardinality(Executing) = 0
  BY <1>1, FS_EmptySet
<1>3. PoolType
  <2>1. worker \in [Threads -> States]
    BY DEF PoolInit, States
  <2>2. idle \in Nat /\ engaging \in BOOLEAN
    BY DEF PoolInit
  <2>3. queue = <<>>
    BY DEF PoolInit
  <2> QED BY <2>1, <2>2, <2>3 DEF PoolType
<1> QED BY <1>2, <1>3 DEF PoolInit, PoolInvariant, Balance, Owed

-----------------------------------------------------------------------------
(* What each kind of step does to the two sets.                              *)
LEMMA SameThreads ==
  ASSUME worker' = worker
  PROVE  Born' = Born /\ Executing' = Executing
BY DEF Born, Executing

LEMMA ThreadStarts ==
  ASSUME PoolType, NEW t \in Threads \ Born, worker' = [worker EXCEPT ![t] = "waits"]
  PROVE  /\ Cardinality(Born') = Cardinality(Born) + 1
         /\ Executing' = Executing
<1>1. Born' = Born \cup {t}
  BY DEF PoolType, Born
<1>2. t \notin Born
  OBVIOUS
<1>3. Cardinality(Born \cup {t}) = Cardinality(Born) + 1
  BY <1>2, ThreadsAreFinite, FS_AddElement
<1>4. worker[t] = "unborn"
  BY DEF Born
<1>5. Executing' = Executing
  BY <1>4 DEF PoolType, Executing
<1> QED BY <1>1, <1>3, <1>5

LEMMA ThreadTakes ==
  ASSUME PoolType, NEW t \in Threads, worker[t] = "waits", worker' = [worker EXCEPT ![t] = "holds"]
  PROVE  /\ Born' = Born
         /\ Cardinality(Executing') = Cardinality(Executing) + 1
<1>1. Born' = Born
  BY DEF PoolType, Born
<1>2. Executing' = Executing \cup {t} /\ t \notin Executing
  BY DEF PoolType, Executing
<1>3. Cardinality(Executing \cup {t}) = Cardinality(Executing) + 1
  BY <1>2, ThreadsAreFinite, FS_AddElement
<1> QED BY <1>1, <1>2, <1>3

LEMMA ThreadReturns ==
  ASSUME PoolType, NEW t \in Threads, worker[t] = "returns", worker' = [worker EXCEPT ![t] = "waits"]
  PROVE  /\ Born' = Born
         /\ Cardinality(Executing') = Cardinality(Executing) - 1
<1>1. Born' = Born
  BY DEF PoolType, Born
<1>2. Executing' = Executing \ {t} /\ t \in Executing
  BY DEF PoolType, Executing
<1>3. Cardinality(Executing \ {t}) = Cardinality(Executing) - 1
  BY <1>2, ThreadsAreFinite, FS_RemoveElement
<1> QED BY <1>1, <1>2, <1>3

LEMMA ThreadGoesOn ==
  ASSUME PoolType, NEW t \in Threads, worker[t] \in {"holds", "runs"},
         NEW s \in {"runs", "returns"}, worker' = [worker EXCEPT ![t] = s]
  PROVE  Born' = Born /\ Executing' = Executing
BY DEF PoolType, Born, Executing

-----------------------------------------------------------------------------
LEMMA SubmitBalanced ==
  ASSUME PoolInvariant, NEW j \in Jobs, Submit(j)
  PROVE  PoolInvariant'
<1>1. PoolType'
  BY DEF PoolInvariant, PoolType, Submit
<1>2. Born' = Born /\ Executing' = Executing
  BY SameThreads DEF Submit
<1>3. Len(queue') = Len(queue) + 1
  BY DEF PoolInvariant, PoolType, Submit
<1>4. Owed = 0 /\ Owed' = 1
  BY DEF Owed, Submit
<1>5. Len(queue) \in Nat /\ idle \in Nat /\ idle' = idle /\ drain' = drain
  BY DEF PoolInvariant, PoolType, Submit
<1>6. Balance'
  BY <1>2, <1>3, <1>4, <1>5, ThreadsAreFinite DEF PoolInvariant, Balance
<1> QED BY <1>1, <1>6 DEF PoolInvariant

LEMMA EngageBalanced ==
  ASSUME PoolInvariant, Engage
  PROVE  PoolInvariant'
<1>0. Owed = 1 /\ Owed' = 0 /\ queue' = queue /\ drain' = drain
  BY DEF Owed, Engage
<1>1. Len(queue) \in Nat /\ idle \in Nat
  BY DEF PoolInvariant, PoolType
<1>2. CASE idle > 0
  <2>1. idle' = idle - 1 /\ worker' = worker
    BY <1>2 DEF Engage
  <2>2. PoolType'
    <3>1. idle' \in Nat
      BY <1>1, <1>2, <2>1
    <3>2. engaging' \in BOOLEAN
      BY DEF Engage
    <3> QED BY <1>0, <2>1, <3>1, <3>2 DEF PoolInvariant, PoolType
  <2>3. Born' = Born /\ Executing' = Executing
    BY <2>1, SameThreads
  <2>4. Balance'
    BY <1>0, <1>1, <1>2, <2>1, <2>3, ThreadsAreFinite DEF PoolInvariant, Balance
  <2> QED BY <2>2, <2>4 DEF PoolInvariant
<1>3. CASE ~(idle > 0) /\ Born = Threads
  <2>1. idle' = idle /\ worker' = worker
    BY <1>3 DEF Engage
  <2>2. PoolType'
    BY <1>0, <2>1 DEF PoolInvariant, PoolType, Engage
  <2>3. Born' = Threads
    BY <1>3, <2>1, SameThreads
  <2>4. Balance'
    BY <2>3 DEF Balance, Threads
  <2> QED BY <2>2, <2>4 DEF PoolInvariant
<1>4. CASE ~(idle > 0) /\ Born # Threads
  <2>1. PICK t \in Threads \ Born : worker' = [worker EXCEPT ![t] = "waits"] /\ idle' = idle
    BY <1>4 DEF Engage
  <2>2. PoolType'
    BY <1>0, <2>1 DEF PoolInvariant, PoolType, Engage, States
  <2>3. Cardinality(Born') = Cardinality(Born) + 1 /\ Executing' = Executing
    BY <2>1, ThreadStarts DEF PoolInvariant
  <2>4. Balance'
    BY <1>0, <1>1, <1>4, <2>1, <2>3, ThreadsAreFinite DEF PoolInvariant, Balance
  <2> QED BY <2>2, <2>4 DEF PoolInvariant
<1> QED BY <1>2, <1>3, <1>4

LEMMA TakeBalanced ==
  ASSUME PoolInvariant, NEW t \in Threads, Take(t)
  PROVE  PoolInvariant'
<1>0. Owed' = Owed /\ idle' = idle /\ drain' = drain /\ queue' = Tail(queue) /\ queue # <<>>
  BY DEF Owed, Take
<1>1. Len(queue) \in Nat /\ idle \in Nat /\ Len(queue') = Len(queue) - 1
  BY <1>0 DEF PoolInvariant, PoolType
<1>2. queue' \in Seq(Jobs \cup {Stop}) /\ (drain = "no" => queue' \in Seq(Jobs) /\ Head(queue) # Stop)
  BY <1>0, PoolAssumption DEF PoolInvariant, PoolType
<1>3. worker' \in [Threads -> States] /\ engaging' = engaging
  BY DEF PoolInvariant, PoolType, Take, States
<1>4. PoolType'
  BY <1>0, <1>2, <1>3 DEF PoolInvariant, PoolType
<1>5. SUFFICES ASSUME drain = "no" PROVE Balance'
  BY <1>0, <1>4 DEF PoolInvariant, Balance
<1>6. worker[t] = "waits" /\ worker' = [worker EXCEPT ![t] = "holds"]
  BY <1>2, <1>5 DEF Take
<1>7. Born' = Born /\ Cardinality(Executing') = Cardinality(Executing) + 1
  BY <1>6, ThreadTakes DEF PoolInvariant
<1> QED BY <1>0, <1>1, <1>7, ThreadsAreFinite DEF PoolInvariant, Balance

LEMMA ReturnBalanced ==
  ASSUME PoolInvariant, NEW t \in Threads, Return(t)
  PROVE  PoolInvariant'
<1>0. Owed' = Owed /\ idle' = idle + 1 /\ drain' = drain /\ queue' = queue /\ engaging' = engaging
  BY DEF Owed, Return
<1>1. Len(queue) \in Nat /\ idle \in Nat
  BY DEF PoolInvariant, PoolType
<1>2. worker[t] = "returns" /\ worker' = [worker EXCEPT ![t] = "waits"]
  BY DEF Return
<1>3. PoolType'
  BY <1>0, <1>2 DEF PoolInvariant, PoolType, States
<1>4. Born' = Born /\ Cardinality(Executing') = Cardinality(Executing) - 1
  BY <1>2, ThreadReturns DEF PoolInvariant
<1>5. Balance'
  BY <1>0, <1>1, <1>4, ThreadsAreFinite DEF PoolInvariant, Balance
<1> QED BY <1>3, <1>5 DEF PoolInvariant

LEMMA GoesOnBalanced ==
  ASSUME PoolInvariant, NEW t \in Threads,
         Begin(t) \/ \E o \in {"done", "failed"} : Finish(t, o)
  PROVE  PoolInvariant'
<1>0. Owed' = Owed /\ idle' = idle /\ drain' = drain /\ queue' = queue /\ engaging' = engaging
  BY DEF Owed, Begin, Finish
<1>1. PICK s \in {"runs", "returns"} : worker' = [worker EXCEPT ![t] = s]
  BY DEF Begin, Finish
<1>2. worker[t] \in {"holds", "runs"}
  BY DEF Begin, Finish
<1>3. PoolType'
  BY <1>0, <1>1 DEF PoolInvariant, PoolType, States
<1>4. Born' = Born /\ Executing' = Executing
  BY <1>1, <1>2, ThreadGoesOn DEF PoolInvariant
<1>5. Balance'
  BY <1>0, <1>4 DEF PoolInvariant, Balance
<1> QED BY <1>3, <1>5 DEF PoolInvariant

(* Before the drain nothing but calls and threads changes the balance, and     *)
(* after it began the balance is no longer claimed.                          *)
LEMMA EndBalanced ==
  ASSUME PoolInvariant,
         \/ RequestShutdown
         \/ \E j \in Jobs : CancelCall(j)
         \/ Drain \/ CancelQueued \/ DrainEnds \/ DrainGivesUp
  PROVE  PoolInvariant'
<1>1. worker' = worker /\ idle' = idle /\ engaging' = engaging
  BY DEF RequestShutdown, CancelCall, Drain, CancelQueued, DrainEnds, DrainGivesUp
<1>2. Born' = Born /\ Executing' = Executing /\ Owed' = Owed
  BY <1>1, SameThreads DEF Owed
<1>3. CASE CancelQueued
  <2>1. drain' # "no"
    BY <1>3 DEF CancelQueued
  <2>2. queue' \in Seq(Jobs \cup {Stop})
    <3>1. CASE queue # <<>>
      BY <1>3, <3>1 DEF CancelQueued, PoolInvariant, PoolType
    <3>2. CASE queue = <<>>
      <4>1. queue' = [n \in 1..Cardinality(Born) |-> Stop]
        BY <1>3, <3>2 DEF CancelQueued
      <4> QED BY <4>1, ThreadsAreFinite
    <3> QED BY <3>1, <3>2
  <2> QED BY <1>1, <2>1, <2>2 DEF PoolInvariant, PoolType, Balance
<1>4. CASE ~CancelQueued
  <2>1. queue' = queue /\ (drain' = "no" => drain = "no")
    BY <1>4 DEF RequestShutdown, CancelCall, Drain, DrainEnds, DrainGivesUp
  <2> QED BY <1>1, <1>2, <2>1 DEF PoolInvariant, PoolType, Balance
<1> QED BY <1>3, <1>4

LEMMA StepBalanced == PoolInvariant /\ [PoolNext]_poolVars => PoolInvariant'
<1> SUFFICES ASSUME PoolInvariant, [PoolNext]_poolVars PROVE PoolInvariant'
  OBVIOUS
<1>1. CASE UNCHANGED poolVars
  <2>1. Born' = Born /\ Executing' = Executing
    BY <1>1, SameThreads DEF poolVars
  <2> QED BY <1>1, <2>1 DEF poolVars, PoolInvariant, PoolType, Balance, Owed
<1>2. CASE PoolNext
  <2>1. CASE \E j \in Jobs : Submit(j)
    BY <2>1, SubmitBalanced
  <2>2. CASE Engage
    BY <2>2, EngageBalanced
  <2>3. CASE \E t \in Threads : Take(t)
    BY <2>3, TakeBalanced
  <2>4. CASE \E t \in Threads : Return(t)
    BY <2>4, ReturnBalanced
  <2>5. CASE \E t \in Threads : Begin(t) \/ \E o \in {"done", "failed"} : Finish(t, o)
    BY <2>5, GoesOnBalanced
  <2>6. CASE \/ RequestShutdown
             \/ \E j \in Jobs : CancelCall(j)
             \/ Drain \/ CancelQueued \/ DrainEnds \/ DrainGivesUp
    BY <2>6, EndBalanced
  <2> QED BY <1>2, <2>1, <2>2, <2>3, <2>4, <2>5, <2>6 DEF PoolNext
<1> QED BY <1>1, <1>2

(* For any limit and any calls: no call waits for a thread that could exist.  *)
THEOREM NeverStalls == PoolSpec => []PoolNeverStalls
<1>1. PoolInit => PoolInvariant
  BY InitBalanced
<1>2. PoolInvariant /\ [PoolNext]_poolVars => PoolInvariant'
  BY StepBalanced
<1>3. PoolInvariant => PoolNeverStalls
  BY BalanceSuffices
<1> QED BY <1>1, <1>2, <1>3, PTL DEF PoolSpec

-----------------------------------------------------------------------------
(* Where the calls are                                                       *)

CallStates == {"none", "pending", "running", "done", "failed", "cancelled"}

Carries(t) == worker[t] \in {"holds", "runs"}
Queued(j) == \E i \in 1..Len(queue) : queue[i] = j

CallType ==
  /\ item \in [Threads -> Jobs \cup {Stop}]
  /\ call \in [Jobs -> CallStates]
  /\ closed \in BOOLEAN /\ stopping \in BOOLEAN
  /\ drain \in {"no", "cancels", "waits", "clean", "late"}

(* A call is in the queue once, or with one thread.                          *)
OnePlace ==
  /\ \A i, k \in 1..Len(queue) : queue[i] = queue[k] /\ queue[i] # Stop => i = k
  /\ \A t, u \in Threads : Carries(t) /\ Carries(u) /\ item[t] = item[u] => t = u
  /\ \A t \in Threads : Carries(t) => item[t] \in Jobs /\ ~Queued(item[t])

(* What the state of a call says of its place.                               *)
CallsOK ==
  /\ \A j \in Jobs : call[j] = "none" =>
       ~Queued(j) /\ \A t \in Threads : Carries(t) => item[t] # j
  /\ \A j \in Jobs : call[j] = "pending" =>
       Queued(j) \/ \E t \in Threads : worker[t] = "holds" /\ item[t] = j
  /\ \A j \in Jobs : call[j] = "running" => \E t \in Threads : worker[t] = "runs" /\ item[t] = j
  /\ \A t \in Threads : worker[t] = "runs" => call[item[t]] = "running"

(* How far the end of the pool has come.                                     *)
EndOK ==
  /\ closed <=> drain # "no"
  /\ closed => stopping /\ ~engaging
  /\ drain \in {"waits", "clean", "late"} => \A i \in 1..Len(queue) : queue[i] = Stop
  /\ drain = "clean" => \A t \in Threads : worker[t] \in {"unborn", "ended"}

PoolCalls == PoolType /\ CallType /\ OnePlace /\ CallsOK /\ EndOK

(* Nothing is left of a call when the queue holds Stops and no thread works.  *)
LEMMA NothingLeft == PoolCalls => DrainIsComplete
<1> SUFFICES ASSUME PoolCalls, drain = "clean", NEW j \in Jobs
             PROVE  call[j] \notin {"pending", "running"}
  BY DEF DrainIsComplete
<1>1. \A t \in Threads : worker[t] \notin {"holds", "runs"}
  BY DEF PoolCalls, EndOK
<1>2. ~Queued(j)
  BY PoolAssumption DEF PoolCalls, EndOK, Queued
<1> QED
  BY <1>1, <1>2 DEF PoolCalls, CallsOK

LEMMA InitPlaced == PoolInit => PoolCalls
<1> SUFFICES ASSUME PoolInit PROVE PoolCalls
  OBVIOUS
<1>1. PoolType
  BY InitBalanced DEF PoolInvariant
<1>2. CallType /\ EndOK
  BY DEF PoolInit, CallType, CallStates, EndOK
<1>3. queue = <<>> /\ \A t \in Threads : worker[t] = "unborn"
  BY DEF PoolInit
<1>4. OnePlace
  BY <1>3 DEF OnePlace, Carries
<1>5. CallsOK
  BY <1>3 DEF PoolInit, CallsOK, Carries, Queued
<1> QED
  BY <1>1, <1>2, <1>4, <1>5 DEF PoolCalls

(* An item joins the queue; an item leaves it.                               *)
LEMMA Joined ==
  ASSUME PoolType, NEW j \in Jobs, queue' = Append(queue, j)
  PROVE  /\ \A x : Queued(x)' <=> Queued(x) \/ x = j
         /\ Len(queue') = Len(queue) + 1 /\ queue'[Len(queue) + 1] = j
         /\ \A i \in 1..Len(queue) : queue'[i] = queue[i]
<1>1. queue \in Seq(Jobs \cup {Stop}) /\ Len(queue) \in Nat
  BY DEF PoolType
<1>2. /\ Len(queue') = Len(queue) + 1 /\ queue'[Len(queue) + 1] = j
      /\ \A i \in 1..Len(queue) : queue'[i] = queue[i]
  BY <1>1
<1> QED
  BY <1>1, <1>2 DEF Queued

LEMMA Left ==
  ASSUME PoolType, queue # <<>>, queue' = Tail(queue)
  PROVE  /\ Len(queue) \in Nat /\ Len(queue') = Len(queue) - 1
         /\ \A i \in 1..Len(queue') : queue'[i] = queue[i + 1] /\ i + 1 \in 1..Len(queue)
         /\ Head(queue) = queue[1] /\ 1 \in 1..Len(queue)
         /\ \A x : Queued(x)' => Queued(x)
         /\ \A x : Queued(x) => Queued(x)' \/ x = Head(queue)
         /\ Head(queue) \in Jobs \cup {Stop}
<1>1. queue \in Seq(Jobs \cup {Stop}) /\ Len(queue) \in Nat
  BY DEF PoolType
<1>2. Len(queue') = Len(queue) - 1 /\ Head(queue) = queue[1] /\ 1 \in 1..Len(queue)
  BY <1>1
<1>3. \A i \in 1..Len(queue') : queue'[i] = queue[i + 1] /\ i + 1 \in 1..Len(queue)
  BY <1>1
<1>4. \A x : Queued(x)' => Queued(x)
  BY <1>3 DEF Queued
<1>5. ASSUME NEW x, Queued(x), x # Head(queue) PROVE Queued(x)'
  <2>1. PICK i \in 1..Len(queue) : queue[i] = x
    BY <1>5 DEF Queued
  <2>2. i # 1
    BY <1>2, <1>5, <2>1
  <2>3. i - 1 \in 1..Len(queue')
    BY <1>1, <1>2, <2>2
  <2>4. queue'[i - 1] = x
    BY <1>1, <1>3, <2>1, <2>3
  <2> QED
    BY <2>3, <2>4 DEF Queued
<1> QED
  BY <1>1, <1>2, <1>3, <1>4, <1>5

(* Steps that move no call leave each in its place.                          *)
LEMMA Unmoved ==
  ASSUME OnePlace, CallsOK, UNCHANGED <<queue, item, call>>,
         \A t \in Threads : Carries(t)' <=> Carries(t),
         \A t \in Threads : worker'[t] = "holds" <=> worker[t] = "holds",
         \A t \in Threads : worker'[t] = "runs" <=> worker[t] = "runs"
  PROVE  OnePlace' /\ CallsOK'
<1>1. \A j : Queued(j)' <=> Queued(j)
  BY DEF Queued
<1>2. OnePlace'
  BY <1>1 DEF OnePlace
<1>3. CallsOK'
  BY <1>1 DEF CallsOK
<1> QED
  BY <1>2, <1>3

LEMMA SubmitPlaced ==
  ASSUME PoolCalls, NEW j \in Jobs, Submit(j)
  PROVE  CallType' /\ OnePlace' /\ CallsOK' /\ EndOK'
<1>1. /\ PoolType /\ CallType /\ OnePlace /\ CallsOK /\ EndOK
  BY DEF PoolCalls
<1>2. /\ queue' = Append(queue, j) /\ call[j] = "none" /\ ~closed
      /\ call' = [call EXCEPT ![j] = "pending"]
      /\ UNCHANGED <<worker, item, closed, stopping, drain>>
  BY DEF Submit
<1>3. /\ \A x : Queued(x)' <=> Queued(x) \/ x = j
      /\ Len(queue') = Len(queue) + 1 /\ queue'[Len(queue) + 1] = j /\ Len(queue) \in Nat
      /\ \A i \in 1..Len(queue) : queue'[i] = queue[i]
  BY <1>1, <1>2, Joined DEF PoolType
<1>4. CallType'
  BY <1>1, <1>2 DEF CallType, CallStates
<1>5. ~Queued(j) /\ \A t \in Threads : Carries(t) => item[t] # j
  BY <1>1, <1>2 DEF CallsOK
<1>6. OnePlace'
  <2>1. ASSUME NEW i \in 1..Len(queue'), NEW k \in 1..Len(queue'), queue'[i] = queue'[k],
               queue'[i] # Stop
        PROVE  i = k
    <3>1. \A l \in 1..Len(queue') : l \in 1..Len(queue) \/ l = Len(queue) + 1
      BY <1>3
    <3>2. \A l \in 1..Len(queue) : queue[l] # j
      BY <1>5 DEF Queued
    <3>3. CASE i \in 1..Len(queue) /\ k \in 1..Len(queue)
      BY <1>1, <1>3, <2>1, <3>3 DEF OnePlace
    <3> QED
      BY <1>3, <2>1, <3>1, <3>2, <3>3
  <2>2. \A t \in Threads : Carries(t)' <=> Carries(t)
    BY <1>2 DEF Carries
  <2>3. \A t, u \in Threads : Carries(t)' /\ Carries(u)' /\ item'[t] = item'[u] => t = u
    BY <1>1, <1>2, <2>2 DEF OnePlace
  <2>4. \A t \in Threads : Carries(t)' => item'[t] \in Jobs /\ \A x : x = item'[t] => ~Queued(x)'
    BY <1>1, <1>2, <1>3, <1>5, <2>2 DEF OnePlace
  <2> QED
    BY <2>1, <2>3, <2>4 DEF OnePlace, Queued
<1>7. CallsOK'
  <2>1. \A x \in Jobs : call'[x] = IF x = j THEN "pending" ELSE call[x]
    BY <1>1, <1>2 DEF CallType
  <2> QED
    BY <1>1, <1>2, <1>3, <1>5, <2>1 DEF CallsOK, OnePlace, Carries
<1>8. EndOK'
  BY <1>1, <1>2 DEF EndOK
<1> QED
  BY <1>4, <1>6, <1>7, <1>8

LEMMA EngagePlaced ==
  ASSUME PoolCalls, Engage
  PROVE  CallType' /\ OnePlace' /\ CallsOK' /\ EndOK'
<1>1. PoolType /\ CallType /\ OnePlace /\ CallsOK /\ EndOK
  BY DEF PoolCalls
<1>2. engaging /\ ~engaging' /\ UNCHANGED <<queue, item, call, closed, stopping, drain>>
  BY DEF Engage
<1>3. \A t \in Threads : worker'[t] = worker[t] \/ (worker[t] = "unborn" /\ worker'[t] = "waits")
  BY <1>1 DEF Engage, PoolType, Born
<1>4. OnePlace' /\ CallsOK'
  BY <1>1, <1>2, <1>3, Unmoved DEF Carries
<1> QED
  BY <1>1, <1>2, <1>3, <1>4 DEF CallType, EndOK

LEMMA TakePlaced ==
  ASSUME PoolCalls, NEW t \in Threads, Take(t)
  PROVE  CallType' /\ OnePlace' /\ CallsOK' /\ EndOK'
<1>1. PoolType /\ CallType /\ OnePlace /\ CallsOK /\ EndOK
  BY DEF PoolCalls
<1>2. /\ worker[t] = "waits" /\ queue # <<>> /\ queue' = Tail(queue)
      /\ UNCHANGED <<call, engaging, closed, stopping, drain>>
  BY DEF Take
<1>3. /\ Len(queue) \in Nat /\ Len(queue') = Len(queue) - 1
      /\ \A i \in 1..Len(queue') : queue'[i] = queue[i + 1] /\ i + 1 \in 1..Len(queue)
      /\ Head(queue) = queue[1] /\ 1 \in 1..Len(queue)
      /\ \A x : Queued(x)' => Queued(x)
      /\ \A x : Queued(x) => Queued(x)' \/ x = Head(queue)
      /\ Head(queue) \in Jobs \cup {Stop}
  BY <1>1, <1>2, Left
<1>4. \A i, k \in 1..Len(queue') : queue'[i] = queue'[k] /\ queue'[i] # Stop => i = k
  <2> SUFFICES ASSUME NEW i \in 1..Len(queue'), NEW k \in 1..Len(queue'), queue'[i] = queue'[k],
                      queue'[i] # Stop
               PROVE  i = k
    OBVIOUS
  <2>1. queue[i + 1] = queue[k + 1] /\ queue[i + 1] # Stop
        /\ i + 1 \in 1..Len(queue) /\ k + 1 \in 1..Len(queue)
    BY <1>3
  <2>2. i + 1 = k + 1
    BY <1>1, <2>1 DEF OnePlace
  <2> QED
    BY <2>2
<1>5. CASE Head(queue) = Stop
  <2>1. worker' = [worker EXCEPT ![t] = "ended"] /\ item' = item
    BY <1>5 DEF Take
  <2>2. /\ \A u \in Threads : Carries(u)' <=> Carries(u)
        /\ \A u \in Threads : worker'[u] = "holds" <=> worker[u] = "holds"
        /\ \A u \in Threads : worker'[u] = "runs" <=> worker[u] = "runs"
        /\ \A u \in Threads : worker'[u] \in {worker[u], "ended"}
    BY <1>1, <1>2, <2>1 DEF Carries, PoolType
  <2>3. \A x \in Jobs : Queued(x)' <=> Queued(x)
    BY <1>3, <1>5, PoolAssumption
  <2>4. \A u \in Threads : Carries(u)' => item'[u] \in Jobs /\ \A x : x = item'[u] => ~Queued(x)'
    BY <1>1, <1>3, <2>1, <2>2 DEF OnePlace
  <2>5. OnePlace'
    BY <1>1, <1>4, <2>1, <2>2, <2>4 DEF OnePlace, Queued
  <2>6. CallsOK'
    BY <1>1, <1>2, <2>1, <2>2, <2>3 DEF CallsOK
  <2>7. EndOK'
    BY <1>1, <1>2, <1>3, <2>2 DEF EndOK
  <2> QED
    BY <1>1, <1>2, <2>1, <2>5, <2>6, <2>7 DEF CallType
<1>6. CASE Head(queue) # Stop
  <2> DEFINE h == Head(queue)
  <2>1. worker' = [worker EXCEPT ![t] = "holds"] /\ item' = [item EXCEPT ![t] = h] /\ h \in Jobs
    BY <1>3, <1>6 DEF Take
  <2>2. Queued(h)
    BY <1>3 DEF Queued
  <2>3. \A i \in 1..Len(queue') : queue'[i] # h
    <3> SUFFICES ASSUME NEW i \in 1..Len(queue'), queue'[i] = h PROVE FALSE
      OBVIOUS
    <3>1. queue[i + 1] = queue[1] /\ queue[1] # Stop /\ i + 1 \in 1..Len(queue) /\ 1 \in 1..Len(queue)
      BY <1>3, <1>6
    <3>2. i + 1 = 1
      BY <1>1, <3>1 DEF OnePlace
    <3> QED
      BY <3>2
  <2>4. \A u \in Threads : Carries(u) => item[u] # h
    BY <1>1, <2>2 DEF OnePlace
  <2>5. /\ worker'[t] = "holds" /\ item'[t] = h /\ ~Carries(t)
        /\ \A u \in Threads \ {t} : worker'[u] = worker[u] /\ item'[u] = item[u]
    BY <1>1, <1>2, <2>1 DEF Carries, PoolType, CallType
  <2>6. \A u \in Threads : Carries(u)' <=> Carries(u) \/ u = t
    BY <2>5 DEF Carries
  <2>7. \A u \in Threads : Carries(u)' => item'[u] \in Jobs /\ \A x : x = item'[u] => ~Queued(x)'
    <3>1. \A x : x = h => ~Queued(x)'
      BY <2>3 DEF Queued
    <3> QED
      BY <1>1, <1>3, <2>1, <2>5, <2>6, <3>1 DEF OnePlace
  <2>8. \A u, w \in Threads : Carries(u)' /\ Carries(w)' /\ item'[u] = item'[w] => u = w
    BY <1>1, <2>4, <2>5, <2>6 DEF OnePlace
  <2>9. OnePlace'
    BY <1>4, <2>7, <2>8 DEF OnePlace, Queued
  <2>10. CallsOK'
    <3>1. \A j \in Jobs : call[j] = "none" => j # h
      BY <1>1, <2>2 DEF CallsOK
    <3>2. \A j \in Jobs : call[j] = "none" =>
            ~Queued(j)' /\ \A u \in Threads : Carries(u)' => item'[u] # j
      BY <1>1, <1>3, <2>5, <2>6, <3>1 DEF CallsOK
    <3>3. \A j \in Jobs : call[j] = "pending" =>
            Queued(j)' \/ \E u \in Threads : worker'[u] = "holds" /\ item'[u] = j
      <4> SUFFICES ASSUME NEW j \in Jobs, call[j] = "pending", ~Queued(j)'
                   PROVE  \E u \in Threads : worker'[u] = "holds" /\ item'[u] = j
        OBVIOUS
      <4>1. CASE j = h
        BY <2>5, <4>1
      <4>2. CASE j # h
        <5>1. PICK u \in Threads : worker[u] = "holds" /\ item[u] = j
          BY <1>1, <1>3, <4>2 DEF CallsOK
        <5> QED
          BY <1>2, <2>5, <5>1
      <4> QED
        BY <4>1, <4>2
    <3>4. \A j \in Jobs : call[j] = "running" => \E u \in Threads : worker'[u] = "runs" /\ item'[u] = j
      BY <1>1, <1>2, <2>5 DEF CallsOK
    <3>5. \A u \in Threads : worker'[u] = "runs" => call[item'[u]] = "running"
      BY <1>1, <2>5 DEF CallsOK
    <3> QED
      BY <1>2, <3>2, <3>3, <3>4, <3>5 DEF CallsOK
  <2>11. EndOK'
    <3>1. drain \notin {"waits", "clean", "late"}
      BY <1>1, <1>3, <1>6 DEF EndOK
    <3> QED
      BY <1>1, <1>2, <3>1 DEF EndOK
  <2> QED
    BY <1>1, <1>2, <2>1, <2>9, <2>10, <2>11 DEF CallType
<1> QED
  BY <1>5, <1>6

LEMMA BeginPlaced ==
  ASSUME PoolCalls, NEW t \in Threads, Begin(t)
  PROVE  CallType' /\ OnePlace' /\ CallsOK' /\ EndOK'
<1> DEFINE h == item[t]
<1>1. PoolType /\ CallType /\ OnePlace /\ CallsOK /\ EndOK
  BY DEF PoolCalls
<1>2. /\ worker[t] = "holds" /\ UNCHANGED <<queue, item, engaging, closed, stopping, drain>>
      /\ \A x : Queued(x)' <=> Queued(x)
  BY DEF Begin, Queued
<1>3. h \in Jobs /\ ~Queued(h) /\ \A u \in Threads \ {t} : Carries(u) => item[u] # h
  BY <1>1, <1>2 DEF OnePlace, Carries
<1>4. /\ worker'[t] \in {"runs", "returns"}
      /\ \A u \in Threads \ {t} : worker'[u] = worker[u]
      /\ \A j \in Jobs \ {h} : call'[j] = call[j]
      /\ call' \in [Jobs -> CallStates]
      /\ worker'[t] = "runs" <=> call[h] = "pending" /\ ~stopping
      /\ worker'[t] = "runs" => call'[h] = "running"
      /\ worker'[t] = "returns" =>
           call'[h] \notin {"none", "pending"} /\ (call'[h] = "running" => call[h] = "running")
  BY <1>1, <1>2, <1>3 DEF Begin, PoolType, CallType, CallStates, CallsOK, Carries
<1>5. call[h] # "running"
  BY <1>1, <1>2, <1>3 DEF CallsOK, Carries
<1>6. OnePlace'
  BY <1>1, <1>2, <1>4 DEF OnePlace, Carries
<1>7. CallsOK'
  <2>1. \A j \in Jobs : call'[j] = "none" => ~Queued(j) /\ \A u \in Threads : Carries(u)' => item[u] # j
    BY <1>1, <1>2, <1>4 DEF CallsOK, Carries
  <2>2. \A j \in Jobs : call'[j] = "pending" =>
          Queued(j) \/ \E u \in Threads : worker'[u] = "holds" /\ item[u] = j
    BY <1>1, <1>4 DEF CallsOK
  <2>3. \A j \in Jobs : call'[j] = "running" => \E u \in Threads : worker'[u] = "runs" /\ item[u] = j
    BY <1>1, <1>2, <1>4, <1>5 DEF CallsOK
  <2>4. \A u \in Threads : worker'[u] = "runs" => call'[item[u]] = "running"
    BY <1>1, <1>3, <1>4 DEF CallsOK, OnePlace, Carries
  <2> QED
    BY <1>2, <2>1, <2>2, <2>3, <2>4 DEF CallsOK
<1>8. EndOK'
  BY <1>1, <1>2, <1>4 DEF EndOK
<1> QED
  BY <1>1, <1>2, <1>4, <1>6, <1>7, <1>8 DEF CallType

LEMMA FinishPlaced ==
  ASSUME PoolCalls, NEW t \in Threads, NEW o \in {"done", "failed"}, Finish(t, o)
  PROVE  CallType' /\ OnePlace' /\ CallsOK' /\ EndOK'
<1> DEFINE h == item[t]
<1>1. PoolType /\ CallType /\ OnePlace /\ CallsOK /\ EndOK
  BY DEF PoolCalls
<1>2. /\ worker[t] = "runs" /\ UNCHANGED <<queue, item, engaging, closed, stopping, drain>>
      /\ \A x : Queued(x)' <=> Queued(x)
  BY DEF Finish, Queued
<1>3. h \in Jobs /\ \A u \in Threads \ {t} : Carries(u) => item[u] # h
  BY <1>1, <1>2 DEF OnePlace, Carries
<1>4. /\ worker'[t] = "returns" /\ \A u \in Threads \ {t} : worker'[u] = worker[u]
      /\ call'[h] = o /\ \A j \in Jobs \ {h} : call'[j] = call[j]
      /\ call' \in [Jobs -> CallStates]
  BY <1>1, <1>3 DEF Finish, PoolType, CallType, CallStates
<1>5. OnePlace'
  BY <1>1, <1>2, <1>4 DEF OnePlace, Carries
<1>6. CallsOK'
  <2>1. \A j \in Jobs : call'[j] = "none" => ~Queued(j) /\ \A u \in Threads : Carries(u)' => item[u] # j
    BY <1>1, <1>4 DEF CallsOK, Carries
  <2>2. \A j \in Jobs : call'[j] = "pending" =>
          Queued(j) \/ \E u \in Threads : worker'[u] = "holds" /\ item[u] = j
    BY <1>1, <1>2, <1>4 DEF CallsOK
  <2>3. \A j \in Jobs : call'[j] = "running" => \E u \in Threads : worker'[u] = "runs" /\ item[u] = j
    BY <1>1, <1>4 DEF CallsOK
  <2>4. \A u \in Threads : worker'[u] = "runs" => call'[item[u]] = "running"
    BY <1>1, <1>3, <1>4 DEF CallsOK, OnePlace, Carries
  <2> QED
    BY <1>2, <2>1, <2>2, <2>3, <2>4 DEF CallsOK
<1>7. EndOK'
  BY <1>1, <1>2, <1>4 DEF EndOK
<1> QED
  BY <1>1, <1>2, <1>4, <1>5, <1>6, <1>7 DEF CallType

LEMMA ReturnPlaced ==
  ASSUME PoolCalls, NEW t \in Threads, Return(t)
  PROVE  CallType' /\ OnePlace' /\ CallsOK' /\ EndOK'
<1>1. PoolType /\ CallType /\ OnePlace /\ CallsOK /\ EndOK
  BY DEF PoolCalls
<1>2. /\ worker[t] = "returns" /\ UNCHANGED <<queue, call, engaging, closed, stopping, drain>>
      /\ \A x : Queued(x)' <=> Queued(x)
  BY DEF Return, Queued
<1>3. /\ worker'[t] = "waits"
      /\ \A u \in Threads \ {t} : worker'[u] = worker[u] /\ item'[u] = item[u]
  BY <1>1 DEF Return, PoolType, CallType
<1>4. OnePlace'
  BY <1>1, <1>2, <1>3 DEF OnePlace, Carries
<1>5. CallsOK'
  BY <1>1, <1>2, <1>3 DEF CallsOK, Carries
<1>6. EndOK'
  BY <1>1, <1>2, <1>3 DEF EndOK
<1>7. CallType'
  BY <1>1, <1>2 DEF CallType, Return
<1> QED
  BY <1>4, <1>5, <1>6, <1>7

(* Calls that wait are cancelled, one or many at once.                       *)
CancelsSome ==
  /\ call' \in [Jobs -> CallStates]
  /\ \A j \in Jobs : call'[j] = call[j] \/ (call[j] = "pending" /\ call'[j] = "cancelled")
  /\ UNCHANGED <<queue, idle, worker, item, engaging, closed, stopping, drain>>

LEMMA CancelledPlaced ==
  ASSUME PoolCalls, CancelsSome
  PROVE  PoolCalls'
<1>1. PoolType /\ CallType /\ OnePlace /\ CallsOK /\ EndOK
  BY DEF PoolCalls
<1>2. /\ \A x : Queued(x)' <=> Queued(x)
      /\ \A t \in Threads : Carries(t)' <=> Carries(t)
  BY DEF CancelsSome, Queued, Carries
<1>3. CallsOK'
  BY <1>1, <1>2 DEF CallsOK, OnePlace, Carries, CancelsSome
<1>4. OnePlace'
  BY <1>1, <1>2 DEF OnePlace, CancelsSome
<1> QED
  BY <1>1, <1>3, <1>4 DEF PoolCalls, PoolType, CallType, EndOK, CancelsSome

LEMMA CancelQueuedPlaced ==
  ASSUME PoolCalls, CancelQueued
  PROVE  CallType' /\ OnePlace' /\ CallsOK' /\ EndOK'
<1>1. PoolType /\ CallType /\ OnePlace /\ CallsOK /\ EndOK
  BY DEF PoolCalls
<1>2. /\ drain = "cancels" /\ UNCHANGED <<worker, item, engaging, closed, stopping>>
      /\ \A t \in Threads : Carries(t)' <=> Carries(t)
  BY DEF CancelQueued, Carries
<1>3. CASE queue # <<>>
  <2> DEFINE h == Head(queue)
  <2>1. /\ queue' = Tail(queue) /\ drain' = drain
        /\ call' = [call EXCEPT ![h] = IF @ = "pending" THEN "cancelled" ELSE @]
    BY <1>3 DEF CancelQueued
  <2>2. /\ Len(queue) \in Nat /\ Len(queue') = Len(queue) - 1
        /\ \A i \in 1..Len(queue') : queue'[i] = queue[i + 1] /\ i + 1 \in 1..Len(queue)
        /\ \A x : Queued(x)' => Queued(x)
        /\ \A x : Queued(x) => Queued(x)' \/ x = h
        /\ h \in Jobs \cup {Stop}
    BY <1>1, <1>3, <2>1, Left
  <2>3. /\ \A j \in Jobs : call'[j] = IF j = h /\ call[j] = "pending" THEN "cancelled" ELSE call[j]
        /\ call' \in [Jobs -> CallStates]
    BY <1>1, <2>1 DEF CallType, CallStates
  <2>4. \A i, k \in 1..Len(queue') : queue'[i] = queue'[k] /\ queue'[i] # Stop => i = k
    <3> SUFFICES ASSUME NEW i \in 1..Len(queue'), NEW k \in 1..Len(queue'), queue'[i] = queue'[k],
                        queue'[i] # Stop
                 PROVE  i = k
      OBVIOUS
    <3>1. queue[i + 1] = queue[k + 1] /\ queue[i + 1] # Stop
          /\ i + 1 \in 1..Len(queue) /\ k + 1 \in 1..Len(queue)
      BY <2>2
    <3>2. i + 1 = k + 1
      BY <1>1, <3>1 DEF OnePlace
    <3> QED
      BY <3>2
  <2>5. \A t \in Threads : Carries(t)' => item'[t] \in Jobs /\ \A x : x = item'[t] => ~Queued(x)'
    BY <1>1, <1>2, <2>2 DEF OnePlace
  <2>6. OnePlace'
    BY <1>1, <1>2, <2>4, <2>5 DEF OnePlace, Queued
  <2>7. CallsOK'
    <3>1. \A j \in Jobs : call'[j] = "none" =>
            ~Queued(j)' /\ \A u \in Threads : Carries(u)' => item'[u] # j
      BY <1>1, <1>2, <2>2, <2>3 DEF CallsOK
    <3>2. \A j \in Jobs : call'[j] = "pending" =>
            Queued(j)' \/ \E u \in Threads : worker'[u] = "holds" /\ item'[u] = j
      BY <1>1, <1>2, <2>2, <2>3 DEF CallsOK
    <3>3. \A j \in Jobs : call'[j] = "running" => \E u \in Threads : worker'[u] = "runs" /\ item'[u] = j
      BY <1>1, <1>2, <2>3 DEF CallsOK
    <3>4. \A u \in Threads : worker'[u] = "runs" => call'[item'[u]] = "running"
      BY <1>1, <1>2, <2>3 DEF CallsOK, OnePlace, Carries
    <3> QED
      BY <3>1, <3>2, <3>3, <3>4 DEF CallsOK
  <2>8. EndOK'
    BY <1>1, <1>2, <2>1 DEF EndOK
  <2> QED
    BY <1>1, <1>2, <2>1, <2>3, <2>6, <2>7, <2>8 DEF CallType
<1>4. CASE queue = <<>>
  <2>1. /\ queue' = [n \in 1..Cardinality(Born) |-> Stop] /\ drain' = "waits" /\ call' = call
    BY <1>4 DEF CancelQueued
  <2>2. Len(queue') = Cardinality(Born) /\ \A i \in 1..Len(queue') : queue'[i] = Stop
    BY <2>1, ThreadsAreFinite
  <2>3. \A j \in Jobs : ~Queued(j) /\ ~Queued(j)'
    BY <1>4, <2>2, PoolAssumption DEF Queued
  <2>4. \A t \in Threads : Carries(t)' => item'[t] \in Jobs /\ \A x : x = item'[t] => ~Queued(x)'
    BY <1>1, <1>2, <2>3 DEF OnePlace
  <2>5. OnePlace'
    BY <1>1, <1>2, <2>2, <2>4 DEF OnePlace, Queued
  <2>6. CallsOK'
    BY <1>1, <1>2, <2>1, <2>3 DEF CallsOK
  <2>7. EndOK'
    BY <1>1, <1>2, <2>1, <2>2 DEF EndOK
  <2> QED
    BY <1>1, <1>2, <2>1, <2>5, <2>6, <2>7 DEF CallType
<1> QED
  BY <1>3, <1>4

LEMMA EndPlaced ==
  ASSUME PoolCalls, RequestShutdown \/ Drain \/ DrainEnds \/ DrainGivesUp
  PROVE  CallType' /\ OnePlace' /\ CallsOK' /\ EndOK'
<1>1. PoolType /\ CallType /\ OnePlace /\ CallsOK /\ EndOK
  BY DEF PoolCalls
<1>2. UNCHANGED <<queue, worker, item, call, engaging>>
  BY DEF RequestShutdown, Drain, DrainEnds, DrainGivesUp
<1>3. OnePlace' /\ CallsOK'
  BY <1>1, <1>2, Unmoved DEF Carries
<1>4. EndOK' /\ CallType'
  <2>1. CASE RequestShutdown
    BY <1>1, <2>1 DEF RequestShutdown, EndOK, CallType
  <2>2. CASE Drain
    BY <1>1, <2>2 DEF Drain, EndOK, CallType
  <2>3. CASE DrainEnds
    BY <1>1, <2>3 DEF DrainEnds, EndOK, CallType, Born
  <2>4. CASE DrainGivesUp
    BY <1>1, <2>4 DEF DrainGivesUp, EndOK, CallType
  <2> QED
    BY <2>1, <2>2, <2>3, <2>4
<1> QED
  BY <1>3, <1>4

LEMMA StepPlaced == PoolInvariant /\ PoolCalls /\ [PoolNext]_poolVars => PoolCalls'
<1> SUFFICES ASSUME PoolInvariant, PoolCalls, [PoolNext]_poolVars PROVE PoolCalls'
  OBVIOUS
<1>1. PoolType'
  BY StepBalanced DEF PoolInvariant
<1>2. CASE UNCHANGED poolVars
  <2>1. OnePlace' /\ CallsOK'
    BY <1>2, Unmoved DEF poolVars, PoolCalls, Carries
  <2> QED
    BY <1>1, <1>2, <2>1 DEF poolVars, PoolCalls, CallType, EndOK
<1>3. ASSUME NEW j \in Jobs, CancelCall(j) PROVE PoolCalls'
  BY <1>3, CancelledPlaced DEF CancelCall, CancelsSome, PoolCalls, CallType, CallStates
<1>4. CASE PoolNext /\ ~\E j \in Jobs : CancelCall(j)
  <2>1. CallType' /\ OnePlace' /\ CallsOK' /\ EndOK'
    BY <1>4, SubmitPlaced, EngagePlaced, TakePlaced, BeginPlaced, FinishPlaced, ReturnPlaced,
       CancelQueuedPlaced, EndPlaced DEF PoolNext
  <2> QED
    BY <1>1, <2>1 DEF PoolCalls
<1> QED
  BY <1>2, <1>3, <1>4

(* For any limit and any calls: no call is left when a drain ended in time.   *)
THEOREM DrainLeavesNothing == PoolSpec => []DrainIsComplete
<1>1. PoolInit => PoolInvariant /\ PoolCalls
  BY InitBalanced, InitPlaced
<1>2. PoolInvariant /\ PoolCalls /\ [PoolNext]_poolVars => (PoolInvariant /\ PoolCalls)'
  BY StepBalanced, StepPlaced
<1> QED
  BY <1>1, <1>2, NothingLeft, PTL DEF PoolSpec

-----------------------------------------------------------------------------
(* The bot process                                                           *)

Sights == Topics \cup {Nobody}
Histories == Seq(Sights)
MemType == [sight : Sights, history : Histories, last : Sights]
Stages == {"idle", "waits", "collects", "analyzes", "saves", "publishes", "ended", "cancelled"}
Active == {"collects", "analyzes", "saves", "publishes"}
Outcomes == {"none", "running", "done", "failed"}
OpenType == [at : {"open", "written"}, inode : Inodes, data : MemType]

TaskType ==
  /\ research \in [Runs -> Stages]
  /\ topic \in [Runs -> Sights] /\ base \in [Runs -> Histories]
  /\ lock \in Runs \cup {Nobody} /\ analysis \in [Runs -> Outcomes]
  /\ moved \subseteq Runs

FileType ==
  /\ mem \in MemType
  /\ writer \in [Writers -> {Resting} \cup OpenType]
  /\ temp \in Inodes \cup {0} /\ target \in Inodes
  /\ content \in [Inodes -> MemType \cup {Empty, Torn}]
  /\ confirmed \in Sights

(* Where a run is, and what became of the call that saves its result.        *)
ResearchOK ==
  /\ \A r \in Runs : research[r] \in Active => lock = r
  /\ \A r \in Runs :
       /\ research[r] \in {"idle", "waits", "collects", "analyzes"} => call[Call(r, "save")] = "none"
       /\ research[r] = "publishes" => call[Call(r, "save")] = "done"
       /\ research[r] = "ended" => call[Call(r, "save")] \notin {"pending", "running"}
       /\ research[r] = "cancelled" => stopping /\ \A q \in Runs : research[q] \in Over

(* A run's file is written by the thread that executes its save.             *)
WritersOK ==
  \A r \in Runs : writer[r].at # "no" =>
    \E t \in Threads : worker[t] = "runs" /\ item[t] = Call(r, "save")

(* What is not of the pool has ended too.                                    *)
QuietOK ==
  drain = "clean" => writer[User].at = "no" /\ \A r \in Runs : analysis[r] # "running"

Unsaved(r) == call[Call(r, "save")] \in {"none", "pending"}

(* Without a topic there is no history before a run saves.                   *)
ForgottenOK ==
  \A r \in Runs : research[r] \in {"collects", "analyzes", "saves"} /\ Unsaved(r) /\ mem.sight = Nobody
                  => mem.history = <<>>

BotInvariant ==
  /\ PoolInvariant /\ PoolCalls
  /\ TaskType /\ FileType
  /\ ResearchOK /\ WritersOK /\ QuietOK
  /\ ForgottenOK /\ SavedOnTopOfWhatItRead

(* The calls of the runs are calls, and no two are one.                      *)
LEMMA CallsOfRuns ==
  /\ \A r \in Runs : Call(r, "save") \in Jobs /\ Call(r, "publish") \in Jobs
  /\ \A r, q \in Runs : Call(r, "save") # Call(q, "publish")
  /\ \A r, q \in Runs : Call(r, "save") = Call(q, "save") => r = q
  /\ \A r \in Runs : Call(r, "save")[1] = r /\ Call(r, "save")[2] = "save"
  /\ \A j \in Jobs : j[2] = "save" => j[1] \in Runs
BY BotAssumption DEF Call

LEMMA Defaults ==
  /\ Default \in MemType /\ Nobody \in Sights /\ Resting.at = "no"
  /\ User \in Writers /\ Runs \subseteq Writers
BY DEF Default, MemType, Sights, Histories, Resting, Writers

-----------------------------------------------------------------------------
(* The pool inside the process                                               *)

LEMMA PoolSteps ==
  ASSUME PoolCalls, [Next]_vars
  PROVE  [PoolNext]_poolVars \/ CancelsSome \/ Restart
<1>1. ASSUME NEW r \in Runs, Save(r) \/ Publish(r) PROVE PoolNext
  BY <1>1, CallsOfRuns DEF Save, Publish, PoolNext
<1>2. ASSUME NEW j \in Jobs, OtherWork(j) PROVE PoolNext
  BY <1>2 DEF OtherWork, PoolNext
<1>3. CASE ThreadMoves \/ Stopping \/ Draining
  BY <1>3 DEF ThreadMoves, Stopping, Draining, AllEnded, PoolNext
<1>4. ASSUME NEW t \in Threads, ResultSaved(t) PROVE PoolNext
  BY <1>4 DEF ResultSaved, PoolNext
<1>5. CASE TasksCancelled
  BY <1>5 DEF TasksCancelled, CancelsSome, PoolCalls, CallType, CallStates
<1>7. ASSUME NEW r \in Runs, \/ StartRun(r) \/ Enter(r) \/ NothingCollected(r) \/ Analyze(r)
                             \/ AnalysisEnds(r) \/ RunEnds(r)
      PROVE  UNCHANGED poolVars
  BY <1>7 DEF StartRun, Enter, NothingCollected, Analyze, AnalysisEnds, RunEnds
<1>8. ASSUME NEW t, SetSight(t) \/ SaveResult(t) PROVE UNCHANGED poolVars
  BY <1>8 DEF SetSight, SaveResult
<1>9. ASSUME SightSaved \/ \E w \in Writers : Writes(w) PROVE UNCHANGED poolVars
  BY <1>9 DEF SightSaved, Writes
<1>10. CASE UNCHANGED vars
  BY <1>10 DEF vars
<1> QED
  BY <1>1, <1>2, <1>3, <1>4, <1>5, <1>7, <1>8, <1>9, <1>10 DEF Next, FileMoves

LEMMA PoolInside ==
  ASSUME PoolInvariant, PoolCalls, [Next]_vars
  PROVE  PoolInvariant' /\ PoolCalls'
<1>1. CASE [PoolNext]_poolVars
  BY <1>1, StepBalanced, StepPlaced
<1>2. CASE CancelsSome
  <2>1. Born' = Born /\ Executing' = Executing
    BY <1>2, SameThreads DEF CancelsSome
  <2>2. PoolInvariant'
    BY <1>2, <2>1 DEF CancelsSome, PoolInvariant, PoolType, Balance, Owed
  <2> QED
    BY <1>2, <2>2, CancelledPlaced
<1>3. CASE Restart
  <2>1. /\ queue' = <<>> /\ idle' = 0 /\ engaging' = FALSE /\ worker' = [t \in Threads |-> "unborn"]
        /\ item' = [t \in Threads |-> Stop] /\ call' \in [Jobs -> {"none", "failed"}]
        /\ closed' = FALSE /\ stopping' = FALSE /\ drain' = "no"
    BY <1>3 DEF Restart
  <2>2. Born' = {} /\ Executing' = {}
    BY <2>1 DEF Born, Executing
  <2>3. PoolType'
    <3>1. worker' \in [Threads -> States]
      BY <2>1 DEF States
    <3>2. engaging' \in BOOLEAN
      BY <2>1
    <3> QED
      BY <2>1, <3>1, <3>2 DEF PoolType
  <2>4. PoolInvariant'
    BY <2>1, <2>2, <2>3, FS_EmptySet DEF PoolInvariant, Balance, Owed
  <2>5. CallType' /\ EndOK'
    BY <2>1 DEF CallType, CallStates, EndOK
  <2>6. OnePlace'
    BY <2>1 DEF OnePlace, Carries
  <2>7. CallsOK'
    BY <2>1 DEF CallsOK, Carries, Queued
  <2> QED
    BY <2>3, <2>4, <2>5, <2>6, <2>7 DEF PoolCalls
<1> QED
  BY <1>1, <1>2, <1>3, PoolSteps

-----------------------------------------------------------------------------
(* The state file                                                            *)

LEMMA InodesAre == IsFiniteSet(Inodes) /\ Cardinality(Inodes) = Cardinality(Runs) + 2 /\ 0 \notin Inodes
                   /\ 1 \in Inodes /\ Cardinality(Runs) \in Nat
<1>1. Cardinality(Runs) \in Nat
  BY BotAssumption, FS_CardinalityType
<1> QED
  BY <1>1, FS_Interval DEF Inodes

(* A thread that opens a new temporary file finds an inode for it.           *)
LEMMA UnusedExists ==
  ASSUME FileType, temp = 0, NEW w \in Writers, writer[w].at = "no"
  PROVE  Unused \in Inodes
<1> DEFINE others == Writers \ {w}
           held == {writer[v].inode : v \in others}
           used == held \cup {target}
<1>1. IsFiniteSet(others) /\ Cardinality(others) = Cardinality(Runs)
  <2>1. others = IF w = User THEN Runs ELSE (Runs \ {w}) \cup {User}
    BY BotAssumption DEF Writers
  <2>2. CASE w = User
    BY <2>1, <2>2, BotAssumption
  <2>3. CASE w # User
    <3>1. w \in Runs
      BY <2>3 DEF Writers
    <3>2. IsFiniteSet(Runs \ {w}) /\ Cardinality(Runs \ {w}) = Cardinality(Runs) - 1
      BY <3>1, BotAssumption, FS_RemoveElement
    <3>3. User \notin Runs \ {w}
      BY BotAssumption
    <3>4. others = (Runs \ {w}) \cup {User}
      BY <2>1, <2>3
    <3>5. /\ IsFiniteSet((Runs \ {w}) \cup {User})
          /\ Cardinality((Runs \ {w}) \cup {User}) = Cardinality(Runs \ {w}) + 1
      BY <3>2, <3>3, FS_AddElement
    <3> QED
      BY <3>2, <3>4, <3>5, InodesAre
  <2> QED
    BY <2>2, <2>3
<1>2. IsFiniteSet(held) /\ Cardinality(held) <= Cardinality(Runs)
  <2> DEFINE f == [v \in others |-> writer[v].inode]
  <2>1. f \in Surjection(others, held)
    BY DEF Surjection
  <2>2. IsFiniteSet(held) /\ Cardinality(held) <= Cardinality(others)
    BY <1>1, <2>1, FS_Surjection
  <2> QED
    BY <1>1, <2>2
<1>3. IsFiniteSet(used) /\ Cardinality(used) <= Cardinality(Runs) + 1
  <2>1. Cardinality(held) \in Nat
    BY <1>2, FS_CardinalityType
  <2>2. /\ IsFiniteSet(held \cup {target})
        /\ Cardinality(held \cup {target}) \in {Cardinality(held), Cardinality(held) + 1}
    BY <1>2, FS_AddElement
  <2> QED
    BY <1>2, <2>1, <2>2, InodesAre
<1>4. \E i \in Inodes : i \notin used
  <2> SUFFICES ASSUME Inodes \subseteq used PROVE FALSE
    OBVIOUS
  <2>1. Cardinality(Inodes) <= Cardinality(used)
    BY <1>3, FS_Subset
  <2> QED
    BY <1>3, <2>1, InodesAre, FS_CardinalityType
<1>5. \E i \in Inodes : /\ i \notin {temp, target}
                        /\ \A v \in Writers : writer[v].at # "no" => writer[v].inode # i
  BY <1>4, InodesAre
<1> QED
  BY <1>5 DEF Unused

LEMMA Opened ==
  ASSUME FileType, NEW w \in Writers, writer[w].at = "no", NEW data \in MemType, Opens(w, data)
  PROVE  /\ writer' \in [Writers -> {Resting} \cup OpenType]
         /\ temp' \in Inodes \cup {0} /\ target' \in Inodes
         /\ content' \in [Inodes -> MemType \cup {Empty, Torn}]
         /\ \A v \in Writers \ {w} : writer'[v] = writer[v]
<1> DEFINE i == IF temp = 0 THEN Unused ELSE temp
<1>1. i \in Inodes
  BY UnusedExists DEF FileType
<1>2. /\ temp' = i /\ target' = target /\ content' = [content EXCEPT ![i] = Empty]
      /\ writer' = [writer EXCEPT ![w] = [at |-> "open", inode |-> i, data |-> data]]
  BY DEF Opens
<1>3. [at |-> "open", inode |-> i, data |-> data] \in OpenType
  BY <1>1 DEF OpenType
<1> QED
  BY <1>1, <1>2, <1>3 DEF FileType

LEMMA Moved ==
  ASSUME FileType, NEW w \in Writers, Moves(w)
  PROVE  /\ writer' \in [Writers -> {Resting} \cup OpenType]
         /\ temp' \in Inodes \cup {0} /\ target' \in Inodes
         /\ content' \in [Inodes -> MemType \cup {Empty, Torn}]
         /\ \A v \in Writers \ {w} : writer'[v] = writer[v]
         /\ writer[w] \in OpenType /\ writer'[w] = Resting
<1>1. /\ writer[w].at = "written" /\ writer' = [writer EXCEPT ![w] = Resting]
      /\ temp' = 0 /\ target' = IF temp = 0 THEN target ELSE temp
      /\ content' = [i \in Inodes |-> IF \/ i = target'
                                         \/ \E v \in Writers \ {w} : writer[v].at = "open" /\ writer[v].inode = i
                                      THEN content[i] ELSE Empty]
  BY DEF Moves
<1>2. writer[w] \in OpenType
  BY <1>1, Defaults DEF FileType
<1>3. target' \in Inodes
  BY <1>1 DEF FileType
<1>4. content' \in [Inodes -> MemType \cup {Empty, Torn}]
  BY <1>1 DEF FileType
<1> QED
  BY <1>1, <1>2, <1>3, <1>4 DEF FileType

LEMMA SavedMemory ==
  ASSUME TaskType, FileType, NEW r \in Runs
  PROVE  LET h == Append(mem.history, topic[r])
         IN  [mem EXCEPT !.last = topic[r],
                         !.history = SubSeq(h, IF Len(h) > HistoryLimit THEN Len(h) - HistoryLimit + 1 ELSE 1, Len(h))]
             \in MemType
<1> DEFINE h == Append(mem.history, topic[r])
           n == IF Len(h) > HistoryLimit THEN Len(h) - HistoryLimit + 1 ELSE 1
<1>1. h \in Seq(Sights) /\ topic[r] \in Sights
  BY DEF TaskType, FileType, MemType, Histories
<1>2. Len(h) \in Nat /\ n \in Int /\ n >= 1
  BY <1>1, BotAssumption
<1>3. SubSeq(h, n, Len(h)) \in Seq(Sights)
  <2>1. \A i \in n..Len(h) : h[i] \in Sights
    BY <1>1, <1>2
  <2> QED
    BY <1>2, <2>1, SubSeqProperties
<1> QED
  BY <1>1, <1>3 DEF FileType, MemType, Histories

LEMMA ForgottenMemory ==
  ASSUME FileType, NEW t \in Sights
  PROVE  Forgetful(t) \in MemType /\ Forgetful(t).sight = t /\ Forgetful(t).history = <<>>
<1>1. mem \in MemType /\ <<>> \in Histories /\ Nobody \in Sights
  BY Defaults DEF FileType, Histories
<1>2. Forgetful(t) \in MemType
  BY <1>1 DEF Forgetful, MemType
<1> QED
  BY <1>1, <1>2 DEF Forgetful, MemType

LEMMA FileStep ==
  ASSUME BotInvariant, [Next]_vars
  PROVE  FileType'
<1>1. TaskType /\ FileType /\ PoolCalls
  BY DEF BotInvariant
<1>2. ASSUME NEW t \in Sights, SetSight(t) PROVE FileType'
  <2>1. /\ mem' \in {mem, Forgetful(t)} /\ Opens(User, mem')
        /\ writer[User].at = "no" /\ confirmed' = confirmed
    BY <1>2 DEF SetSight
  <2>2. mem' \in MemType
    BY <1>1, <2>1, ForgottenMemory DEF FileType
  <2> QED
    BY <1>1, <2>1, <2>2, Opened, Defaults DEF FileType
<1>3. ASSUME NEW t \in Threads, SaveResult(t) PROVE FileType'
  <2> DEFINE r == item[t][1]
  <2>1. r \in Runs
    BY <1>1, <1>3, CallsOfRuns DEF SaveResult, PoolCalls, OnePlace, Carries, Call
  <2>2. mem' \in MemType /\ Opens(r, mem') /\ writer[r].at = "no" /\ confirmed' = confirmed
    BY <1>1, <1>3, <2>1, SavedMemory DEF SaveResult
  <2> QED
    BY <1>1, <2>1, <2>2, Opened, Defaults DEF FileType
<1>4. ASSUME NEW t \in Threads, ResultSaved(t) PROVE FileType'
  <2>1. /\ item[t][1] \in Writers /\ Moves(item[t][1]) /\ mem' = mem /\ confirmed' = confirmed
    BY <1>4, Defaults DEF ResultSaved
  <2> QED
    BY <1>1, <2>1, Moved DEF FileType
<1>5. CASE SightSaved
  <2>1. Moves(User) /\ mem' = mem /\ confirmed' = IF temp = 0 THEN confirmed ELSE writer[User].data.sight
    BY <1>5 DEF SightSaved
  <2>2. writer[User] \in OpenType
    BY <1>1, <2>1, Moved, Defaults
  <2>3. confirmed' \in Sights
    BY <1>1, <2>1, <2>2 DEF FileType, OpenType, MemType
  <2> QED
    BY <1>1, <2>1, <2>3, Moved, Defaults DEF FileType
<1>6. ASSUME NEW w \in Writers, Writes(w) PROVE FileType'
  <2>1. writer[w] \in OpenType
    BY <1>1, <1>6, Defaults DEF FileType, Writes
  <2>2. /\ content' = [content EXCEPT ![writer[w].inode] = IF @ = Empty THEN writer[w].data ELSE Torn]
        /\ writer' = [writer EXCEPT ![w].at = "written"]
        /\ UNCHANGED <<mem, temp, target, confirmed>>
    BY <1>6 DEF Writes
  <2>3. content' \in [Inodes -> MemType \cup {Empty, Torn}]
    BY <1>1, <2>1, <2>2 DEF FileType, OpenType
  <2>4. [writer[w] EXCEPT !.at = "written"] \in OpenType
    BY <2>1 DEF OpenType
  <2>5. writer' = [writer EXCEPT ![w] = [writer[w] EXCEPT !.at = "written"]]
    BY <2>2
  <2>6. writer' \in [Writers -> {Resting} \cup OpenType]
    BY <1>1, <2>4, <2>5 DEF FileType
  <2> QED
    BY <1>1, <2>2, <2>3, <2>6 DEF FileType
<1>7. CASE Restart
  <2>1. /\ mem' = IF content[target] \in {Empty, Torn} THEN Default ELSE content[target]
        /\ writer' = [w \in Writers |-> Resting] /\ temp' = 0
        /\ content' = [i \in Inodes |-> IF i = target THEN mem' ELSE Empty]
        /\ UNCHANGED <<target, confirmed>>
    BY <1>7 DEF Restart
  <2>2. mem' \in MemType
    BY <1>1, <2>1, Defaults DEF FileType
  <2> QED
    BY <1>1, <2>1, <2>2 DEF FileType
<1>8. ASSUME UNCHANGED <<mem, fileVars, confirmed>> PROVE FileType'
  BY <1>1, <1>8 DEF fileVars, FileType
<1>9. ASSUME NEW r \in Runs, \/ StartRun(r) \/ Enter(r) \/ NothingCollected(r) \/ Analyze(r)
                             \/ AnalysisEnds(r) \/ Save(r) \/ Publish(r) \/ RunEnds(r)
      PROVE  UNCHANGED <<mem, fileVars, confirmed>>
  BY <1>9 DEF StartRun, Enter, NothingCollected, Analyze, AnalysisEnds, Save, Publish, RunEnds
<1>10. ASSUME ThreadMoves \/ Stopping \/ TasksCancelled \/ Draining \/ \E j \in Jobs : OtherWork(j)
       PROVE  UNCHANGED <<mem, fileVars, confirmed>>
  BY <1>10 DEF ThreadMoves, Stopping, TasksCancelled, Draining, OtherWork
<1>11. UNCHANGED vars => UNCHANGED <<mem, fileVars, confirmed>>
  BY DEF vars
<1> QED
  BY <1>2, <1>3, <1>4, <1>5, <1>6, <1>7, <1>8, <1>9, <1>10, <1>11
     DEF Next, FileMoves, Sights

-----------------------------------------------------------------------------
(* The runs                                                                  *)

(* Which steps move a run.                                                   *)
LEMMA RunSteps ==
  ASSUME [Next]_vars
  PROVE  \/ UNCHANGED <<research, topic, base, lock>>
         \/ Restart \/ TasksCancelled
         \/ \E r \in Runs : \/ StartRun(r) \/ Enter(r) \/ NothingCollected(r) \/ Analyze(r)
                            \/ Save(r) \/ Publish(r) \/ RunEnds(r)
<1> DEFINE Quiet == UNCHANGED <<research, topic, base, lock>>
<1>1. ASSUME ThreadMoves \/ Stopping \/ Draining \/ \E j \in Jobs : OtherWork(j)
      PROVE  Quiet
  BY <1>1 DEF ThreadMoves, Stopping, Draining, OtherWork, taskVars
<1>2. ASSUME NEW t, SetSight(t) \/ SaveResult(t) \/ ResultSaved(t) PROVE Quiet
  BY <1>2 DEF SetSight, SaveResult, ResultSaved, taskVars, poolVars
<1>3. ASSUME SightSaved \/ \E w \in Writers : Writes(w) PROVE Quiet
  BY <1>3 DEF SightSaved, Writes, taskVars
<1>4. ASSUME NEW r \in Runs, AnalysisEnds(r) PROVE Quiet
  BY <1>4 DEF AnalysisEnds
<1>5. UNCHANGED vars => Quiet
  BY DEF vars, taskVars
<1> QED
  BY <1>1, <1>2, <1>3, <1>4, <1>5 DEF Next, FileMoves

LEMMA TaskStep ==
  ASSUME BotInvariant, [Next]_vars
  PROVE  TaskType'
<1>1. TaskType /\ mem.sight \in Sights /\ mem.history \in Histories
  BY DEF BotInvariant, FileType, MemType
<1>2. ASSUME NEW r \in Runs, \/ StartRun(r) \/ Enter(r) \/ Analyze(r) \/ AnalysisEnds(r)
                             \/ Save(r) \/ Publish(r)
      PROVE  TaskType'
  BY <1>1, <1>2 DEF StartRun, Enter, Analyze, AnalysisEnds, Save, Publish, TaskType, Stages, Outcomes
<1>3. ASSUME NEW r \in Runs, NothingCollected(r) \/ RunEnds(r) PROVE TaskType'
  <2>1. Ends(r) /\ Nobody \in Sights /\ <<>> \in Histories
    BY <1>3, Defaults DEF NothingCollected, RunEnds, Histories
  <2> QED
    BY <1>1, <2>1 DEF Ends, TaskType, Stages, Outcomes
<1>4. CASE Restart
  <2>1. Nobody \in Sights /\ <<>> \in Histories
    BY Defaults DEF Histories
  <2> QED
    BY <1>1, <1>4, <2>1 DEF Restart, TaskType, Stages, Outcomes
<1>5. CASE TasksCancelled
  BY <1>1, <1>5 DEF TasksCancelled, TaskType, Stages
<1>6. ASSUME NEW t, SetSight(t) PROVE TaskType'
  BY <1>1, <1>6 DEF SetSight, taskVars, TaskType
<1>7. CASE UNCHANGED <<taskVars, moved>>
  BY <1>1, <1>7 DEF taskVars, TaskType
<1>8. ASSUME NEW t, SaveResult(t) \/ ResultSaved(t) PROVE UNCHANGED <<taskVars, moved>>
  BY <1>8 DEF SaveResult, ResultSaved
<1>9. ASSUME \/ ThreadMoves \/ Stopping \/ Draining \/ SightSaved
             \/ \E j \in Jobs : OtherWork(j)
             \/ \E w \in Writers : Writes(w)
      PROVE  UNCHANGED <<taskVars, moved>>
  BY <1>9 DEF ThreadMoves, Stopping, Draining, SightSaved, OtherWork, Writes
<1>10. UNCHANGED vars => UNCHANGED <<taskVars, moved>>
  BY DEF vars
<1> QED
  BY <1>2, <1>3, <1>4, <1>5, <1>6, <1>7, <1>8, <1>9, <1>10 DEF Next, FileMoves

(* What a step does to the call that saves a run's result.                   *)
LEMMA SaveCalls ==
  ASSUME PoolCalls, [Next]_vars, NEW r \in Runs
  PROVE  LET c == Call(r, "save")
         IN  \/ call'[c] = call[c]
             \/ Save(r) /\ call[c] = "none" /\ call'[c] = "pending"
             \/ call[c] \in {"pending", "running"} /\ call'[c] \in {"running", "done", "failed", "cancelled"}
             \/ Restart
<1> DEFINE c == Call(r, "save")
           Onward == \/ call'[c] = call[c]
                     \/ call[c] \in {"pending", "running"} /\ call'[c] \in {"running", "done", "failed", "cancelled"}
<1>1. /\ c \in Jobs /\ call \in [Jobs -> CallStates]
      /\ \A t \in Threads : Carries(t) => item[t] \in Jobs
      /\ \A t \in Threads : worker[t] = "runs" => call[item[t]] = "running"
      /\ PoolType
  BY CallsOfRuns DEF PoolCalls, CallType, OnePlace, CallsOK
<1> HIDE DEF c
<1>2. CASE Save(r)
  <2>1. call[c] = "none" /\ call' = [call EXCEPT ![c] = "pending"]
    BY <1>2 DEF Save, Submit, c
  <2> QED
    BY <1>1, <1>2, <2>1 DEF c
<1>3. ASSUME NEW j \in Jobs, Submit(j), j # c PROVE Onward
  BY <1>1, <1>3 DEF Submit
<1>4. ASSUME NEW q \in Runs, Save(q) \/ Publish(q), q # r \/ ~Save(r) PROVE Onward
  <2>1. PICK j \in {Call(q, "save"), Call(q, "publish")} : Submit(j) /\ j # c
    BY <1>4, CallsOfRuns DEF Save, Publish, c
  <2> QED
    BY <1>3, <2>1, CallsOfRuns
<1>5. ASSUME NEW j \in Jobs, OtherWork(j) PROVE Onward
  BY <1>3, <1>5, CallsOfRuns DEF OtherWork, c
<1>6. ASSUME NEW t \in Threads, Begin(t) PROVE Onward
  BY <1>1, <1>6 DEF Begin, Carries
<1>7. ASSUME NEW t \in Threads, NEW o \in {"done", "failed"}, Finish(t, o) PROVE Onward
  BY <1>1, <1>7 DEF Finish, Carries
<1>8. ASSUME NEW t \in Threads, ResultSaved(t) PROVE Onward
  BY <1>7, <1>8 DEF ResultSaved
<1>9. ASSUME ThreadMoves PROVE Onward
  BY <1>6, <1>7, <1>9 DEF ThreadMoves, Engage, Take, Return
<1>10. ASSUME TasksCancelled PROVE Onward
  BY <1>1, <1>10 DEF TasksCancelled
<1>11. ASSUME Draining PROVE Onward
  <2>1. CASE CancelQueued /\ queue # <<>>
    <3>1. call' = [call EXCEPT ![Head(queue)] = IF @ = "pending" THEN "cancelled" ELSE @]
      BY <2>1 DEF CancelQueued
    <3> QED
      BY <1>1, <3>1
  <2>2. CASE Drain \/ AllEnded \/ DrainGivesUp \/ (CancelQueued /\ queue = <<>>)
    BY <2>2 DEF Drain, AllEnded, DrainEnds, DrainGivesUp, CancelQueued
  <2> QED
    BY <1>11, <2>1, <2>2 DEF Draining
<1>12. ASSUME NEW q \in Runs, \/ StartRun(q) \/ Enter(q) \/ NothingCollected(q) \/ Analyze(q)
                              \/ AnalysisEnds(q) \/ RunEnds(q)
       PROVE  Onward
  BY <1>12 DEF StartRun, Enter, NothingCollected, Analyze, AnalysisEnds, RunEnds, poolVars
<1>13. ASSUME NEW t, SetSight(t) \/ SaveResult(t) PROVE Onward
  BY <1>13 DEF SetSight, SaveResult, poolVars
<1>14. ASSUME SightSaved \/ Stopping \/ \E w \in Writers : Writes(w) PROVE Onward
  BY <1>14 DEF SightSaved, Stopping, RequestShutdown, Writes, poolVars
<1>15. UNCHANGED vars => Onward
  BY DEF vars, poolVars
<1> QED
  BY <1>2, <1>4, <1>5, <1>8, <1>9, <1>10, <1>11, <1>12, <1>13, <1>14, <1>15 DEF Next, FileMoves, c

(* The lock is the one of the run that works, and no call of a run is still   *)
(* on its way when the run has ended.                                        *)
LEMMA ResearchStep ==
  ASSUME BotInvariant, [Next]_vars
  PROVE  ResearchOK'
<1> DEFINE c(r) == call[Call(r, "save")]
<1>1. /\ TaskType /\ ResearchOK /\ PoolCalls /\ Nobody \notin Runs
      /\ \A r \in Runs : c(r) \in CallStates
  BY BotAssumption, CallsOfRuns DEF BotInvariant, PoolCalls, CallType
<1>2. \A r \in Runs : \/ c(r)' = c(r)
                      \/ Save(r) /\ c(r) = "none" /\ c(r)' = "pending"
                      \/ c(r) \in {"pending", "running"} /\ c(r)' \in {"running", "done", "failed", "cancelled"}
                      \/ Restart
  BY <1>1, SaveCalls
<1>3. (stopping => stopping') \/ Restart
  <2>1. [PoolNext]_poolVars => (stopping => stopping')
    BY DEF PoolNext, poolVars, Submit, CancelCall, Engage, RequestShutdown, Drain, CancelQueued,
           DrainEnds, DrainGivesUp, Take, Begin, Return, Finish
  <2> QED
    BY <1>1, <2>1, PoolSteps DEF CancelsSome
<1> HIDE DEF c
<1>4. CASE Restart
  <2>1. /\ \A r \in Runs : research'[r] \in {"idle", "ended"}
        /\ \A r \in Runs : research'[r] = "idle" => research[r] = "idle"
        /\ \A r \in Runs : c(r)' = IF c(r) = "none" THEN "none" ELSE "failed"
    BY <1>1, <1>4, CallsOfRuns DEF Restart, c
  <2> QED
    BY <1>1, <2>1 DEF ResearchOK, Active, c
<1>5. CASE TasksCancelled
  <2>1. /\ stopping' /\ \A r \in Runs : research'[r] \in Over
        /\ \A r \in Runs : research'[r] = research[r] \/ research'[r] = "cancelled"
    BY <1>1, <1>5 DEF TasksCancelled, TaskType, Over
  <2>2. \A r \in Runs : ~Save(r)
    BY <1>5 DEF TasksCancelled, Save, Submit
  <2>3. ~Restart
    BY <1>5 DEF TasksCancelled, Restart
  <2> QED
    BY <1>1, <1>2, <2>1, <2>2, <2>3 DEF ResearchOK, Active, Over, c
<1>6. ASSUME ~Restart, UNCHANGED <<research, lock>> PROVE ResearchOK'
  <2>1. \A r \in Runs : ~Save(r)
    BY <1>1, <1>6 DEF Save, TaskType
  <2> QED
    BY <1>1, <1>2, <1>3, <1>6, <2>1 DEF ResearchOK, c
<1>7. ASSUME NEW q \in Runs, ~Restart, StartRun(q) PROVE ResearchOK'
  <2>1. /\ ~stopping /\ research[q] = "idle" /\ lock' = lock /\ research'[q] = "waits"
        /\ \A r \in Runs \ {q} : research'[r] = research[r]
    BY <1>1, <1>7 DEF StartRun, TaskType
  <2>2. \A r \in Runs : ~Save(r)
    BY <1>1, <1>7 DEF StartRun, Save, TaskType
  <2> QED
    BY <1>1, <1>2, <1>3, <1>7, <2>1, <2>2 DEF ResearchOK, Active, c
<1>8. ASSUME NEW q \in Runs, ~Restart,
             \/ Enter(q) \/ NothingCollected(q) \/ Analyze(q) \/ Save(q) \/ Publish(q) \/ RunEnds(q)
      PROVE  ResearchOK'
  <2>1. /\ research[q] \in {"waits", "collects", "analyzes", "saves", "publishes"}
        /\ \A r \in Runs \ {q} : research'[r] = research[r]
        /\ \A r \in Runs \ {q} : ~Save(r)
    BY <1>1, <1>8 DEF Enter, NothingCollected, Analyze, Save, Publish, RunEnds, Ends, TaskType
  <2>2. \A r \in Runs : research[r] # "cancelled"
    BY <1>1, <2>1 DEF ResearchOK, Over
  <2>3. \A r \in Runs \ {q} :
          \/ c(r)' = c(r)
          \/ c(r) \in {"pending", "running"} /\ c(r)' \in {"running", "done", "failed", "cancelled"}
    BY <1>2, <1>8, <2>1
  <2>4. \A r \in Runs \ {q} : research[r] \in Active => lock # Nobody /\ lock # q
    BY <1>1 DEF ResearchOK
  <2>5. ASSUME lock' = q \/ \A r \in Runs \ {q} : research[r] \notin Active,
               research'[q] \in Active => lock' = q,
               research'[q] \in {"idle", "waits", "collects", "analyzes"} => c(q)' = "none",
               research'[q] = "publishes" => c(q)' = "done",
               research'[q] = "ended" => c(q)' \notin {"pending", "running"},
               research'[q] # "cancelled",
               \A r \in Runs \ {q} : research[r] \notin Active
        PROVE  ResearchOK'
    BY <1>1, <2>1, <2>2, <2>3, <2>5 DEF ResearchOK, c
  <2>6. CASE Enter(q)
    <3>1. /\ research[q] = "waits" /\ lock = Nobody /\ ~Save(q)
          /\ \/ research'[q] = "ended"
             \/ research'[q] = "collects" /\ lock' = q
      BY <1>1, <2>6 DEF Enter, Save, TaskType
    <3>2. c(q) = "none" /\ c(q)' = "none"
      BY <1>1, <1>2, <1>8, <3>1 DEF ResearchOK, c
    <3> QED
      BY <2>4, <2>5, <3>1, <3>2 DEF Active
  <2>7. CASE ~Enter(q)
    <3>1. research[q] \in Active /\ lock = q /\ \A r \in Runs \ {q} : research[r] \notin Active
      BY <1>1, <1>8, <2>4, <2>7 DEF NothingCollected, Analyze, Save, Publish, RunEnds, ResearchOK, Active
    <3>2. CASE NothingCollected(q)
      <4>1. research[q] = "collects" /\ research'[q] = "ended" /\ ~Save(q)
        BY <1>1, <3>2 DEF NothingCollected, Ends, Save, TaskType
      <4> QED
        BY <1>1, <1>2, <1>8, <2>5, <3>1, <4>1 DEF ResearchOK, Active, c
    <3>3. CASE Analyze(q)
      <4>1. research[q] = "collects" /\ research'[q] = "analyzes" /\ lock' = lock /\ ~Save(q)
        BY <1>1, <3>3 DEF Analyze, Save, TaskType
      <4> QED
        BY <1>1, <1>2, <1>8, <2>5, <3>1, <4>1 DEF ResearchOK, Active, c
    <3>4. CASE Save(q)
      <4>1. research'[q] = "saves" /\ lock' = lock
        BY <1>1, <3>4 DEF Save, TaskType
      <4> QED
        BY <2>5, <3>1, <4>1
    <3>5. CASE Publish(q)
      <4>1. c(q) = "done" /\ research'[q] = "publishes" /\ lock' = lock /\ ~Save(q)
        BY <1>1, <3>5 DEF Publish, Save, TaskType, c
      <4> QED
        BY <1>2, <1>8, <2>5, <3>1, <4>1
    <3>6. CASE RunEnds(q)
      <4>1. research'[q] = "ended" /\ c(q) \notin {"pending", "running"} /\ ~Save(q)
        <5>1. Ends(q) /\ ~Save(q)
          BY <1>1, <3>6 DEF RunEnds, Ends, Save, TaskType
        <5>2. c(q) \in {"none", "failed", "done"}
          BY <1>1, <3>6 DEF RunEnds, ResearchOK, c
        <5> QED
          BY <1>1, <5>1, <5>2 DEF Ends, TaskType
      <4> QED
        BY <1>2, <1>8, <2>5, <3>1, <4>1 DEF Active
    <3> QED
      BY <1>8, <2>7, <3>2, <3>3, <3>4, <3>5, <3>6
  <2> QED
    BY <2>6, <2>7
<1> QED
  BY <1>4, <1>5, <1>6, <1>7, <1>8, RunSteps

LEMMA WritersStep ==
  ASSUME BotInvariant, [Next]_vars
  PROVE  WritersOK'
<1>1. /\ TaskType /\ FileType /\ WritersOK /\ PoolCalls /\ PoolType /\ CallType
      /\ User \notin Runs
  BY BotAssumption DEF BotInvariant, PoolCalls
<1> SUFFICES ASSUME NEW r \in Runs, writer'[r].at # "no"
             PROVE  \E t \in Threads : worker'[t] = "runs" /\ item'[t] = Call(r, "save")
  BY DEF WritersOK
<1>2. ASSUME NEW t \in Threads, SaveResult(t), item[t][1] = r
      PROVE  worker'[t] = "runs" /\ item'[t] = Call(r, "save")
  BY <1>2 DEF SaveResult, poolVars
<1>3. ASSUME writer[r].at # "no", UNCHANGED <<worker, item>>
      PROVE  \E t \in Threads : worker'[t] = "runs" /\ item'[t] = Call(r, "save")
  BY <1>1, <1>3 DEF WritersOK
<1>4. ASSUME NEW t \in Threads, SaveResult(t), item[t][1] # r
      PROVE  writer'[r] = writer[r] /\ UNCHANGED <<worker, item>>
  BY <1>1, <1>4 DEF SaveResult, Opens, FileType, Writers, poolVars
<1>5. ASSUME NEW t \in Threads, ResultSaved(t)
      PROVE  writer[r].at # "no" /\ item[t] # Call(r, "save")
  BY <1>1, <1>5, Defaults DEF ResultSaved, Moves, FileType, Writers, Call
<1>6. ASSUME NEW w \in Writers, Writes(w) PROVE writer[r].at # "no" /\ UNCHANGED <<worker, item>>
  BY <1>1, <1>6 DEF Writes, FileType, Writers, poolVars
<1>7. ASSUME SightSaved \/ \E t \in Topics \cup {Nobody} : SetSight(t)
      PROVE  writer'[r] = writer[r] /\ UNCHANGED <<worker, item>>
  BY <1>1, <1>7 DEF SightSaved, SetSight, Moves, Opens, FileType, Writers, poolVars
<1>8. ASSUME NEW t \in Threads, NEW o, Finish(t, o), item[t] # Call(r, "save"), writer[r].at # "no"
      PROVE  \E u \in Threads : worker'[u] = "runs" /\ item'[u] = Call(r, "save")
  <2>1. PICK u \in Threads : worker[u] = "runs" /\ item[u] = Call(r, "save")
    BY <1>1, <1>8 DEF WritersOK
  <2> QED
    BY <1>1, <1>8, <2>1 DEF Finish, PoolType
<1>9. CASE ThreadMoves
  <2>1. writer[r].at # "no"
    BY <1>9 DEF ThreadMoves, fileVars
  <2>2. PICK u \in Threads : worker[u] = "runs" /\ item[u] = Call(r, "save")
    BY <1>1, <2>1 DEF WritersOK
  <2>3. ASSUME NEW t \in Threads, item[t][2] # "save", Finish(t, "done")
        PROVE  \E x \in Threads : worker'[x] = "runs" /\ item'[x] = Call(r, "save")
    BY <1>8, <2>1, <2>3, CallsOfRuns
  <2>4. ASSUME Engage \/ \E t \in Threads : Take(t) \/ Begin(t) \/ Return(t)
        PROVE  worker'[u] = "runs" /\ item'[u] = item[u]
    BY <1>1, <2>2, <2>4 DEF Engage, Take, Begin, Return, Born, PoolType, CallType
  <2> QED
    BY <1>9, <2>2, <2>3, <2>4 DEF ThreadMoves
<1>10. ASSUME \/ Stopping \/ TasksCancelled \/ Draining
              \/ \E j \in Jobs : OtherWork(j)
              \/ \E q \in Runs : \/ StartRun(q) \/ Enter(q) \/ NothingCollected(q) \/ Analyze(q)
                                 \/ AnalysisEnds(q) \/ Save(q) \/ Publish(q) \/ RunEnds(q)
              \/ UNCHANGED vars
       PROVE  writer' = writer /\ UNCHANGED <<worker, item>>
  <2>1. CASE \E q \in Runs : \/ StartRun(q) \/ Enter(q) \/ NothingCollected(q) \/ Analyze(q)
                             \/ AnalysisEnds(q) \/ Save(q) \/ Publish(q) \/ RunEnds(q)
    BY <2>1 DEF StartRun, Enter, NothingCollected, Analyze, AnalysisEnds, Save, Publish, RunEnds,
                Submit, fileVars, poolVars
  <2>2. CASE \/ Stopping \/ TasksCancelled \/ Draining
             \/ \E j \in Jobs : OtherWork(j)
    BY <2>2 DEF Stopping, TasksCancelled, Draining, OtherWork, RequestShutdown, Drain, CancelQueued,
                AllEnded, DrainEnds, DrainGivesUp, Submit, fileVars
  <2> QED
    BY <1>10, <2>1, <2>2 DEF vars, fileVars, poolVars
<1>11. ~Restart
  BY Defaults DEF Restart, Writers
<1> QED
  BY <1>2, <1>3, <1>4, <1>5, <1>6, <1>7, <1>8, <1>9, <1>10, <1>11 DEF Next, FileMoves, ResultSaved

LEMMA QuietStep ==
  ASSUME BotInvariant, [Next]_vars
  PROVE  QuietOK'
<1>1. /\ TaskType /\ FileType /\ QuietOK /\ PoolCalls /\ User \notin Runs /\ EndOK
  BY BotAssumption DEF BotInvariant, PoolCalls
<1> SUFFICES ASSUME drain' = "clean"
             PROVE  writer'[User].at = "no" /\ \A r \in Runs : analysis'[r] # "running"
  BY DEF QuietOK
<1> DEFINE Still == writer[User].at = "no" /\ \A r \in Runs : analysis[r] # "running"
<1>2. CASE drain # "clean"
  <2>1. ~Restart /\ drain' # drain
    BY <1>2 DEF Restart
  <2>2. Draining
    BY <1>2, <2>1 DEF Next, FileMoves, ThreadMoves, Stopping, TasksCancelled, OtherWork, SetSight,
                      StartRun, Enter, NothingCollected, Analyze, AnalysisEnds, Save, Publish, RunEnds,
                      SaveResult, ResultSaved, Writes, SightSaved, vars, poolVars, Submit, Engage,
                      Take, Begin, Return, Finish, RequestShutdown
  <2>3. AllEnded
    BY <1>2, <2>2 DEF Draining, Drain, CancelQueued, DrainGivesUp
  <2> QED
    BY <2>2, <2>3 DEF AllEnded, Elsewhere, Draining, fileVars, taskVars
<1>3. CASE drain = "clean"
  <2>1. Still /\ closed
    BY <1>1, <1>3 DEF QuietOK, EndOK
  <2>2. ASSUME NEW t, SetSight(t) PROVE FALSE
    BY <2>1, <2>2 DEF SetSight
  <2>3. ASSUME NEW r \in Runs, Analyze(r) PROVE FALSE
    BY <2>1, <2>3 DEF Analyze
  <2>4. ~Restart /\ ~SightSaved
    BY <2>1 DEF Restart, SightSaved, Moves
  <2>5. ASSUME NEW t \in Threads, SaveResult(t)
        PROVE  writer'[User] = writer[User] /\ analysis' = analysis
    <3>1. item[t][1] # User
      BY <1>1, <2>5, CallsOfRuns DEF SaveResult, PoolCalls, OnePlace, Carries, Call
    <3> QED
      BY <1>1, <2>5, <3>1, Defaults DEF SaveResult, Opens, FileType, taskVars
  <2>6. ASSUME NEW t \in Threads, ResultSaved(t)
        PROVE  writer'[User] = writer[User] /\ analysis' = analysis
    BY <1>1, <2>6, Defaults DEF ResultSaved, Moves, FileType, taskVars
  <2>7. ASSUME NEW w \in Writers, Writes(w)
        PROVE  writer'[User] = writer[User] /\ analysis' = analysis
    BY <1>1, <2>1, <2>7, Defaults DEF Writes, FileType, taskVars
  <2>8. ASSUME NEW r \in Runs, \/ StartRun(r) \/ Enter(r) \/ NothingCollected(r)
                               \/ AnalysisEnds(r) \/ Save(r) \/ Publish(r) \/ RunEnds(r)
        PROVE  writer' = writer /\ \A q \in Runs : analysis'[q] \in {analysis[q], "none", "done", "failed"}
    BY <1>1, <2>8 DEF StartRun, Enter, NothingCollected, AnalysisEnds, Save, Publish, RunEnds, Ends,
                      TaskType, fileVars
  <2>9. ASSUME \/ ThreadMoves \/ Stopping \/ TasksCancelled \/ Draining \/ UNCHANGED vars
               \/ \E j \in Jobs : OtherWork(j)
        PROVE  writer' = writer /\ analysis' = analysis
    BY <2>9 DEF ThreadMoves, Stopping, TasksCancelled, Draining, OtherWork, vars, fileVars, taskVars
  <2> QED
    BY <2>1, <2>2, <2>3, <2>4, <2>5, <2>6, <2>7, <2>8, <2>9 DEF Next, FileMoves
<1> QED
  BY <1>2, <1>3

-----------------------------------------------------------------------------
(* What a run saves on                                                       *)

(* The thread that saves works for the run that has the lock, or for one that *)
(* was cancelled with all others.                                            *)
LEMMA LoneSaver ==
  ASSUME BotInvariant, NEW t \in Threads, SaveResult(t)
  PROVE  \A r \in Runs : research[r] \in Active => ~Unsaved(r)
<1> DEFINE q == item[t][1]
<1>1. q \in Runs /\ item[t] = Call(q, "save")
  BY CallsOfRuns DEF BotInvariant, SaveResult, PoolCalls, OnePlace, Carries, Call
<1>2. call[Call(q, "save")] = "running"
  BY <1>1 DEF BotInvariant, SaveResult, PoolCalls, CallsOK
<1>3. research[q] \in {"saves", "cancelled"}
  BY <1>1, <1>2 DEF BotInvariant, ResearchOK, TaskType, Stages
<1>4. CASE research[q] = "saves"
  BY <1>1, <1>2, <1>4 DEF BotInvariant, ResearchOK, Active, Unsaved
<1>5. CASE research[q] = "cancelled"
  BY <1>1, <1>5 DEF BotInvariant, ResearchOK, Active, Over
<1> QED
  BY <1>3, <1>4, <1>5

(* Memory is changed by a command, by a save and by the next start.          *)
LEMMA MemorySteps ==
  ASSUME [Next]_vars
  PROVE  \/ mem' = mem /\ (moved' = moved \/ \E r \in Runs : moved' = moved \ {r} /\ (Analyze(r) \/ Ends(r)))
         \/ \E t \in Sights : SetSight(t)
         \/ \E t \in Threads : SaveResult(t)
         \/ Restart
<1>1. ASSUME NEW r \in Runs, \/ StartRun(r) \/ Enter(r) \/ AnalysisEnds(r) \/ Save(r) \/ Publish(r)
      PROVE  mem' = mem /\ moved' = moved
  BY <1>1 DEF StartRun, Enter, AnalysisEnds, Save, Publish
<1>2. ASSUME NEW r \in Runs, NothingCollected(r) \/ RunEnds(r)
      PROVE  mem' = mem /\ moved' = moved \ {r} /\ Ends(r)
  BY <1>2 DEF NothingCollected, RunEnds, Ends
<1>3. ASSUME NEW r \in Runs, Analyze(r) PROVE mem' = mem /\ moved' = moved \ {r}
  BY <1>3 DEF Analyze
<1>4. ASSUME \/ ThreadMoves \/ Stopping \/ TasksCancelled \/ Draining \/ SightSaved \/ UNCHANGED vars
             \/ \E j \in Jobs : OtherWork(j)
             \/ \E w \in Writers : Writes(w)
             \/ \E t \in Threads : ResultSaved(t)
      PROVE  mem' = mem /\ moved' = moved
  BY <1>4 DEF ThreadMoves, Stopping, TasksCancelled, Draining, SightSaved, OtherWork, Writes,
              ResultSaved, vars
<1> QED
  BY <1>1, <1>2, <1>3, <1>4 DEF Next, FileMoves, Sights

(* A run that works and has not saved worked before, or it begins to.        *)
LEMMA WorkBefore ==
  ASSUME BotInvariant, [Next]_vars, NEW r \in Runs, Unsaved(r)',
         research'[r] \in {"collects", "analyzes", "saves"}
  PROVE  /\ Unsaved(r)
         /\ \/ Enter(r) /\ research'[r] = "collects" /\ mem' = mem /\ mem.sight # Nobody
            \/ Analyze(r) /\ research[r] = "collects"
            \/ /\ research[r] \in {"analyzes", "saves"} /\ research'[r] \in {"analyzes", "saves"}
               /\ base'[r] = base[r]
            \/ research[r] = "collects" /\ research'[r] = "collects"
         /\ ~Restart
<1>1. TaskType /\ PoolCalls /\ CallType
  BY DEF BotInvariant, PoolCalls
<1>2. ~Restart /\ ~TasksCancelled
  BY <1>1 DEF Restart, TasksCancelled, TaskType, Over
<1>3. Unsaved(r)
  BY <1>1, <1>2, SaveCalls DEF Unsaved
<1>4. CASE UNCHANGED <<research, topic, base, lock>>
  BY <1>2, <1>3, <1>4
<1>5. CASE Enter(r)
  BY <1>1, <1>2, <1>3, <1>5 DEF Enter, TaskType
<1>6. CASE Analyze(r)
  BY <1>2, <1>3, <1>6 DEF Analyze
<1>7. CASE Save(r)
  BY <1>1, <1>2, <1>3, <1>7 DEF Save, TaskType
<1>8. CASE StartRun(r) \/ NothingCollected(r) \/ Publish(r) \/ RunEnds(r)
  BY <1>1, <1>8 DEF StartRun, NothingCollected, Publish, RunEnds, Ends, TaskType
<1>9. ASSUME NEW q \in Runs \ {r},
             \/ StartRun(q) \/ Enter(q) \/ NothingCollected(q) \/ Analyze(q)
             \/ Save(q) \/ Publish(q) \/ RunEnds(q)
      PROVE  research'[r] = research[r] /\ base'[r] = base[r]
  BY <1>1, <1>9 DEF StartRun, Enter, NothingCollected, Analyze, Save, Publish, RunEnds, Ends, TaskType
<1> QED
  BY <1>2, <1>3, <1>4, <1>5, <1>6, <1>7, <1>8, <1>9, RunSteps

LEMMA ForgottenStep ==
  ASSUME BotInvariant, [Next]_vars
  PROVE  ForgottenOK'
<1>1. ForgottenOK /\ FileType
  BY DEF BotInvariant
<1> SUFFICES ASSUME NEW r \in Runs, research'[r] \in {"collects", "analyzes", "saves"}, Unsaved(r)',
                    mem'.sight = Nobody
             PROVE  mem'.history = <<>>
  BY DEF ForgottenOK, Unsaved
<1>2. CASE Enter(r)
  BY <1>2 DEF Enter, BotInvariant, TaskType
<1>3. CASE ~Enter(r)
  <2>1. Unsaved(r) /\ research[r] \in {"collects", "analyzes", "saves"} /\ ~Restart
    BY <1>3, WorkBefore
  <2>2. CASE mem' = mem
    BY <1>1, <2>1, <2>2 DEF ForgottenOK
  <2>3. ASSUME NEW t \in Sights, SetSight(t) PROVE mem'.history = <<>>
    <3>1. mem' \in {mem, Forgetful(t)}
      BY <1>1, <2>3, ForgottenMemory DEF SetSight
    <3> QED
      BY <1>1, <2>2, <3>1, ForgottenMemory
  <2>4. ASSUME NEW t \in Threads, SaveResult(t) PROVE FALSE
    BY <2>1, <2>4, LoneSaver DEF Active
  <2> QED
    BY <2>1, <2>2, <2>3, <2>4, MemorySteps
<1> QED
  BY <1>2, <1>3

LEMMA SavedOnTopStep ==
  ASSUME BotInvariant, [Next]_vars
  PROVE  SavedOnTopOfWhatItRead'
<1>1. TaskType /\ FileType /\ ForgottenOK /\ SavedOnTopOfWhatItRead
  BY DEF BotInvariant
<1> SUFFICES ASSUME NEW r \in Runs, research'[r] \in {"analyzes", "saves"}, r \notin moved', Unsaved(r)'
             PROVE  mem'.history = base'[r]
  BY DEF SavedOnTopOfWhatItRead, Unsaved
<1>2. CASE Analyze(r)
  BY <1>1, <1>2 DEF Analyze, TaskType
<1>3. CASE ~Analyze(r)
  <2>1. Unsaved(r) /\ research[r] \in {"analyzes", "saves"} /\ base'[r] = base[r] /\ ~Restart
    BY <1>3, WorkBefore
  <2>2. ~Ends(r)
    BY <1>1 DEF Ends, TaskType
  <2>3. r \notin moved => mem.history = base[r]
    BY <1>1, <2>1 DEF SavedOnTopOfWhatItRead, Unsaved
  <2>4. CASE /\ mem' = mem
             /\ moved' = moved \/ \E q \in Runs : moved' = moved \ {q} /\ (Analyze(q) \/ Ends(q))
    <3>1. r \notin moved
      BY <1>3, <2>2, <2>4
    <3> QED
      BY <2>1, <2>3, <2>4, <3>1
  <2>5. ASSUME NEW t \in Sights, SetSight(t) PROVE mem'.history = base[r]
    <3>1. mem'.sight = mem.sight /\ moved' = moved
      BY <2>1, <2>5 DEF SetSight
    <3>2. CASE mem' = mem
      BY <2>3, <3>1, <3>2
    <3>3. CASE mem' = Forgetful(t)
      <4>1. t = mem.sight /\ mem'.history = <<>>
        BY <1>1, <3>1, <3>3, ForgottenMemory
      <4>2. CASE t = Nobody
        BY <1>1, <2>1, <2>3, <3>1, <4>1, <4>2 DEF ForgottenOK
      <4>3. CASE t # Nobody
        BY <2>3, <2>5, <3>1, <4>1, <4>3 DEF SetSight
      <4> QED
        BY <4>2, <4>3
    <3> QED
      BY <2>5, <3>2, <3>3 DEF SetSight
  <2>6. ASSUME NEW t \in Threads, SaveResult(t) PROVE FALSE
    BY <2>1, <2>6, LoneSaver DEF Active
  <2> QED
    BY <2>1, <2>4, <2>5, <2>6, MemorySteps
<1> QED
  BY <1>2, <1>3

-----------------------------------------------------------------------------
(* The theorems                                                              *)

LEMMA InitBot == Init => BotInvariant
<1> SUFFICES ASSUME Init PROVE BotInvariant
  OBVIOUS
<1>1. PoolInvariant /\ PoolCalls
  BY InitBalanced, InitPlaced DEF Init
<1>2. mem \in MemType
  <2>1. PICK t \in Topics : mem = [Default EXCEPT !.sight = t]
    BY DEF Init
  <2> QED
    BY <2>1, Defaults DEF MemType, Sights
<1>3. TaskType
  BY Defaults DEF Init, TaskType, Stages, Outcomes, Histories
<1>4. FileType
  BY <1>2, InodesAre DEF Init, FileType, MemType
<1>5. \A r \in Runs : call[Call(r, "save")] = "none"
  BY CallsOfRuns DEF Init, PoolInit
<1>6. ResearchOK /\ ForgottenOK /\ SavedOnTopOfWhatItRead
  BY <1>5 DEF Init, ResearchOK, Active, ForgottenOK, SavedOnTopOfWhatItRead
<1>7. WritersOK /\ QuietOK
  BY Defaults DEF Init, WritersOK, QuietOK
<1> QED
  BY <1>1, <1>3, <1>4, <1>6, <1>7 DEF BotInvariant

LEMMA NextBot == BotInvariant /\ [Next]_vars => BotInvariant'
<1> SUFFICES ASSUME BotInvariant, [Next]_vars PROVE BotInvariant'
  OBVIOUS
<1>1. PoolInvariant' /\ PoolCalls'
  BY PoolInside DEF BotInvariant
<1> QED
  BY <1>1, TaskStep, FileStep, ResearchStep, WritersStep, QuietStep, ForgottenStep, SavedOnTopStep
     DEF BotInvariant

LEMMA BotInvariantHolds == Spec => []BotInvariant
BY InitBot, NextBot, PTL DEF Spec

(* workers.py inside the bot: calls of research, report and commands never    *)
(* wait for a thread that could exist, whichever coroutines are cancelled.   *)
THEOREM BotNeverStalls == Spec => []PoolNeverStalls
<1>1. BotInvariant => PoolNeverStalls
  BY BalanceSuffices DEF BotInvariant
<1> QED
  BY <1>1, BotInvariantHolds, PTL

(* BotApplication.stop: once the drain ended in time no call, no analysis and *)
(* no half-written file of the old process is left.                          *)
THEOREM StopsCompletely == Spec => []StopIsComplete
<1>1. BotInvariant => StopIsComplete
  <2> SUFFICES ASSUME BotInvariant, drain = "clean"
               PROVE  /\ DrainIsComplete
                      /\ \A w \in Writers : writer[w].at = "no"
                      /\ \A r \in Runs : analysis[r] # "running"
    BY DEF StopIsComplete
  <2>1. \A t \in Threads : worker[t] # "runs"
    BY DEF BotInvariant, PoolCalls, EndOK
  <2>2. \A w \in Writers : writer[w].at = "no"
    BY <2>1 DEF BotInvariant, WritersOK, QuietOK, Writers
  <2> QED
    BY <2>2, NothingLeft DEF BotInvariant, QuietOK
<1> QED
  BY <1>1, BotInvariantHolds, PTL

(* run_research: an analysis is saved over what it was shown, unless the      *)
(* operator changed the topic meanwhile.                                     *)
THEOREM SavesOnWhatItRead == Spec => []SavedOnTopOfWhatItRead
<1>1. BotInvariant => SavedOnTopOfWhatItRead
  BY DEF BotInvariant
<1> QED
  BY <1>1, BotInvariantHolds, PTL
=============================================================================

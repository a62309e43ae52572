------------------------------ MODULE WorkerPool ------------------------------
(***************************************************************************)
(* A ShutdownThreadPool of the bot (core/workers.py) and its end.  Callers   *)
(* are coroutines of one event loop; a thread is created only when the       *)
(* semaphore of idle announcements is empty, and announces itself once after *)
(* every item it executed, also when the next one waits already.             *)
(*                                                                         *)
(* The lock of submit and shutdown is never waited for: only the loop takes  *)
(* it.  What submit does is two steps, for a thread may take the item in     *)
(* between.                                                                *)
(***************************************************************************)
EXTENDS Naturals, Sequences, FiniteSets, SequencesExt

CONSTANTS Limit,      \* max_workers
          Jobs,       \* the calls; each is submitted at most once
          Stop        \* the None that ends a thread

Threads == 1..Limit

ASSUME PoolAssumption == Limit \in Nat \ {0} /\ Stop \notin Jobs

VARIABLES
  queue,      \* of jobs and Stops
  idle,       \* value of the semaphore
  worker,     \* thread -> "unborn", "waits", "holds", "runs", "returns" or "ended"
  item,       \* thread -> the job it took
  call,       \* the state of a job's future
  engaging,   \* submit has put the item and not yet looked for a thread
  closed, stopping,
  drain       \* where drain_workers is

poolVars == <<queue, idle, worker, item, call, engaging, closed, stopping, drain>>

Born == {t \in Threads : worker[t] # "unborn"}
Executing == {t \in Threads : worker[t] \in {"holds", "runs", "returns"}}

PoolInit ==
  /\ queue = <<>> /\ idle = 0
  /\ worker = [t \in Threads |-> "unborn"]
  /\ item = [t \in Threads |-> Stop]
  /\ call = [j \in Jobs |-> "none"]
  /\ engaging = FALSE /\ closed = FALSE /\ stopping = FALSE
  /\ drain = "no"

-----------------------------------------------------------------------------
\* After shutdown submit raises before it makes a future.
Submit(j) ==
  /\ call[j] = "none" /\ ~closed /\ ~engaging
  /\ queue' = Append(queue, j)
  /\ call' = [call EXCEPT ![j] = "pending"]
  /\ engaging' = TRUE
  /\ UNCHANGED <<idle, worker, item, closed, stopping, drain>>

\* defect: a thread that is executing is taken for an idle one
EngageTrusting ==
  /\ engaging
  /\ engaging' = FALSE
  /\ IF idle > 0 THEN idle' = idle - 1 /\ UNCHANGED worker
     ELSE \/ \E t \in Threads \ Born : worker' = [worker EXCEPT ![t] = "waits"] /\ idle' = idle + 1
          \/ Born = Threads /\ UNCHANGED <<idle, worker>>
  /\ UNCHANGED <<queue, item, call, closed, stopping, drain>>

Engage ==
  /\ engaging
  /\ engaging' = FALSE
  /\ IF idle > 0 THEN idle' = idle - 1 /\ UNCHANGED worker
     ELSE \/ \E t \in Threads \ Born : worker' = [worker EXCEPT ![t] = "waits"] /\ UNCHANGED idle
          \/ Born = Threads /\ UNCHANGED <<idle, worker>>
  /\ UNCHANGED <<queue, item, call, closed, stopping, drain>>

Take(t) ==
  /\ worker[t] = "waits" /\ queue # <<>>
  /\ queue' = Tail(queue)
  /\ IF Head(queue) = Stop
     THEN worker' = [worker EXCEPT ![t] = "ended"] /\ UNCHANGED item
     ELSE worker' = [worker EXCEPT ![t] = "holds"] /\ item' = [item EXCEPT ![t] = Head(queue)]
  /\ UNCHANGED <<idle, call, engaging, closed, stopping, drain>>

\* A cancelled future is skipped; check_shutdown fails one that starts too late.
Begin(t) ==
  /\ worker[t] = "holds"
  /\ LET j == item[t]
         starts == call[j] = "pending" /\ ~stopping
     IN /\ call' = IF call[j] # "pending" THEN call
                   ELSE [call EXCEPT ![j] = IF stopping THEN "failed" ELSE "running"]
        /\ worker' = [worker EXCEPT ![t] = IF starts THEN "runs" ELSE "returns"]
  /\ UNCHANGED <<queue, idle, item, engaging, closed, stopping, drain>>

Finish(t, outcome) ==
  /\ worker[t] = "runs"
  /\ call' = [call EXCEPT ![item[t]] = outcome]
  /\ worker' = [worker EXCEPT ![t] = "returns"]
  /\ UNCHANGED <<queue, idle, item, engaging, closed, stopping, drain>>

Return(t) ==
  /\ worker[t] = "returns"
  /\ worker' = [worker EXCEPT ![t] = "waits"]
  /\ item' = [item EXCEPT ![t] = Stop]
  /\ idle' = idle + 1
  /\ UNCHANGED <<queue, call, engaging, closed, stopping, drain>>

-----------------------------------------------------------------------------
(* The end.  BotApplication.stop sets the flag, cancels the tasks and with    *)
(* them the futures no thread has started, and drains at the end.            *)

RequestShutdown ==
  /\ ~stopping
  /\ stopping' = TRUE
  /\ UNCHANGED <<queue, idle, worker, item, call, engaging, closed, drain>>

CancelCall(j) ==
  /\ stopping /\ call[j] = "pending"
  /\ call' = [call EXCEPT ![j] = "cancelled"]
  /\ UNCHANGED <<queue, idle, worker, item, engaging, closed, stopping, drain>>

Drain ==
  /\ stopping /\ drain = "no" /\ ~engaging
  /\ drain' = "cancels" /\ closed' = TRUE
  /\ UNCHANGED <<queue, idle, worker, item, call, engaging, stopping>>

\* shutdown(cancel_futures=True): what the queue still holds, then one None each.
CancelQueued ==
  /\ drain = "cancels"
  /\ IF queue # <<>>
     THEN /\ queue' = Tail(queue)
          /\ call' = [call EXCEPT ![Head(queue)] = IF @ = "pending" THEN "cancelled" ELSE @]
          /\ UNCHANGED drain
     ELSE /\ queue' = [n \in 1..Cardinality(Born) |-> Stop]
          /\ drain' = "waits" /\ UNCHANGED call
  /\ UNCHANGED <<idle, worker, item, engaging, closed, stopping>>

DrainEnds ==
  /\ drain = "waits" /\ \A t \in Born : worker[t] = "ended"
  /\ drain' = "clean"
  /\ UNCHANGED <<queue, idle, worker, item, call, engaging, closed, stopping>>

\* 45 seconds are over; what still runs dies with the process.
DrainGivesUp ==
  /\ drain = "waits" /\ \E t \in Born : worker[t] # "ended"
  /\ drain' = "late"
  /\ UNCHANGED <<queue, idle, worker, item, call, engaging, closed, stopping>>

PoolNext ==
  \/ \E j \in Jobs : Submit(j) \/ CancelCall(j)
  \/ Engage \/ RequestShutdown \/ Drain \/ CancelQueued \/ DrainEnds \/ DrainGivesUp
  \/ \E t \in Threads : Take(t) \/ Begin(t) \/ Return(t) \/ \E o \in {"done", "failed"} : Finish(t, o)

PoolSpec == PoolInit /\ [][PoolNext]_poolVars

-----------------------------------------------------------------------------
(* A call waits in the queue only while all Limit threads exist: below the    *)
(* limit a free thread is on its way for each of them.  submit decides by a   *)
(* count that threads raise also when they are about to take the next item.  *)
PoolNeverStalls ==
  (~engaging /\ Born # Threads /\ drain = "no") => Len(queue) =< Cardinality(Born \ Executing)

(* When drain_workers ends in time no call is on its way any more: each has    *)
(* ended, was refused its start or was cancelled, whoever was about to start. *)
DrainIsComplete ==
  drain = "clean" => \A j \in Jobs : call[j] \notin {"pending", "running"}
=============================================================================

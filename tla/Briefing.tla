------------------------------- MODULE Briefing -------------------------------
(***************************************************************************)
(* The briefings of the bot (briefing/service.py, features/briefing): at   *)
(* most one that was asked for is made at a time, with a time limit; the   *)
(* scheduled ones are made whatever else runs, without one.  Quotes and    *)
(* the comment are jobs of the worker pool: one a briefing no longer waits *)
(* for is taken out of the queue, or runs on in its thread.                *)
(***************************************************************************)
EXTENDS Naturals, Sequences, FiniteSets, SequencesExt

CONSTANTS Requests,    \* /briefing, as often as it is asked for
          Scheduled,   \* the morning's and the evening's run, none of the requests
          Workers      \* NON_URGENT_WORKER_COUNT

Runs == Requests \cup Scheduled

VARIABLES
  reserved,  \* bot_data["briefing_running"]
  stage,     \* where a run is
  queue, working,   \* jobs <<run, stage>> that wait and that run in a thread
  heard      \* what the chat was told of a run, in order; "lost" for what failed

vars == <<reserved, stage, queue, working, heard>>

Awaited == {"quotes", "news", "sentiment", "comment", "sending"}  \* under the time limit
JobStages == {"calendar", "quotes", "comment"}

TypeOK ==
  /\ reserved \in BOOLEAN
  /\ stage \in [Runs -> Awaited \cup {"idle", "greeting", "calendar", "apology", "delayed", "ended"}]
  /\ queue \in Seq(Runs \X JobStages) /\ working \in SUBSET (Runs \X JobStages)

Init ==
  /\ reserved = FALSE
  /\ stage = [r \in Runs |-> "idle"]
  /\ queue = <<>> /\ working = {}
  /\ heard = [r \in Runs |-> <<>>]

Hears(r, what) == heard' = [heard EXCEPT ![r] = Append(@, what)]
GoesOn(r, to) == stage' = [stage EXCEPT ![r] = to]
Job(r, to) == GoesOn(r, to) /\ queue' = Append(queue, <<r, to>>)

(* What a run does when something it may not do without has failed: one    *)
(* that was asked for says so, a scheduled one is written to the log.      *)
Failed(r) == IF r \in Requests THEN "apology" ELSE "ended"

-----------------------------------------------------------------------------
(* /briefing: reserved before anything is waited for, unless no task can  *)
(* be made for it.                                                         *)
Ask(r) ==
  /\ r \in Requests /\ stage[r] = "idle"
  /\ IF reserved THEN /\ GoesOn(r, "ended") /\ Hears(r, "busy")
                      /\ UNCHANGED reserved
     ELSE \/ reserved' = TRUE /\ GoesOn(r, "greeting") /\ UNCHANGED heard
          \/ GoesOn(r, "ended") /\ UNCHANGED <<reserved, heard>>
  /\ UNCHANGED <<queue, working>>

(* The greeting may not reach the chat: the request has failed. *)
Greet(r) ==
  /\ stage[r] = "greeting"
  /\ \/ Hears(r, "begun") /\ Job(r, "quotes")
     \/ Hears(r, "lost") /\ GoesOn(r, "apology") /\ UNCHANGED queue
  /\ UNCHANGED <<reserved, working>>

(* A scheduled run asks first whether it is a trading day. *)
Schedule(r) ==
  /\ r \in Scheduled /\ stage[r] = "idle"
  /\ Job(r, "calendar")
  /\ UNCHANGED <<reserved, working, heard>>

-----------------------------------------------------------------------------
(* The pool *)

Take ==
  /\ queue # <<>> /\ Cardinality(working) < Workers
  /\ working' = working \cup {Head(queue)} /\ queue' = Tail(queue)
  /\ UNCHANGED <<reserved, stage, heard>>

(* A job that nobody waits for any more ends unheard.  Quotes that fail    *)
(* end the briefing; a comment that fails is left out; the calendar never  *)
(* fails, it then says whether it is a weekday.  A watchlist without       *)
(* stocks, or a writer that is switched off, needs no job: the same as one *)
(* that answers at once.                                                   *)
Done(job) ==
  LET r == job[1]
  IN /\ job \in working
     /\ working' = working \ {job}
     /\ \/ stage[r] # job[2] /\ UNCHANGED <<stage, queue>>
        \/ /\ stage[r] = job[2] /\ job[2] = "calendar"
           /\ Job(r, "quotes") \/ (GoesOn(r, "ended") /\ UNCHANGED queue)
        \/ /\ stage[r] = job[2] /\ job[2] = "quotes"
           /\ (GoesOn(r, "news") \/ GoesOn(r, Failed(r))) /\ UNCHANGED queue
        \/ /\ stage[r] = job[2] /\ job[2] = "comment"
           /\ GoesOn(r, "sending") /\ UNCHANGED queue
     /\ UNCHANGED <<reserved, heard>>

-----------------------------------------------------------------------------
(* The loop *)

(* News that fail are left out. *)
GetNews(r) ==
  /\ stage[r] = "news"
  /\ GoesOn(r, "sentiment")
  /\ UNCHANGED <<reserved, queue, working, heard>>

(* What the news log says of the watchlist, which the morning's briefing   *)
(* leaves unread; then the comment is asked for.                           *)
ReadLog(r) ==
  /\ stage[r] = "sentiment"
  /\ Job(r, "comment")
  /\ UNCHANGED <<reserved, working, heard>>

(* A sending that fails may have arrived. *)
Deliver(r) ==
  /\ stage[r] = "sending"
  /\ \/ /\ Hears(r, "briefing")
        /\ GoesOn(r, "ended")
        /\ reserved' = (reserved /\ r \notin Requests)
     \/ /\ Hears(r, "lost") \/ Hears(r, "briefing")
        /\ GoesOn(r, Failed(r)) /\ UNCHANGED reserved
  /\ UNCHANGED <<queue, working>>

(* The time limit of a request.  What is being sent may still arrive.  A   *)
(* job that waits is taken back, one that runs is let go.                  *)
TimeOut(r) ==
  /\ r \in Requests /\ stage[r] \in Awaited
  /\ GoesOn(r, "delayed")
  /\ queue' = SelectSeq(queue, LAMBDA j : j[1] # r)
  /\ IF stage[r] = "sending" THEN UNCHANGED heard \/ Hears(r, "briefing")
     ELSE UNCHANGED heard
  /\ UNCHANGED <<reserved, working>>

\* defect: a time limit that ended a request leaves it reserved
ExplainReserving(r) ==
  /\ stage[r] \in {"apology", "delayed"}
  /\ Hears(r, "lost") \/ Hears(r, stage[r])
  /\ GoesOn(r, "ended") /\ reserved' = (reserved /\ stage[r] = "delayed")
  /\ UNCHANGED <<queue, working>>

(* The chat is told of a failure, if it can be reached, and the next       *)
(* request may come in either case.                                        *)
Explain(r) ==
  /\ stage[r] \in {"apology", "delayed"}
  /\ Hears(r, "lost") \/ Hears(r, stage[r])
  /\ GoesOn(r, "ended") /\ reserved' = FALSE
  /\ UNCHANGED <<queue, working>>

-----------------------------------------------------------------------------
Next ==
  \/ \E r \in Runs : Ask(r) \/ Greet(r) \/ Schedule(r) \/ GetNews(r) \/ ReadLog(r)
                     \/ Deliver(r) \/ TimeOut(r) \/ Explain(r)
  \/ Take
  \/ \E job \in working : Done(job)

Spec == Init /\ [][Next]_vars

-----------------------------------------------------------------------------
(* A briefing is reserved exactly while one that was asked for is made, so *)
(* never two at a time, and no failure, time limit or lost reply leaves    *)
(* the chat without the next one.                                          *)
ReservedWhileOneIsMade ==
  /\ reserved <=> \E r \in Requests : stage[r] \notin {"idle", "ended"}
  /\ \A r, s \in Requests : stage[r] \notin {"idle", "ended"} /\ stage[s] \notin {"idle", "ended"} => r = s

(* No briefing is sent twice, whatever fails or takes too long; of a       *)
(* scheduled run nobody is told but its briefing; and a request that has   *)
(* ended was answered, or its answer was lost (or no task could be made).  *)
HeardOnce ==
  \A r \in Runs :
     LET told == heard[r]
     IN  /\ Cardinality({i \in DOMAIN told : told[i] = "briefing"}) <= 1
         /\ r \in Scheduled => ToSet(told) \subseteq {"briefing", "lost"}
         /\ stage[r] = "ended" /\ r \in Requests /\ told # <<>> => told[Len(told)] # "begun"
=============================================================================

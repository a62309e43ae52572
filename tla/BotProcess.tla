------------------------------ MODULE BotProcess ------------------------------
(***************************************************************************)
(* The bot process around its worker pool: the research job, scheduled and   *)
(* on command, the report that shares its threads, the commands that change  *)
(* the topic, the state file all of them write, the end of the process and   *)
(* its next start.                                                         *)
(*                                                                         *)
(* The loop runs a coroutine between two awaits as one step.  What a thread  *)
(* does to the state (memory changed and serialized, temporary file opened,  *)
(* written, moved over the state file) is four steps, for the temporary      *)
(* file has one name in the process.                                        *)
(*                                                                         *)
(* No coroutine enters urgent_phase, so wait_for_urgent_idle never waits.    *)
(***************************************************************************)
EXTENDS WorkerPool

CONSTANTS
  Runs,            \* the research runs: {"scheduled", "manual"}
  Topics, Nobody,
  HistoryLimit,    \* RESEARCH_HISTORY_LIMIT
  MaxSets, MaxStarts     \* bounds

User == "user"
Writers == Runs \cup {User}
Call(r, step) == <<r, step>>

\* One inode for the state file and one for each thread that writes.
Inodes == 1..(Cardinality(Runs) + 2)

ASSUME BotAssumption ==
  /\ IsFiniteSet(Runs) /\ User \notin Runs
  /\ Nobody \notin Runs \cup Topics
  /\ Runs \X {"save", "publish"} \subseteq Jobs
  /\ \A j \in Jobs : j[1] \in Runs \/ j[2] = "save" => j \in Runs \X {"save", "publish"}
  /\ HistoryLimit \in Nat

VARIABLES
  research, topic, base,    \* a run: where it is, the topic and the history it read
  lock, analysis,           \* research_lock; the call in the executor of the analysis
  mem,                      \* MarketViewManager._data
  writer,                   \* a thread in _persist
  temp, target, content,    \* the name of the temporary file, the state file, and inodes
  sets, starts,
  \* history
  confirmed,                \* the topic the user was last told is saved
  moved                     \* runs during which the topic was changed

taskVars == <<research, topic, base, lock, analysis>>
fileVars == <<writer, temp, target, content>>
vars == <<poolVars, taskVars, mem, fileVars, sets, starts, confirmed, moved>>

Empty == [broken |-> "empty"]
Torn == [broken |-> "torn"]
Default == [sight |-> Nobody, history |-> <<>>, last |-> Nobody]
Resting == [at |-> "no"]
Over == {"idle", "ended", "cancelled"}

Init ==
  /\ PoolInit
  /\ research = [r \in Runs |-> "idle"]
  /\ topic = [r \in Runs |-> Nobody]
  /\ base = [r \in Runs |-> <<>>]
  /\ lock = Nobody
  /\ analysis = [r \in Runs |-> "none"]
  /\ mem \in {[Default EXCEPT !.sight = t] : t \in Topics}
  /\ writer = [w \in Writers |-> Resting]
  /\ temp = 0 /\ target = 1
  /\ content = [i \in Inodes |-> IF i = 1 THEN mem ELSE Empty]
  /\ sets = 0 /\ starts = 0
  /\ confirmed = mem.sight /\ moved = {}

-----------------------------------------------------------------------------
(* write_text_atomic                                                          *)

Unused == CHOOSE i \in Inodes : /\ i \notin {temp, target}
                               /\ \A w \in Writers : writer[w].at # "no" => writer[w].inode # i

\* open(temporary, "w") truncates the file another thread has under that name.
Opens(w, data) ==
  LET i == IF temp = 0 THEN Unused ELSE temp
  IN /\ temp' = i
     /\ content' = [content EXCEPT ![i] = Empty]
     /\ writer' = [writer EXCEPT ![w] = [at |-> "open", inode |-> i, data |-> data]]
     /\ UNCHANGED target

Writes(w) ==
  /\ writer[w].at = "open"
  /\ content' = [content EXCEPT ![writer[w].inode] = IF @ = Empty THEN writer[w].data ELSE Torn]
  /\ writer' = [writer EXCEPT ![w].at = "written"]
  /\ UNCHANGED <<poolVars, taskVars, mem, temp, target, sets, starts, confirmed, moved>>

Moves(w) ==
  /\ writer[w].at = "written"
  /\ writer' = [writer EXCEPT ![w] = Resting]
  /\ temp' = 0
  /\ target' = IF temp = 0 THEN target ELSE temp
  /\ content' = [i \in Inodes |-> IF \/ i = target'
                                     \/ \E v \in Writers \ {w} : writer[v].at = "open" /\ writer[v].inode = i
                                  THEN content[i] ELSE Empty]

-----------------------------------------------------------------------------
(* the commands                                                               *)

Forgetful(t) == [mem EXCEPT !.sight = t, !.history = <<>>, !.last = Nobody]

\* /research set and /research clear, in a thread of the default executor
SetSight(t) ==
  /\ ~stopping /\ ~closed /\ sets < MaxSets /\ writer[User].at = "no"
  /\ mem' = IF t # Nobody /\ t = mem.sight THEN mem ELSE Forgetful(t)
  /\ Opens(User, mem')
  /\ moved' = IF mem'.sight = mem.sight THEN moved ELSE {r \in Runs : research[r] \in {"analyzes", "saves"}}
  /\ sets' = sets + 1
  /\ UNCHANGED <<poolVars, taskVars, starts, confirmed>>

SightSaved ==
  /\ Moves(User)
  /\ confirmed' = IF temp = 0 THEN confirmed ELSE writer[User].data.sight
  /\ UNCHANGED <<poolVars, taskVars, mem, sets, starts, moved>>

-----------------------------------------------------------------------------
(* run_research                                                               *)

\* The schedule starts one; so does the command, if none runs and there is a topic.
StartRun(r) ==
  /\ ~stopping /\ research[r] = "idle"
  /\ r = "manual" => (lock = Nobody /\ mem.sight # Nobody)
  /\ research' = [research EXCEPT ![r] = "waits"]
  /\ UNCHANGED <<poolVars, topic, base, lock, analysis, mem, fileVars, sets, starts, confirmed, moved>>

\* defect: the run does not wait for the one before it
EnterUnlocked(r) ==
  /\ research[r] = "waits"
  /\ topic' = [topic EXCEPT ![r] = mem.sight]
  /\ IF mem.sight = Nobody
     THEN research' = [research EXCEPT ![r] = "ended"] /\ UNCHANGED lock
     ELSE research' = [research EXCEPT ![r] = "collects"] /\ lock' = r
  /\ UNCHANGED <<poolVars, base, analysis, mem, fileVars, sets, starts, confirmed, moved>>

Enter(r) ==
  /\ research[r] = "waits" /\ lock = Nobody
  /\ topic' = [topic EXCEPT ![r] = mem.sight]
  /\ IF mem.sight = Nobody
     THEN research' = [research EXCEPT ![r] = "ended"] /\ UNCHANGED lock
     ELSE research' = [research EXCEPT ![r] = "collects"] /\ lock' = r
  /\ UNCHANGED <<poolVars, base, analysis, mem, fileVars, sets, starts, confirmed, moved>>

Ends(r) == /\ research' = [research EXCEPT ![r] = "ended"]
           /\ topic' = [topic EXCEPT ![r] = Nobody] /\ base' = [base EXCEPT ![r] = <<>>]
           /\ analysis' = [analysis EXCEPT ![r] = "none"] /\ moved' = moved \ {r}
           /\ lock' = Nobody

\* The collector, the candidates and the sector summary are one await here.
NothingCollected(r) ==
  /\ research[r] = "collects"
  /\ Ends(r)
  /\ UNCHANGED <<poolVars, mem, fileVars, sets, starts, confirmed>>

\* The executor of the analysis has one thread, free when the lock is.
Analyze(r) ==
  /\ research[r] = "collects" /\ ~closed
  /\ research' = [research EXCEPT ![r] = "analyzes"]
  /\ analysis' = [analysis EXCEPT ![r] = "running"]
  /\ base' = [base EXCEPT ![r] = mem.history]
  /\ moved' = moved \ {r}
  /\ UNCHANGED <<poolVars, topic, lock, mem, fileVars, sets, starts, confirmed>>

AnalysisEnds(r) ==
  /\ analysis[r] = "running"
  /\ \E o \in {"done", "failed"} : analysis' = [analysis EXCEPT ![r] = o]
  /\ UNCHANGED <<poolVars, research, topic, base, lock, mem, fileVars, sets, starts, confirmed, moved>>

Save(r) ==
  /\ research[r] = "analyzes" /\ analysis[r] = "done"
  /\ Submit(Call(r, "save"))
  /\ research' = [research EXCEPT ![r] = "saves"]
  /\ UNCHANGED <<topic, base, lock, analysis, mem, fileVars, sets, starts, confirmed, moved>>

\* The result of the topic that was read goes to the history of the one that is set.
SaveResult(t) ==
  LET r == item[t][1]
      h == Append(mem.history, topic[r])
  IN /\ worker[t] = "runs" /\ item[t] = Call(r, "save") /\ writer[r].at = "no"
     /\ mem' = [mem EXCEPT !.last = topic[r],
                           !.history = SubSeq(h, IF Len(h) > HistoryLimit THEN Len(h) - HistoryLimit + 1 ELSE 1, Len(h))]
     /\ Opens(r, mem')
     /\ UNCHANGED <<poolVars, taskVars, sets, starts, confirmed, moved>>

ResultSaved(t) ==
  LET r == item[t][1]
  IN /\ item[t] # Stop /\ r \in Runs
     /\ Moves(r)
     /\ Finish(t, IF temp = 0 THEN "failed" ELSE "done")
     /\ UNCHANGED <<taskVars, mem, sets, starts, confirmed, moved>>

Publish(r) ==
  /\ research[r] = "saves" /\ call[Call(r, "save")] = "done"
  /\ Submit(Call(r, "publish"))
  /\ research' = [research EXCEPT ![r] = "publishes"]
  /\ UNCHANGED <<topic, base, lock, analysis, mem, fileVars, sets, starts, confirmed, moved>>

\* A failed analysis or save ends the run; a failed copy for the public does not
\* keep apply_actions from running.
RunEnds(r) ==
  /\ \/ research[r] = "analyzes" /\ analysis[r] = "failed"
     \/ research[r] = "saves" /\ call[Call(r, "save")] = "failed"
     \/ research[r] = "publishes" /\ call[Call(r, "publish")] \in {"done", "failed"}
  /\ Ends(r)
  /\ UNCHANGED <<poolVars, mem, fileVars, sets, starts, confirmed>>

\* run_non_urgent of the market report, the briefing, the quotes
OtherWork(j) ==
  /\ ~stopping /\ j[1] \notin Runs
  /\ Submit(j)
  /\ UNCHANGED <<taskVars, mem, fileVars, sets, starts, confirmed, moved>>

-----------------------------------------------------------------------------
(* threads; how a call ends matters only for the one that saves                *)

ThreadMoves ==
  /\ \/ Engage
     \/ \E t \in Threads : Take(t) \/ Begin(t) \/ Return(t)
     \/ \E t \in Threads : item[t] # Stop /\ item[t][2] # "save" /\ Finish(t, "done")
  /\ UNCHANGED <<taskVars, mem, fileVars, sets, starts, confirmed, moved>>

FileMoves == \/ \E t \in Threads : SaveResult(t) \/ ResultSaved(t)
             \/ \E w \in Writers : Writes(w)
             \/ SightSaved

-----------------------------------------------------------------------------
(* the end and the next start                                                 *)

Stopping ==
  /\ RequestShutdown
  /\ UNCHANGED <<taskVars, mem, fileVars, sets, starts, confirmed, moved>>

\* The scheduler cancels its task and BotApplication.stop the others, a few turns of
\* the loop later; with a task goes the future it waits for.
TasksCancelled ==
  /\ stopping /\ \E r \in Runs : research[r] \notin Over
  /\ research' = [r \in Runs |-> IF research[r] \in Over THEN research[r] ELSE "cancelled"]
  /\ lock' = Nobody
  /\ call' = [j \in Jobs |-> IF j[1] \in Runs /\ call[j] = "pending" THEN "cancelled" ELSE call[j]]
  /\ UNCHANGED <<queue, idle, worker, item, engaging, closed, stopping, drain,
                 topic, base, analysis, mem, fileVars, sets, starts, confirmed, moved>>

Elsewhere == writer[User].at # "no" \/ \E r \in Runs : analysis[r] = "running"

\* defect: the wait ends with the first thread
EndsEarly ==
  /\ drain = "waits" /\ ~Elsewhere
  /\ \E t \in Threads : worker[t] = "ended"
  /\ drain' = "clean"
  /\ UNCHANGED <<queue, idle, worker, item, call, engaging, closed, stopping>>

AllEnded == DrainEnds /\ ~Elsewhere

Draining ==
  /\ \A r \in Runs : research[r] \in Over
  /\ Drain \/ CancelQueued \/ AllEnded \/ DrainGivesUp
  /\ UNCHANGED <<taskVars, mem, fileVars, sets, starts, confirmed, moved>>

\* The process ends, in order or not; a state file that cannot be read is reset.
Restart ==
  /\ starts < MaxStarts /\ starts' = starts + 1
  /\ queue' = <<>> /\ idle' = 0 /\ engaging' = FALSE /\ closed' = FALSE /\ stopping' = FALSE /\ drain' = "no"
  /\ worker' = [t \in Threads |-> "unborn"] /\ item' = [t \in Threads |-> Stop]
  \* bound: a call or a run that began is not begun again
  /\ call' = [j \in Jobs |-> IF call[j] = "none" THEN "none" ELSE "failed"]
  /\ research' = [r \in Runs |-> IF research[r] = "idle" THEN "idle" ELSE "ended"] /\ topic' = [r \in Runs |-> Nobody]
  /\ base' = [r \in Runs |-> <<>>] /\ analysis' = [r \in Runs |-> "none"]
  /\ lock' = Nobody /\ moved' = {}
  /\ writer' = [w \in Writers |-> Resting]
  /\ temp' = 0        \* the name holds the process id
  /\ mem' = IF content[target] \in {Empty, Torn} THEN Default ELSE content[target]
  /\ content' = [i \in Inodes |-> IF i = target THEN mem' ELSE Empty]
  /\ UNCHANGED <<target, sets, confirmed>>

Next ==
  \/ \E t \in Topics \cup {Nobody} : SetSight(t)
  \/ \E r \in Runs : \/ StartRun(r) \/ Enter(r) \/ NothingCollected(r) \/ Analyze(r)
                     \/ AnalysisEnds(r) \/ Save(r) \/ Publish(r) \/ RunEnds(r)
  \/ \E j \in Jobs : OtherWork(j)
  \/ ThreadMoves \/ FileMoves
  \/ Stopping \/ TasksCancelled \/ Draining \/ Restart

Spec == Init /\ [][Next]_vars

-----------------------------------------------------------------------------
(* Once the drain ended in time, nothing of the old process changes the state *)
(* any more: no call, no analysis, no half-written file.                     *)
StopIsComplete ==
  drain = "clean" => /\ DrainIsComplete
                     /\ \A w \in Writers : writer[w].at = "no"
                     /\ \A r \in Runs : analysis[r] # "running"

(* Two runs never work on the same history: unless the topic was changed, an  *)
(* analysis is saved on top of exactly what it was shown.                    *)
SavedOnTopOfWhatItRead ==
  \A r \in Runs :
    (/\ research[r] \in {"analyzes", "saves"} /\ r \notin moved
     /\ call[Call(r, "save")] \in {"none", "pending"}) => mem.history = base[r]

(* A topic the command said is saved is the one on disk, when nothing is being *)
(* written.                                                                   *)
SavedTopicIsRemembered ==
  (\A w \in Writers : writer[w].at = "no") =>
    (content[target] \notin {Empty, Torn} /\ content[target].sight = confirmed)
=============================================================================

------------------------------ MODULE FileLock ------------------------------
(***************************************************************************)
(* The lock files of core/storage.py: a process is inside when it created  *)
(* the file with O_CREAT | O_EXCL, and removes it when it leaves.  A file  *)
(* older than stale_seconds is taken for that of a dead process and is     *)
(* removed by whoever meets it.  Looking at the age and removing the file  *)
(* are two steps, and the removal takes whatever file is there by then.    *)
(*                                                                         *)
(* Web requests, the newsletter's one-shot and the threads of personal     *)
(* research are processes here.  What they do inside is Accounts.          *)
(***************************************************************************)
EXTENDS Naturals

CONSTANTS
  Procs,      \* everything that asks for a lock
  Locks,      \* the lock files
  Nobody,     \* the owner of a file whose process died
  NoFile,     \* a lock file that does not exist
  Slow,       \* processes that may stay inside for longer than stale_seconds
  Rivals      \* whether two processes may find the same stale file at once

ASSUME LockAssumption ==
  /\ Nobody \notin Procs
  /\ Slow \subseteq Procs
  /\ Rivals \in BOOLEAN
  /\ NoFile \notin [owner : Procs \cup {Nobody}, old : {"no", "yes"}]

VARIABLES
  file,       \* file[l]: the lock file on disk
  phase,      \* phase[p]: "out", "trying", "breaking" (saw a stale file) or "inside"
  wants       \* wants[p]: the lock p is at, while it is not out

lockVars == <<file, phase, wants>>

-----------------------------------------------------------------------------
At(p, l, step) == phase[p] = step /\ wants[p] = l
Inside(p, l) == At(p, l, "inside")

LockInit ==
  /\ file = [l \in Locks |-> NoFile]
  /\ phase = [p \in Procs |-> "out"]
  /\ wants = [p \in Procs |-> CHOOSE l \in Locks : TRUE]

Try(p, l) ==
  /\ phase[p] = "out"
  /\ phase' = [phase EXCEPT ![p] = "trying"]
  /\ wants' = [wants EXCEPT ![p] = l]
  /\ UNCHANGED file

(* defect: the file is created without O_EXCL *)
CreateAnyway(p) ==
  /\ phase[p] = "trying"
  /\ file' = [file EXCEPT ![wants[p]] = [owner |-> p, old |-> "no"]]
  /\ phase' = [phase EXCEPT ![p] = "inside"]
  /\ UNCHANGED wants

(* os.open(path, O_CREAT | O_EXCL) succeeds *)
Create(p) ==
  /\ phase[p] = "trying"
  /\ file[wants[p]] = NoFile
  /\ file' = [file EXCEPT ![wants[p]] = [owner |-> p, old |-> "no"]]
  /\ phase' = [phase EXCEPT ![p] = "inside"]
  /\ UNCHANGED wants

(* The age of the file is over stale_seconds *)
FindStale(p) ==
  /\ phase[p] = "trying"
  /\ file[wants[p]] # NoFile
  /\ file[wants[p]].old = "yes"
  /\ Rivals \/ \A q \in Procs : ~At(q, wants[p], "breaking")
  /\ phase' = [phase EXCEPT ![p] = "breaking"]
  /\ UNCHANGED <<file, wants>>

(* path.unlink(missing_ok=True): another process may have replaced the file *)
Break(p) ==
  /\ phase[p] = "breaking"
  /\ file' = [file EXCEPT ![wants[p]] = NoFile]
  /\ phase' = [phase EXCEPT ![p] = "trying"]
  /\ UNCHANGED wants

(* FileLockTimeout *)
GiveUp(p) ==
  /\ phase[p] = "trying"
  /\ file[wants[p]] # NoFile
  /\ phase' = [phase EXCEPT ![p] = "out"]
  /\ UNCHANGED <<file, wants>>

(* The finally of file_lock: it removes the file without a look at its owner *)
Leave(p) ==
  /\ phase[p] = "inside"
  /\ file' = [file EXCEPT ![wants[p]] = NoFile]
  /\ phase' = [phase EXCEPT ![p] = "out"]
  /\ UNCHANGED wants

(* Processes that end together, a worker with its threads: their files stay *)
Die(dead) ==
  /\ phase' = [p \in Procs |-> IF p \in dead THEN "out" ELSE phase[p]]
  /\ file' = [l \in Locks |-> IF file[l] # NoFile /\ file[l].owner \in dead
                              THEN [file[l] EXCEPT !.owner = Nobody] ELSE file[l]]
  /\ UNCHANGED wants

(* stale_seconds pass; only a slow holder is still inside by then *)
Age(l) ==
  /\ file[l] # NoFile
  /\ file[l].old = "no"
  /\ file[l].owner \in Slow \cup {Nobody}
  /\ file' = [file EXCEPT ![l].old = "yes"]
  /\ UNCHANGED <<phase, wants>>

LockStep ==
  \/ \E p \in Procs, l \in Locks : Try(p, l)
  \/ \E p \in Procs : Create(p) \/ FindStale(p) \/ Break(p) \/ GiveUp(p) \/ Leave(p)
  \/ \E dead \in SUBSET Procs : Die(dead)
  \/ \E l \in Locks : Age(l)

LockSpec == LockInit /\ [][LockStep]_lockVars

-----------------------------------------------------------------------------
LockTypeOK ==
  /\ file \in [Locks -> [owner : Procs \cup {Nobody}, old : {"no", "yes"}] \cup {NoFile}]
  /\ phase \in [Procs -> {"out", "trying", "breaking", "inside"}]
  /\ wants \in [Procs -> Locks]

(* account_lock puts everything that writes, makes or deletes an account in  *)
(* one line: one process at a time is inside, deaths and stale files         *)
(* included.  Two that find the same stale file, or one that stays inside    *)
(* for longer than stale_seconds, break it.                                  *)
OneInside == \A l \in Locks : \A p, q \in Procs : Inside(p, l) /\ Inside(q, l) => p = q
=============================================================================

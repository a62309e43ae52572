--------------------------- MODULE AccountsProofs ---------------------------
(***************************************************************************)
(* The lock files exclude, for any processes and locks, as long as nobody  *)
(* stays inside for longer than stale_seconds and no two processes find    *)
(* the same stale file at once; and everything that happens to accounts    *)
(* uses the lock files as FileLock says.                                   *)
(*                                                                         *)
(* What the account lock buys, for any number of accounts, browsers,       *)
(* requests, senders, threads, restarts and deaths: letters are sent once  *)
(* and to confirmed addresses, nothing brings a deleted account back, no   *)
(* run ends another, and no answered asset and no place for a run is lost. *)
(*                                                                         *)
(* FoldersOK is inductive: it says what a process knows of its account     *)
(* while it is alone with it.  Alone is where the lock is used; a step     *)
(* then only has to keep what is said of its own process and account.      *)
(***************************************************************************)
EXTENDS Accounts, FiniteSetTheorems, TLAPS

(* Who is inside owns a fresh file; who is about to remove a file is alone *)
(* with that of a dead process.                                            *)
Owned ==
  /\ \A l \in Locks : file[l] # NoFile /\ file[l].old = "yes" => file[l].owner = Nobody
  /\ \A p \in Procs, l \in Locks : Inside(p, l) => file[l] # NoFile /\ file[l].owner = p
  /\ \A p \in Procs, l \in Locks : At(p, l, "breaking") => file[l] # NoFile /\ file[l].owner = Nobody
  /\ \A p, q \in Procs, l \in Locks : At(p, l, "breaking") /\ At(q, l, "breaking") => p = q

Orderly == Slow = {} /\ ~Rivals

LockInv == LockTypeOK /\ Owned

FileType == [owner : Procs \cup {Nobody}, old : {"no", "yes"}]

LEMMA LockInitInv == ASSUME Locks # {}, LockInit PROVE LockInv
<1>1. (CHOOSE l \in Locks : TRUE) \in Locks
  OBVIOUS
<1>2. LockTypeOK
  BY <1>1 DEF LockInit, LockTypeOK
<1>3. Owned
  BY DEF LockInit, Owned, Inside, At
<1> QED BY <1>2, <1>3 DEF LockInv

LEMMA LockStepType == ASSUME LockTypeOK, LockStep PROVE LockTypeOK'
<1> USE DEF LockTypeOK
<1>1. ASSUME NEW p \in Procs, NEW l \in Locks, Try(p, l) PROVE LockTypeOK'
  BY <1>1 DEF Try
<1>2. ASSUME NEW p \in Procs, Create(p) PROVE LockTypeOK'
  <2>1. [owner |-> p, old |-> "no"] \in FileType
    BY DEF FileType
  <2> QED BY <1>2, <2>1 DEF Create, FileType
<1>3. ASSUME NEW p \in Procs, FindStale(p) PROVE LockTypeOK'
  BY <1>3 DEF FindStale
<1>4. ASSUME NEW p \in Procs, Break(p) PROVE LockTypeOK'
  BY <1>4 DEF Break
<1>5. ASSUME NEW p \in Procs, GiveUp(p) PROVE LockTypeOK'
  BY <1>5 DEF GiveUp
<1>6. ASSUME NEW p \in Procs, Leave(p) PROVE LockTypeOK'
  BY <1>6 DEF Leave
<1>7. ASSUME NEW dead \in SUBSET Procs, Die(dead) PROVE LockTypeOK'
  <2>1. file' \in [Locks -> FileType \cup {NoFile}]
    <3>1. ASSUME NEW l \in Locks
          PROVE (IF file[l] # NoFile /\ file[l].owner \in dead
                 THEN [file[l] EXCEPT !.owner = Nobody] ELSE file[l]) \in FileType \cup {NoFile}
      BY DEF FileType
    <3> QED BY <1>7, <3>1 DEF Die
  <2>2. phase' \in [Procs -> {"out", "trying", "breaking", "inside"}]
    BY <1>7 DEF Die
  <2> QED BY <1>7, <2>1, <2>2 DEF Die, FileType
<1>8. ASSUME NEW l \in Locks, Age(l) PROVE LockTypeOK'
  <2>1. [file[l] EXCEPT !.old = "yes"] \in FileType
    BY <1>8 DEF Age, FileType
  <2> QED BY <1>8, <2>1 DEF Age, FileType
<1> QED BY <1>1, <1>2, <1>3, <1>4, <1>5, <1>6, <1>7, <1>8 DEF LockStep

LEMMA LockStepOwned == ASSUME Orderly, LockInv, LockStep PROVE Owned'
<1> USE LockAssumption DEF LockInv, LockTypeOK, Owned, Inside, At
<1>1. ASSUME NEW p \in Procs, NEW l \in Locks, Try(p, l) PROVE Owned'
  BY <1>1 DEF Try
<1>2. ASSUME NEW p \in Procs, Create(p) PROVE Owned'
  <2>1. [owner |-> p, old |-> "no"] \in FileType /\ NoFile \notin FileType
    BY DEF FileType
  <2>2. file'[wants[p]] # NoFile /\ file'[wants[p]].owner = p /\ file'[wants[p]].old = "no"
    BY <1>2, <2>1 DEF Create
  <2>3. \A l \in Locks : l # wants[p] => file'[l] = file[l]
    BY <1>2 DEF Create
  <2>4. \A q \in Procs : q # p => phase'[q] = phase[q]
    BY <1>2 DEF Create
  <2>5. phase'[p] = "inside" /\ wants' = wants /\ file[wants[p]] = NoFile
    BY <1>2 DEF Create
  <2> QED BY <2>2, <2>3, <2>4, <2>5
<1>3. ASSUME NEW p \in Procs, FindStale(p) PROVE Owned'
  BY <1>3 DEF FindStale, Orderly
<1>4. ASSUME NEW p \in Procs, Break(p) PROVE Owned'
  <2>1. \A l \in Locks : l # wants[p] => file'[l] = file[l]
    BY <1>4 DEF Break
  <2>2. \A q \in Procs : q # p => phase'[q] = phase[q]
    BY <1>4 DEF Break
  <2>3. phase'[p] = "trying" /\ wants' = wants /\ file'[wants[p]] = NoFile
    BY <1>4 DEF Break
  <2>4. file[wants[p]].owner = Nobody /\ phase[p] = "breaking"
    BY <1>4 DEF Break
  <2> QED BY <2>1, <2>2, <2>3, <2>4
<1>5. ASSUME NEW p \in Procs, GiveUp(p) PROVE Owned'
  BY <1>5 DEF GiveUp
<1>6. ASSUME NEW p \in Procs, Leave(p) PROVE Owned'
  <2>1. \A l \in Locks : l # wants[p] => file'[l] = file[l]
    BY <1>6 DEF Leave
  <2>2. \A q \in Procs : q # p => phase'[q] = phase[q]
    BY <1>6 DEF Leave
  <2>3. phase'[p] = "out" /\ wants' = wants /\ file'[wants[p]] = NoFile
    BY <1>6 DEF Leave
  <2>4. file[wants[p]].owner = p /\ phase[p] = "inside"
    BY <1>6 DEF Leave
  <2> QED BY <2>1, <2>2, <2>3, <2>4
<1>7. ASSUME NEW dead \in SUBSET Procs, Die(dead) PROVE Owned'
  <2>1. ASSUME NEW l \in Locks
        PROVE /\ file'[l] = NoFile <=> file[l] = NoFile
              /\ file[l] # NoFile => file'[l].old = file[l].old
              /\ file[l] # NoFile /\ file[l].owner \in dead => file'[l].owner = Nobody
              /\ file[l] # NoFile /\ file[l].owner \notin dead => file'[l].owner = file[l].owner
    <3>1. file[l] # NoFile => file[l] \in FileType
      BY DEF FileType
    <3>2. file[l] # NoFile /\ file[l].owner \in dead => [file[l] EXCEPT !.owner = Nobody] \in FileType
      BY <3>1 DEF FileType
    <3>3. NoFile \notin FileType
      BY DEF FileType
    <3>4. file'[l] = IF file[l] # NoFile /\ file[l].owner \in dead
                     THEN [file[l] EXCEPT !.owner = Nobody] ELSE file[l]
      BY <1>7 DEF Die
    <3> QED BY <3>1, <3>2, <3>3, <3>4 DEF FileType
  <2>2. \A q \in Procs : phase'[q] = IF q \in dead THEN "out" ELSE phase[q]
    BY <1>7 DEF Die
  <2>3. wants' = wants
    BY <1>7 DEF Die
  <2>4. Nobody \notin dead
    OBVIOUS
  <2> QED BY <2>1, <2>2, <2>3, <2>4
<1>8. ASSUME NEW l \in Locks, Age(l) PROVE Owned'
  <2>1. file[l] # NoFile /\ file[l].owner = Nobody
    BY <1>8 DEF Age, Orderly
  <2>2. file'[l] = [file[l] EXCEPT !.old = "yes"] /\ \A m \in Locks : m # l => file'[m] = file[m]
    BY <1>8 DEF Age
  <2>3. [file[l] EXCEPT !.old = "yes"] \in FileType /\ NoFile \notin FileType
    BY <2>1 DEF FileType
  <2>4. file'[l] # NoFile /\ file'[l].owner = Nobody
    BY <2>1, <2>2, <2>3 DEF FileType
  <2> QED BY <1>8, <2>1, <2>2, <2>4 DEF Age
<1> QED BY <1>1, <1>2, <1>3, <1>4, <1>5, <1>6, <1>7, <1>8 DEF LockStep

LEMMA LockInvExcludes == ASSUME LockInv PROVE OneInside
BY DEF LockInv, Owned, OneInside

(* The lock files by themselves: any number of processes, deaths at any    *)
(* time, files that go stale.                                              *)
THEOREM LockExcludes == ASSUME Orderly, Locks # {} PROVE LockSpec => []OneInside
<1>1. LockInit => LockInv
  BY LockInitInv
<1>2. LockInv /\ [LockStep]_lockVars => LockInv'
  <2>1. ASSUME LockInv, LockStep PROVE LockInv'
    BY <2>1, LockStepType, LockStepOwned DEF LockInv
  <2>2. ASSUME LockInv, UNCHANGED lockVars PROVE LockInv'
    BY <2>2 DEF LockInv, LockTypeOK, Owned, Inside, At, lockVars
  <2> QED BY <2>1, <2>2
<1>3. LockInv => OneInside
  BY LockInvExcludes
<1> QED BY <1>1, <1>2, <1>3, PTL DEF LockSpec

-----------------------------------------------------------------------------
(* Every step of Accounts is a step of the lock files or leaves them alone. *)
LEMMA AccountsLockStep == ASSUME Next PROVE LockStep \/ UNCHANGED lockVars
<1> USE AccountsAssumption
<1> USE DEF LockStep
<1>1. ASSUME NEW b \in Browsers, Logout(b) \/ \E k \in Keys : Login(b, k) PROVE UNCHANGED lockVars
  BY <1>1 DEF Logout, Login, offline, lockVars
<1>2. ASSUME NEW t \in Tokens, SessionExpires(t) PROVE UNCHANGED lockVars
  BY <1>2 DEF SessionExpires, offline, lockVars
<1>3. ASSUME NEW r \in Requests, NEW k \in Keys, NEW op \in Ops, NEW t \in Tokens \cup {None},
             Arrive(r, k, op, t)
      PROVE LockStep
  BY <1>3 DEF Arrive
<1>4. ASSUME NEW r \in Requests, Busy(r) \/ Enter(r) \/ Refuse(r) \/ LeaveRequest(r) PROVE LockStep
  BY <1>4 DEF Busy, Enter, Refuse, LeaveRequest
<1>5. ASSUME NEW r \in Requests, NEW op, NEW folder, Writes(r, op, folder) PROVE UNCHANGED lockVars
  BY <1>5 DEF Writes, lockVars
<1>6. ASSUME NEW r \in Requests, Subscribe(r) \/ Confirm(r) \/ Personal(r) \/ Cancel(r) \/ OneClick(r)
      PROVE UNCHANGED lockVars
  BY <1>5, <1>6 DEF Subscribe, Confirm, Personal, Cancel, OneClick, Forget
<1>7. ASSUME NEW r \in Requests, Topic(r) \/ Consent(r) \/ Watch(r) \/ Apply(r) \/ Advise(r)
      PROVE UNCHANGED lockVars
  BY <1>5, <1>7 DEF Topic, Consent, Watch, Apply, Advise
<1>8. ASSUME NEW r \in Requests,
             \/ ReadAssets(r) \/ AddAsset(r) \/ DropAsset(r) \/ NoSuchAsset(r)
             \/ RemoveFolder(r) \/ SignOutAll(r)
      PROVE UNCHANGED lockVars
  BY <1>8 DEF ReadAssets, AddAsset, DropAsset, NoSuchAsset, RemoveFolder, SignOutAll, WriteAssets, lockVars
<1>9. ASSUME NEW r \in Requests,
             StartReport(r) \/ AbandonReport(r) \/ ReserveQuota(r) \/ CountUse(r) \/ StartThread(r)
      PROVE UNCHANGED lockVars
  BY <1>9 DEF StartReport, AbandonReport, ReserveQuota, CountUse, StartThread, lockVars
<1>10. ASSUME NEW w \in Threads, SaveResult(w) PROVE UNCHANGED lockVars
  BY <1>10 DEF SaveResult, lockVars
<1>11. ASSUME NEW w \in Threads, ThreadBusy(w) \/ NotMine(w) \/ SaveRun(w) PROVE LockStep
  BY <1>11 DEF ThreadBusy, NotMine, SaveRun, EndThread
<1>12. ASSUME NEW w \in Threads, Analysed(w) PROVE LockStep
  BY <1>12 DEF Analysed
<1>13. ASSUME NEW k \in Keys, RunStale(k) \/ CodeExpires(k) PROVE UNCHANGED lockVars
  BY <1>13 DEF RunStale, CodeExpires, lockVars
<1>14. ASSUME NEW s \in Senders,
              \/ StartSending(s) \/ AllSent(s) \/ Look(s) \/ Mail(s) \/ MailRefused(s)
              \/ SessionBreaks(s) \/ Record(s) \/ RecordFails(s)
       PROVE UNCHANGED lockVars
  BY <1>14 DEF StartSending, AllSent, Look, Mail, MailRefused, SessionBreaks, Record, RecordFails, lockVars
<1>15. ASSUME NEW s \in Senders, AccountBusy(s) \/ LeaveAccount(s) \/ \E k \in Keys : NextAccount(s, k)
       PROVE LockStep
  BY <1>15 DEF AccountBusy, LeaveAccount, NextAccount
<1>16. ASSUME NEW s \in Senders, SenderDies(s) PROVE LockStep
  BY <1>16 DEF SenderDies
<1>17. ASSUME WorkerDies PROVE LockStep
  <2>1. Requests \cup Threads \in SUBSET Procs
    OBVIOUS
  <2> QED BY <1>17, <2>1 DEF WorkerDies
<1>18. CASE \E p \in Senders \cup Threads : Create(p) /\ UNCHANGED content
  BY <1>18
<1>19. CASE \E p \in Procs : (FindStale(p) \/ Break(p)) /\ UNCHANGED content
  BY <1>19
<1>20. CASE \E l \in Locks : Age(l) /\ UNCHANGED content
  BY <1>20
<1> HIDE DEF LockStep
<1> QED
  BY <1>1, <1>2, <1>3, <1>4, <1>6, <1>7, <1>8, <1>9, <1>10, <1>11, <1>12, <1>13, <1>14, <1>15, <1>16,
     <1>17, <1>18, <1>19, <1>20 DEF Next

(* Accounts implements the lock files. *)
THEOREM UsesTheLocks == Spec => LockSpec
<1>1. Init => LockInit
  BY DEF Init
<1>2. [Next]_vars => [LockStep]_lockVars
  BY AccountsLockStep DEF vars, lockVars
<1> QED BY <1>1, <1>2, PTL DEF Spec, LockSpec

(* Whatever writes, makes or deletes an account does so alone. *)
THEOREM AccountsExclude == ASSUME Orderly, Locks # {} PROVE Spec => []OneInside
BY UsesTheLocks, LockExcludes, PTL

-----------------------------------------------------------------------------
(* The inductive invariant                                                 *)

Recording(s, k) == sender[s].key = k /\ sender[s].at = "record"

(* One letter is on its way into last_sent_on, or there already. *)
Owed(k) ==
  IF (\E s \in Senders : Recording(s, k)) \/ (Sub(k) # None /\ Sub(k).last = "today") THEN 1 ELSE 0

(* An account had one letter and those whose record was lost; its file tells of no *)
(* letter and no alert that was not sent, and of every asset that was answered.     *)
AccountOK(k) ==
  /\ letters[k] <= lapses[k] + Owed(k)
  /\ Sub(k) # None =>
       /\ Sub(k).last = "today" => letters[k] >= 1
       /\ Sub(k).alerts \subseteq told[k]
       /\ Sub(k).status = "active" => Sub(k).code # "live"
  /\ Folder(k).assets = kept[k]

(* What a sender mails and records is what is on file. *)
SenderOK(s) ==
  /\ sender[s].at \in {"look", "mail", "record"} => sender[s].key \in Keys /\ wants[s] = sender[s].key
  /\ sender[s].at \in {"mail", "record"} =>
       phase[s] = "inside" /\ Due(sender[s].key) /\ sender[s].copy = Sub(sender[s].key)
  /\ sender[s].at = "record" =>
       letters[sender[s].key] >= 1 /\ sender[s].alerts \subseteq told[sender[s].key]

(* A request works under its account's lock, and on assets that are on file. *)
RequestOK(r) == req[r] # None =>
  /\ wants[r] = req[r].key
  /\ req[r].step # "enter" => phase[r] = "inside"
  /\ req[r].step = "write" => req[r].copy = F(r).assets
  /\ req[r].op = "oneclick" => req[r].step \in {"enter", "work", "leave"}

(* A request that came with a session works only while no deletion ended it. *)
SessionOK(r) == req[r] # None /\ req[r].op # "oneclick" =>
  /\ req[r].token \in Tokens
  /\ session[req[r].token] \in {None, req[r].key}
  /\ req[r].step \notin {"enter", "leave"} => req[r].token \notin erased

(* A thread asks for its account's lock when it has a result. *)
ThreadOK(w) ==
  /\ thread[w] = None \/ thread[w].result = "none" => phase[w] = "out"
  /\ thread[w] # None =>
       /\ thread[w].result # "none" => wants[w] = thread[w].key
       /\ thread[w].saved => phase[w] = "inside" /\ thread[w].result = "ok" /\ Current(w)

AccountsOK == \A k \in Keys : AccountOK(k)
SendersOK == \A s \in Senders : SenderOK(s)
RequestsOK == \A r \in Requests : RequestOK(r)
SessionsOK == (\A r \in Requests : SessionOK(r)) /\ \A t \in erased : session[t] = None
ThreadsOK == \A w \in Threads : ThreadOK(w)

FoldersOK ==
  TypeOK /\ Owned /\ AccountsOK /\ SendersOK /\ RequestsOK /\ SessionsOK /\ ThreadsOK

-----------------------------------------------------------------------------
(* Types                                                                   *)

LEMMA FolderIsTyped ==
  ASSUME TypeOK, NEW k \in Keys
  PROVE  /\ Folder(k) \in FolderType
         /\ acct[k] # None => Folder(k) = acct[k]
         /\ Sub(k) # None => acct[k] # None /\ Sub(k) = acct[k].sub /\ Sub(k) \in SubType
<1>1. Blank \in FolderType
  BY DEF Blank, FolderType
<1>2. Folder(k) \in FolderType /\ (acct[k] # None => Folder(k) = acct[k])
  BY <1>1 DEF TypeOK, Folder
<1> QED
  BY <1>2 DEF Sub, Folder, Blank, FolderType

LEMMA RequestIsTyped ==
  ASSUME TypeOK, NEW r \in Requests, req[r] # None
  PROVE  req[r] \in RequestType /\ K(r) \in Keys /\ F(r) \in FolderType /\ F(r) = Folder(K(r))
<1>1. req[r] \in RequestType /\ K(r) \in Keys
  BY DEF TypeOK, RequestType, K
<1> QED
  BY <1>1, FolderIsTyped DEF F, K

LEMMA StepIsTyped ==
  ASSUME TypeOK, NEW r \in Requests, req[r] # None,
         NEW step \in {"enter", "work", "write", "signout", "quota", "usage", "mark", "leave"}, Step(r, step)
  PROVE  /\ req' \in [Requests -> RequestType \cup {None}]
         /\ req'[r] = [req[r] EXCEPT !.step = step] /\ req'[r] # None
         /\ req'[r].step = step /\ req'[r].op = req[r].op /\ req'[r].key = req[r].key
         /\ req'[r].token = req[r].token
         /\ \A q \in Requests \ {r} : req'[q] = req[q]
<1>1. [req[r] EXCEPT !.step = step] \in RequestType
  BY RequestIsTyped DEF RequestType
<1>2. req' = [req EXCEPT ![r] = [req[r] EXCEPT !.step = step]]
  BY DEF Step
<1>3. [req[r] EXCEPT !.step = step] # None
  BY <1>1, DayAssumption
<1> QED
  BY <1>1, <1>2, <1>3, RequestIsTyped DEF TypeOK, RequestType

(* What the requests that write one file do to it. *)
Writing(r) ==
  \/ Subscribe(r) \/ Confirm(r) \/ Personal(r) \/ Cancel(r) \/ OneClick(r)
  \/ Topic(r) \/ Consent(r) \/ Watch(r) \/ Apply(r) \/ Advise(r)

SubKept(old, new) == new.sub = old.sub /\ UNCHANGED <<letters, lapses, told>>

SubChanged(k, old, new) ==
  /\ new.sub # None
  /\ new.sub.last = IF old.sub = None THEN "before" ELSE old.sub.last
  /\ new.sub.status = "active" /\ new.sub.code = "live" =>
       old.sub # None /\ old.sub.status = "active" /\ old.sub.code = "live"
  /\ \/ new.sub.alerts = {} /\ told' \in {told, [told EXCEPT ![k] = {}]}
     \/ old.sub # None /\ new.sub.alerts = old.sub.alerts /\ told' = told
  /\ UNCHANGED <<letters, lapses>>

SubGone(k, new) ==
  /\ new.sub = None
  /\ letters' = [letters EXCEPT ![k] = 0]
  /\ lapses' = [lapses EXCEPT ![k] = 0]
  /\ told' = [told EXCEPT ![k] = {}]

Written(r, new) ==
  /\ req[r] # None /\ phase[r] = "inside" /\ req[r].step = "work"
  /\ new \in FolderType /\ new.assets = F(r).assets /\ new.run = F(r).run
  /\ acct' = [acct EXCEPT ![K(r)] = new]
  /\ Step(r, "leave")
  /\ SubKept(F(r), new) \/ SubChanged(K(r), F(r), new) \/ SubGone(K(r), new)
  /\ UNCHANGED <<lockVars, webVars, researchVars, sender, erased, kept>>
  /\ req[r].op = "oneclick" => acct[K(r)] # None

LEMMA WritesEffect ==
  ASSUME TypeOK, NEW r \in Requests, NEW op, NEW new, Writes(r, op, new)
  PROVE  /\ req[r] # None /\ phase[r] = "inside" /\ req[r].step = "work" /\ req[r].op = op
         /\ acct' = [acct EXCEPT ![K(r)] = new]
         /\ Step(r, "leave")
         /\ UNCHANGED <<lockVars, webVars, researchVars, sender, erased, kept>>
BY DEF Writes, Does, Serving, Write, K, Step

LEMMA WrittenBy ==
  ASSUME TypeOK, NEW r \in Requests, NEW op, NEW new \in FolderType, Writes(r, op, new),
         new.assets = F(r).assets, new.run = F(r).run,
         SubKept(F(r), new) \/ SubChanged(K(r), F(r), new) \/ SubGone(K(r), new),
         op = "oneclick" => acct[K(r)] # None
  PROVE  Written(r, new)
BY WritesEffect DEF Written

LEMMA WritingEffect ==
  ASSUME TypeOK, NEW r \in Requests, Writing(r)
  PROVE  \E new \in FolderType : Written(r, new)
<1>0. req[r] # None
  BY DEF Writing, Subscribe, Confirm, Personal, Cancel, OneClick, Topic, Consent, Watch, Apply, Advise,
         Forget, Does, Serving
<1>1. F(r) \in FolderType /\ K(r) \in Keys /\ F(r) = Folder(K(r))
  BY <1>0, RequestIsTyped
<1>2. F(r).sub # None => F(r).sub \in SubType /\ acct[K(r)] # None
  BY <1>1, FolderIsTyped DEF Sub
<1>3. ASSUME Subscribe(r)
      PROVE  \E new \in FolderType : Written(r, new)
  <2>1. PICK e \in Emails : Writes(r, "subscribe", [F(r) EXCEPT !.sub = IssueCode(@, e)])
                            /\ UNCHANGED <<letters, lapses, told>>
    BY <1>3 DEF Subscribe
  <2> DEFINE sub == IssueCode(F(r).sub, e)
             new == [F(r) EXCEPT !.sub = sub]
  <2>2. sub \in SubType
    BY <1>2 DEF IssueCode, SubType
  <2>3. /\ sub.last = IF F(r).sub = None THEN "before" ELSE F(r).sub.last
        /\ sub.status = "pending"
        /\ sub.alerts = IF F(r).sub = None THEN {} ELSE F(r).sub.alerts
    BY DEF IssueCode
  <2> HIDE DEF sub
  <2>4. new \in FolderType /\ new.sub = sub /\ new.assets = F(r).assets /\ new.run = F(r).run
    BY <1>1, <2>2 DEF FolderType
  <2>5. sub # None
    BY <2>2, DayAssumption
  <2>6. SubChanged(K(r), F(r), new)
    BY <2>1, <2>3, <2>4, <2>5 DEF SubChanged
  <2>7. Writes(r, "subscribe", new)
    BY <2>1 DEF sub
  <2> HIDE DEF new
  <2> QED
    BY <2>4, <2>6, <2>7, WrittenBy
<1>4. ASSUME Confirm(r)
      PROVE  \E new \in FolderType : Written(r, new)
  <2>1. PICK sub \in ConfirmCode(F(r).sub) : Writes(r, "confirm", [F(r) EXCEPT !.sub = sub])
                            /\ UNCHANGED <<letters, lapses, told>>
    BY <1>4 DEF Confirm
  <2> DEFINE new == [F(r) EXCEPT !.sub = sub]
  <2>2. F(r).sub # None
    BY DEF ConfirmCode
  <2>3. /\ sub \in SubType /\ sub.last = F(r).sub.last /\ sub.alerts = F(r).sub.alerts
        /\ sub.status = "pending" \/ sub.code = "none"
    <3> DEFINE old == F(r).sub
    <3>1. old \in SubType /\ old.status = "pending"
      BY <1>2, <2>2 DEF ConfirmCode
    <3>2. sub = [old EXCEPT !.status = "active", !.code = "none"] \/ sub = [old EXCEPT !.tries = @ + 1]
      BY DEF ConfirmCode
    <3> HIDE DEF old
    <3>3. CASE sub = [old EXCEPT !.status = "active", !.code = "none"]
      BY <3>1, <3>3 DEF SubType, old
    <3>4. CASE sub = [old EXCEPT !.tries = @ + 1]
      BY <3>1, <3>4 DEF SubType, old
    <3> QED
      BY <3>2, <3>3, <3>4
  <2>4. new \in FolderType /\ new.sub = sub /\ new.assets = F(r).assets /\ new.run = F(r).run
    BY <1>1, <2>3 DEF FolderType
  <2>5. sub # None
    BY <2>3, DayAssumption
  <2>6. SubChanged(K(r), F(r), new)
    BY <2>1, <2>2, <2>3, <2>4, <2>5 DEF SubChanged
  <2>7. Writes(r, "confirm", new)
    BY <2>1
  <2> HIDE DEF new
  <2> QED
    BY <2>4, <2>6, <2>7, WrittenBy
<1>5. ASSUME Personal(r)
      PROVE  \E new \in FolderType : Written(r, new)
  <2>1. PICK on \in BOOLEAN :
          /\ F(r).sub # None
          /\ Writes(r, "personal", [F(r) EXCEPT !.sub.personal = on, !.sub.alerts = {}])
          /\ told' = [told EXCEPT ![K(r)] = {}]
          /\ UNCHANGED <<letters, lapses>>
    BY <1>5 DEF Personal
  <2> DEFINE sub == [F(r).sub EXCEPT !.personal = on, !.alerts = {}]
             new == [F(r) EXCEPT !.sub = sub]
  <2>2. /\ sub \in SubType /\ sub.last = F(r).sub.last /\ sub.alerts = {}
        /\ sub.status = F(r).sub.status /\ sub.code = F(r).sub.code
    BY <1>2, <2>1 DEF SubType
  <2>3. new = [F(r) EXCEPT !.sub.personal = on, !.sub.alerts = {}]
    BY <1>1, <1>2, <2>1 DEF FolderType, SubType
  <2> HIDE DEF sub
  <2>4. new \in FolderType /\ new.sub = sub /\ new.assets = F(r).assets /\ new.run = F(r).run
    BY <1>1, <2>2 DEF FolderType
  <2>5. sub # None
    BY <2>2, DayAssumption
  <2>6. SubChanged(K(r), F(r), new)
    BY <2>1, <2>2, <2>4, <2>5 DEF SubChanged
  <2>7. Writes(r, "personal", new)
    BY <2>1, <2>3
  <2> HIDE DEF new
  <2> QED
    BY <2>4, <2>6, <2>7, WrittenBy
<1>6. ASSUME Cancel(r) \/ OneClick(r)
      PROVE  \E new \in FolderType : Written(r, new)
  <2> DEFINE new == [F(r) EXCEPT !.sub = None]
  <2>1. PICK op : Forget(r, op)
    BY <1>6 DEF Cancel, OneClick
  <2>2. new \in FolderType /\ new.sub = None /\ new.assets = F(r).assets /\ new.run = F(r).run
    BY <1>1 DEF FolderType
  <2>3. SubGone(K(r), new) /\ Writes(r, op, new)
    BY <2>1, <2>2 DEF Forget, SubGone
  <2>4. acct[K(r)] # None
    BY <1>2, <1>6 DEF Cancel, OneClick, SignedFor
  <2> HIDE DEF new
  <2> QED
    BY <2>2, <2>3, <2>4, WrittenBy
<1>7. ASSUME NEW op \in Ops \ {"oneclick"}, NEW new, Writes(r, op, new), UNCHANGED <<letters, lapses, told>>,
             new \in FolderType, new.sub = F(r).sub, new.assets = F(r).assets, new.run = F(r).run
      PROVE  \E n \in FolderType : Written(r, n)
  BY <1>7, WrittenBy DEF SubKept
<1>8. ASSUME Topic(r)
      PROVE  \E new \in FolderType : Written(r, new)
  <2>1. PICK t \in Topics : Writes(r, "topic", [F(r) EXCEPT !.topic = t, !.past = IF t = F(r).topic THEN @ ELSE {}])
                            /\ UNCHANGED <<letters, lapses, told>>
    BY <1>8 DEF Topic
  <2> DEFINE past == IF t = F(r).topic THEN F(r).past ELSE {}
             new == [F(r) EXCEPT !.topic = t, !.past = past]
  <2>2. past \in SUBSET (Topics \cup {None})
    BY <1>1 DEF FolderType
  <2>3. Writes(r, "topic", new)
    BY <2>1
  <2> HIDE DEF past
  <2>4. new \in FolderType /\ new.sub = F(r).sub /\ new.assets = F(r).assets /\ new.run = F(r).run
    BY <1>1, <2>2 DEF FolderType
  <2> QED
    BY <1>7, <2>1, <2>3, <2>4 DEF Ops
<1>9. ASSUME Consent(r)
      PROVE  \E new \in FolderType : Written(r, new)
  <2>1. PICK yes \in BOOLEAN : Writes(r, "consent", [F(r) EXCEPT !.consent = yes])
                               /\ UNCHANGED <<letters, lapses, told>>
    BY <1>9 DEF Consent
  <2> DEFINE new == [F(r) EXCEPT !.consent = yes]
  <2>2. new \in FolderType /\ new.sub = F(r).sub /\ new.assets = F(r).assets /\ new.run = F(r).run
    BY <1>1 DEF FolderType
  <2> QED
    BY <1>7, <2>1, <2>2 DEF Ops
<1>10. ASSUME Watch(r)
       PROVE  \E new \in FolderType : Written(r, new)
  <2>1. PICK items \in SUBSET Codes : Writes(r, "watch", [F(r) EXCEPT !.watch = items])
                                      /\ UNCHANGED <<letters, lapses, told>>
    BY <1>10 DEF Watch
  <2> DEFINE new == [F(r) EXCEPT !.watch = items]
  <2>2. new \in FolderType /\ new.sub = F(r).sub /\ new.assets = F(r).assets /\ new.run = F(r).run
    BY <1>1 DEF FolderType
  <2> QED
    BY <1>7, <2>1, <2>2 DEF Ops
<1>11. ASSUME Apply(r)
       PROVE  \E new \in FolderType : Written(r, new)
  <2>1. PICK c \in Codes, add \in BOOLEAN :
          /\ F(r).latest # None
          /\ Writes(r, "apply", [F(r) EXCEPT !.watch = IF add THEN @ \cup {c} ELSE @ \ {c}, !.latest.applied = TRUE])
          /\ UNCHANGED <<letters, lapses, told>>
    BY <1>11 DEF Apply
  <2> DEFINE watch == IF add THEN F(r).watch \cup {c} ELSE F(r).watch \ {c}
             latest == [F(r).latest EXCEPT !.applied = TRUE]
             new == [F(r) EXCEPT !.watch = watch, !.latest = latest]
  <2>2. watch \in SUBSET Codes /\ latest \in LatestType
    BY <1>1, <2>1 DEF FolderType, LatestType
  <2>3. Writes(r, "apply", new)
    BY <1>1, <2>1 DEF FolderType
  <2> HIDE DEF watch, latest
  <2>4. new \in FolderType /\ new.sub = F(r).sub /\ new.assets = F(r).assets /\ new.run = F(r).run
    BY <1>1, <2>2 DEF FolderType
  <2> QED
    BY <1>7, <2>1, <2>3, <2>4 DEF Ops
<1>12. ASSUME Advise(r)
       PROVE  \E new \in FolderType : Written(r, new)
  <2> DEFINE new == [F(r) EXCEPT !.advice = @ + 1]
  <2>1. Writes(r, "advise", new) /\ UNCHANGED <<letters, lapses, told>>
    BY <1>12 DEF Advise
  <2>2. new \in FolderType /\ new.sub = F(r).sub /\ new.assets = F(r).assets /\ new.run = F(r).run
    BY <1>1 DEF FolderType
  <2> QED
    BY <1>7, <2>1, <2>2 DEF Ops
<1> QED
  BY <1>3, <1>4, <1>5, <1>6, <1>8, <1>9, <1>10, <1>11, <1>12 DEF Writing

LEMMA InitTyped == ASSUME Locks # {}, Init PROVE TypeOK
<1>1. LockTypeOK
  BY LockInitInv DEF Init, LockInv
<1>2. acct \in [Keys -> FolderType \cup {None}]
  BY DayAssumption DEF Init
<1>3. IdleSender \in SenderType
  BY DEF IdleSender, SenderType
<1>4. \A k \in Keys : Folder(k) \in FolderType
  <2>1. Blank \in FolderType
    BY DEF Blank, FolderType
  <2> QED
    BY <1>2, <2>1 DEF Folder
<1>5. kept \in [Keys -> SUBSET Assets]
  BY <1>4 DEF Init, FolderType
<1> QED
  BY <1>1, <1>2, <1>3, <1>5 DEF Init, TypeOK

LEMMA SessionTypes ==
  ASSUME TypeOK,
         \/ \E b \in Browsers : Logout(b) \/ \E k \in Keys : Login(b, k)
         \/ \E t \in Tokens : SessionExpires(t)
  PROVE  TypeOK'
<1>1. /\ UNCHANGED <<file, phase, wants, acct, req, thread, sender, letters, lapses, told, kept>>
      /\ session' \in [Tokens -> Keys \cup {None}]
      /\ erased' \subseteq Tokens
  BY DEF Logout, Login, SessionExpires, SignOut, offline, lockVars, researchVars, senderVars, TypeOK
<1> QED
  BY <1>1 DEF TypeOK, LockTypeOK

LEMMA RequestTypes ==
  ASSUME TypeOK, LockTypeOK', NEW r \in Requests,
         \/ \E k \in Keys, op \in Ops, t \in Tokens \cup {None} : Arrive(r, k, op, t)
         \/ Busy(r) \/ Enter(r) \/ Refuse(r) \/ LeaveRequest(r)
         \/ ReadAssets(r) \/ NoSuchAsset(r) \/ SignOutAll(r)
         \/ StartReport(r) \/ AbandonReport(r) \/ ReserveQuota(r)
  PROVE  TypeOK'
<1>1. CASE \E k \in Keys, op \in Ops, t \in Tokens \cup {None} : Arrive(r, k, op, t)
  <2>1. PICK k \in Keys, op \in Ops, t \in Tokens \cup {None} : Arrive(r, k, op, t)
    BY <1>1
  <2>2. [op |-> op, key |-> k, token |-> t, step |-> "enter", topic |-> None, copy |-> {}] \in RequestType
    BY DEF RequestType
  <2> QED
    BY <2>1, <2>2 DEF Arrive, TypeOK, webVars, researchVars, senderVars
<1>2. CASE Busy(r) \/ Refuse(r) \/ LeaveRequest(r)
  BY <1>2 DEF Busy, Refuse, LeaveRequest, Answered, TypeOK, around, webVars, researchVars, senderVars
<1>3. CASE Enter(r)
  <2>1. req' \in [Requests -> RequestType \cup {None}]
    BY <1>3, StepIsTyped DEF Enter
  <2> QED
    BY <1>3, <2>1 DEF Enter, TypeOK, around, webVars, researchVars, senderVars
<1>4. CASE NoSuchAsset(r)
  <2>1. req' \in [Requests -> RequestType \cup {None}]
    BY <1>4, StepIsTyped DEF NoSuchAsset, Serving
  <2> QED
    BY <1>4, <2>1 DEF NoSuchAsset, TypeOK, around, webVars, researchVars, senderVars
<1>5. CASE ReadAssets(r)
  <2>1. req[r] \in RequestType /\ F(r).assets \in SUBSET Assets
    BY <1>5, RequestIsTyped DEF ReadAssets, Serving, FolderType
  <2>2. [req[r] EXCEPT !.copy = F(r).assets, !.step = "write"] \in RequestType
    BY <2>1 DEF RequestType
  <2>3. req' = [req EXCEPT ![r] = [req[r] EXCEPT !.copy = F(r).assets, !.step = "write"]]
    BY <1>5, <2>1 DEF ReadAssets, TypeOK, RequestType
  <2>4. req' \in [Requests -> RequestType \cup {None}]
    BY <2>2, <2>3 DEF TypeOK
  <2> QED
    BY <1>5, <2>4 DEF ReadAssets, TypeOK, around, webVars, researchVars, senderVars
<1>6. CASE SignOutAll(r)
  <2>1. req' \in [Requests -> RequestType \cup {None}]
    BY <1>6, StepIsTyped DEF SignOutAll, Serving
  <2> QED
    BY <1>6, <2>1 DEF SignOutAll, TypeOK, researchVars, senderVars
<1>7. CASE StartReport(r)
  <2>1. req[r] \in RequestType /\ F(r).topic \in Topics \cup {None}
    BY <1>7, RequestIsTyped DEF StartReport, Does, Serving, FolderType
  <2>2. [req[r] EXCEPT !.topic = F(r).topic, !.step = "quota"] \in RequestType
    BY <2>1 DEF RequestType
  <2>3. req' = [req EXCEPT ![r] = [req[r] EXCEPT !.topic = F(r).topic, !.step = "quota"]]
    BY <1>7, <2>1 DEF StartReport, TypeOK, RequestType
  <2>4. req' \in [Requests -> RequestType \cup {None}]
    BY <2>2, <2>3 DEF TypeOK
  <2> QED
    BY <1>7, <2>4 DEF StartReport, TypeOK, webVars, senderVars
<1>8. CASE AbandonReport(r) \/ ReserveQuota(r)
  <2>1. req' \in [Requests -> RequestType \cup {None}]
    BY <1>8, StepIsTyped DEF AbandonReport, ReserveQuota, Serving
  <2> QED
    BY <1>8, <2>1 DEF AbandonReport, ReserveQuota, TypeOK, webVars, senderVars
<1> QED
  BY <1>1, <1>2, <1>3, <1>4, <1>5, <1>6, <1>7, <1>8

LEMMA WritingTypes ==
  ASSUME TypeOK, LockTypeOK', NEW r \in Requests, NEW new \in FolderType, Written(r, new)
  PROVE  TypeOK'
<1>1. K(r) \in Keys /\ req' \in [Requests -> RequestType \cup {None}]
  BY RequestIsTyped, StepIsTyped DEF Written
<1>2. acct' \in [Keys -> FolderType \cup {None}]
  BY <1>1 DEF Written, TypeOK
<1>3. /\ letters' \in [Keys -> Nat] /\ lapses' \in [Keys -> Nat]
      /\ told' \in [Keys -> SUBSET Assets]
  BY DEF Written, TypeOK, SubKept, SubChanged, SubGone
<1> QED
  BY <1>1, <1>2, <1>3 DEF Written, TypeOK, webVars, researchVars

LEMMA AssetEffect ==
  ASSUME TypeOK, NEW r \in Requests, AddAsset(r) \/ DropAsset(r)
  PROVE  \E assets \in SUBSET Assets, a \in Assets :
           /\ req[r] # None /\ phase[r] = "inside" /\ req[r].step = "write" /\ req[r].op \in {"add", "drop"}
           /\ WriteAssets(r, assets)
           /\ \/ assets = req[r].copy \cup {a} /\ kept' = [kept EXCEPT ![K(r)] = @ \cup {a}]
              \/ assets = req[r].copy \ {a} /\ kept' = [kept EXCEPT ![K(r)] = @ \ {a}]
<1>1. req[r] # None /\ req[r].copy \in SUBSET Assets
  BY RequestIsTyped DEF AddAsset, DropAsset, Serving, RequestType
<1>2. CASE AddAsset(r)
  <2>1. PICK a \in Assets \ (req[r].copy \cup kept[K(r)]) :
          WriteAssets(r, req[r].copy \cup {a}) /\ kept' = [kept EXCEPT ![K(r)] = @ \cup {a}]
    BY <1>2 DEF AddAsset
  <2>2. req[r].copy \cup {a} \in SUBSET Assets
    BY <1>1
  <2> QED
    BY <1>1, <1>2, <2>1, <2>2 DEF AddAsset, Serving
<1>3. CASE DropAsset(r)
  <2>1. PICK a \in req[r].copy :
          WriteAssets(r, req[r].copy \ {a}) /\ kept' = [kept EXCEPT ![K(r)] = @ \ {a}]
    BY <1>3 DEF DropAsset
  <2>2. req[r].copy \ {a} \in SUBSET Assets /\ a \in Assets
    BY <1>1
  <2> QED
    BY <1>1, <1>3, <2>1, <2>2 DEF DropAsset, Serving
<1> QED
  BY <1>2, <1>3

LEMMA AssetTypes ==
  ASSUME TypeOK, LockTypeOK', NEW r \in Requests, AddAsset(r) \/ DropAsset(r)
  PROVE  TypeOK'
<1>1. PICK assets \in SUBSET Assets, a \in Assets :
        /\ WriteAssets(r, assets) /\ req[r] # None
        /\ kept' = [kept EXCEPT ![K(r)] = @ \cup {a}] \/ kept' = [kept EXCEPT ![K(r)] = @ \ {a}]
  BY AssetEffect
<1>2. K(r) \in Keys /\ F(r) \in FolderType /\ req' \in [Requests -> RequestType \cup {None}]
  BY <1>1, RequestIsTyped, StepIsTyped DEF WriteAssets
<1>3. [F(r) EXCEPT !.assets = assets] \in FolderType
  BY <1>1, <1>2 DEF FolderType
<1>4. acct' \in [Keys -> FolderType \cup {None}]
  BY <1>1, <1>2, <1>3 DEF WriteAssets, Write, TypeOK
<1>5. kept' \in [Keys -> SUBSET Assets]
  BY <1>1, <1>2 DEF TypeOK
<1> QED
  BY <1>1, <1>2, <1>4, <1>5 DEF WriteAssets, TypeOK, webVars, researchVars, senderVars

LEMMA RunTypes ==
  ASSUME TypeOK, LockTypeOK', NEW r \in Requests, RemoveFolder(r) \/ CountUse(r) \/ StartThread(r)
  PROVE  TypeOK'
<1>0. req[r] # None
  BY DEF RemoveFolder, CountUse, StartThread, Does, Serving
<1>1. /\ req[r] \in RequestType /\ K(r) \in Keys /\ F(r) \in FolderType
      /\ req' \in [Requests -> RequestType \cup {None}]
  BY <1>0, RequestIsTyped, StepIsTyped DEF RemoveFolder, CountUse, StartThread
<1>2. CASE RemoveFolder(r)
  BY <1>1, <1>2 DEF RemoveFolder, TypeOK, webVars, researchVars
<1>3. CASE CountUse(r)
  <2>1. [F(r) EXCEPT !.used = @ + 1] \in FolderType
    BY <1>1 DEF FolderType
  <2>2. acct' \in [Keys -> FolderType \cup {None}]
    BY <1>1, <1>3, <2>1 DEF CountUse, Write, TypeOK
  <2> QED
    BY <1>1, <1>3, <2>2 DEF CountUse, TypeOK, webVars, researchVars, senderVars
<1>4. CASE StartThread(r)
  <2>1. PICK w \in Threads :
          /\ Write(K(r), [F(r) EXCEPT !.run = [id |-> w, status |-> "running", stale |-> FALSE]])
          /\ thread' = [thread EXCEPT ![w] = [key |-> K(r), topic |-> req[r].topic, result |-> "none", saved |-> FALSE]]
    BY <1>4 DEF StartThread
  <2>2. [id |-> w, status |-> "running", stale |-> FALSE] \in RunType
    BY DEF RunType
  <2>3. [F(r) EXCEPT !.run = [id |-> w, status |-> "running", stale |-> FALSE]] \in FolderType
    BY <1>1, <2>2 DEF FolderType
  <2>4. acct' \in [Keys -> FolderType \cup {None}]
    BY <1>1, <2>1, <2>3 DEF Write, TypeOK
  <2>5. [key |-> K(r), topic |-> req[r].topic, result |-> "none", saved |-> FALSE] \in ThreadType
    BY <1>1 DEF ThreadType, RequestType
  <2>6. thread' \in [Threads -> ThreadType \cup {None}]
    BY <2>1, <2>5 DEF TypeOK
  <2> QED
    BY <1>1, <1>4, <2>4, <2>6 DEF StartThread, TypeOK, webVars, senderVars
<1> QED
  BY <1>2, <1>3, <1>4

LEMMA ThreadTypes ==
  ASSUME TypeOK, LockTypeOK', ThreadsOK, NEW w \in Threads,
         Analysed(w) \/ ThreadBusy(w) \/ NotMine(w) \/ SaveResult(w) \/ SaveRun(w)
  PROVE  TypeOK'
<1>0. thread[w] # None => /\ thread[w] \in ThreadType /\ thread[w].key \in Keys
                          /\ Folder(thread[w].key) \in FolderType
  BY FolderIsTyped DEF TypeOK, ThreadType
<1>1. CASE Analysed(w)
  <2>1. PICK result \in {"ok", "failed"} : thread[w] # None /\ thread' = [thread EXCEPT ![w].result = result]
    BY <1>1 DEF Analysed
  <2>2. [thread[w] EXCEPT !.result = result] \in ThreadType
    BY <1>0, <2>1 DEF ThreadType
  <2>3. thread' \in [Threads -> ThreadType \cup {None}]
    BY <2>1, <2>2 DEF TypeOK
  <2> QED
    BY <1>1, <2>3 DEF Analysed, TypeOK, threadOnly, webVars, senderVars
<1>2. CASE ThreadBusy(w) \/ NotMine(w)
  BY <1>2 DEF ThreadBusy, NotMine, EndThread, TypeOK, threadOnly, webVars, senderVars
<1>3. CASE SaveResult(w)
  <2> DEFINE k == thread[w].key
  <2>1. thread[w] # None
    BY <1>3 DEF SaveResult, Mine
  <2>2. [id |-> w, applied |-> FALSE] \in LatestType
    BY DEF LatestType
  <2>3. [Folder(k) EXCEPT !.latest = [id |-> w, applied |-> FALSE], !.past = @ \cup {thread[w].topic}] \in FolderType
    BY <1>0, <2>1, <2>2 DEF FolderType, ThreadType
  <2>4. acct' \in [Keys -> FolderType \cup {None}]
    BY <1>0, <1>3, <2>1, <2>3 DEF SaveResult, Write, TypeOK
  <2>5. [thread[w] EXCEPT !.saved = TRUE] \in ThreadType
    BY <1>0, <2>1 DEF ThreadType
  <2>6. thread' \in [Threads -> ThreadType \cup {None}]
    BY <1>3, <2>5 DEF SaveResult, TypeOK
  <2> QED
    BY <1>3, <2>4, <2>6 DEF SaveResult, TypeOK, threadOnly, webVars, senderVars
<1>4. CASE SaveRun(w)
  <2> DEFINE k == thread[w].key
             run == [id |-> w, status |-> thread[w].result, stale |-> FALSE]
  <2>1. thread[w] # None
    BY <1>4 DEF SaveRun, Mine
  <2>2. acct' = [acct EXCEPT ![k] = [Folder(k) EXCEPT !.run = run]]
    BY <1>4 DEF SaveRun, Write
  <2>3. thread[w].result \in {"ok", "failed"}
    BY <1>4, <2>1 DEF SaveRun, ThreadsOK, ThreadOK
  <2>4. run \in RunType
    BY <2>3 DEF RunType
  <2> HIDE DEF run
  <2>5. [Folder(k) EXCEPT !.run = run] \in FolderType
    BY <1>0, <2>1, <2>4 DEF FolderType
  <2>6. acct' \in [Keys -> FolderType \cup {None}]
    BY <2>2, <2>5 DEF TypeOK
  <2>7. thread' \in [Threads -> ThreadType \cup {None}]
    BY <1>4 DEF SaveRun, EndThread, TypeOK
  <2> QED
    BY <1>4, <2>6, <2>7 DEF SaveRun, TypeOK, threadOnly, webVars, senderVars
<1> QED
  BY <1>1, <1>2, <1>3, <1>4

LEMMA ClockTypes ==
  ASSUME TypeOK, LockTypeOK', NEW k \in Keys, RunStale(k) \/ CodeExpires(k)
  PROVE  TypeOK'
<1>0. acct[k] # None => acct[k] \in FolderType
  BY DEF TypeOK
<1>1. CASE RunStale(k)
  <2>1. acct[k] # None /\ acct[k].run # None
    BY <1>1 DEF RunStale, Running
  <2>2. [acct[k].run EXCEPT !.stale = TRUE] \in RunType
    BY <1>0, <2>1 DEF FolderType, RunType
  <2>3. [acct[k] EXCEPT !.run.stale = TRUE] \in FolderType
    BY <1>0, <2>1, <2>2 DEF FolderType
  <2>4. acct' = [acct EXCEPT ![k] = [acct[k] EXCEPT !.run.stale = TRUE]]
    BY <1>0, <1>1, <2>1 DEF RunStale, TypeOK
  <2>5. acct' \in [Keys -> FolderType \cup {None}]
    BY <2>3, <2>4 DEF TypeOK
  <2> QED
    BY <1>1, <2>5 DEF RunStale, TypeOK, threadOnly, webVars, senderVars
<1>2. CASE CodeExpires(k)
  <2>1. acct[k] # None /\ acct[k].sub \in SubType
    BY <1>2, FolderIsTyped DEF CodeExpires
  <2>2. [acct[k].sub EXCEPT !.code = "over"] \in SubType
    BY <2>1 DEF SubType
  <2>3. [acct[k] EXCEPT !.sub.code = "over"] \in FolderType
    BY <1>0, <2>1, <2>2 DEF FolderType
  <2>4. acct' = [acct EXCEPT ![k] = [acct[k] EXCEPT !.sub.code = "over"]]
    BY <1>0, <1>2, <2>1 DEF CodeExpires, TypeOK
  <2>5. acct' \in [Keys -> FolderType \cup {None}]
    BY <2>3, <2>4 DEF TypeOK
  <2> QED
    BY <1>2, <2>5 DEF CodeExpires, TypeOK, around, webVars, researchVars, senderVars
<1> QED
  BY <1>1, <1>2

(* What a record of a letter writes. *)
LEMMA RecordEffect ==
  ASSUME TypeOK, SendersOK, NEW s \in Senders, Record(s)
  PROVE  \E sub \in SubType :
           /\ sub = [sender[s].copy EXCEPT !.last = "today",
                                           !.alerts = IF sender[s].copy.personal THEN sender[s].alerts ELSE @]
           /\ sub.last = "today"
           /\ sub.status = sender[s].copy.status /\ sub.code = sender[s].copy.code
           /\ sub.alerts \in {sender[s].alerts, sender[s].copy.alerts}
           /\ sender[s].key \in Keys /\ acct[sender[s].key] \in FolderType
           /\ acct' = [acct EXCEPT ![sender[s].key] = [acct[sender[s].key] EXCEPT !.sub = sub]]
           /\ [acct[sender[s].key] EXCEPT !.sub = sub] \in FolderType
<1> DEFINE k == sender[s].key
           sub == [sender[s].copy EXCEPT !.last = "today",
                     !.alerts = IF sender[s].copy.personal THEN sender[s].alerts ELSE @]
<1>1. /\ sender[s] \in SenderType /\ k \in Keys /\ sender[s].copy \in SubType
      /\ acct[k] # None /\ Folder(k) = acct[k] /\ acct[k] \in FolderType
  BY FolderIsTyped DEF SendersOK, SenderOK, TypeOK, Record, Sending, Due
<1>2. /\ sub \in SubType /\ sub.last = "today" /\ sub.alerts \in {sender[s].alerts, sender[s].copy.alerts}
      /\ sub.status = sender[s].copy.status /\ sub.code = sender[s].copy.code
  BY <1>1 DEF SubType, SenderType
<1>3. acct' = [acct EXCEPT ![k] = [Folder(k) EXCEPT !.sub = sub]]
  BY DEF Record, Write
<1> HIDE DEF sub
<1>4. [acct[k] EXCEPT !.sub = sub] \in FolderType
  BY <1>1, <1>2 DEF FolderType
<1> USE DEF sub
<1> QED
  BY <1>1, <1>2, <1>3, <1>4

LEMMA SenderTypes ==
  ASSUME TypeOK, LockTypeOK', SendersOK, NEW s \in Senders,
         \/ StartSending(s) \/ AllSent(s) \/ AccountBusy(s) \/ Look(s) \/ Mail(s) \/ MailRefused(s)
         \/ SessionBreaks(s) \/ Record(s) \/ RecordFails(s) \/ LeaveAccount(s) \/ SenderDies(s)
         \/ \E k \in Keys : NextAccount(s, k)
  PROVE  TypeOK'
<1>0. sender[s] \in SenderType /\ IdleSender \in SenderType
  BY DEF TypeOK, IdleSender, SenderType
<1>1. CASE StartSending(s)
  <2>1. [IdleSender EXCEPT !.at = "next", !.todo = {k \in Keys : Due(k)}] \in SenderType
    BY DEF IdleSender, SenderType
  <2> QED
    BY <1>1, <2>1 DEF StartSending, TypeOK, others, webVars, researchVars
<1>2. CASE AllSent(s)
  BY <1>0, <1>2 DEF AllSent, TypeOK, others, webVars, researchVars
<1>3. CASE AccountBusy(s) \/ LeaveAccount(s)
  <2>1. [sender[s] EXCEPT !.at = "next"] \in SenderType
    BY <1>0 DEF SenderType
  <2>2. sender' = [sender EXCEPT ![s] = [sender[s] EXCEPT !.at = "next"]]
    BY <1>0, <1>3 DEF AccountBusy, LeaveAccount, TypeOK
  <2>3. sender' \in [Senders -> SenderType]
    BY <2>1, <2>2 DEF TypeOK
  <2> QED
    BY <1>3, <2>3 DEF AccountBusy, LeaveAccount, TypeOK, others, webVars, researchVars
<1>4. ASSUME Done(s)
      PROVE  sender' \in [Senders -> SenderType]
  <2>1. [sender[s] EXCEPT !.at = "leave", !.copy = None, !.alerts = {}] \in SenderType
    BY <1>0 DEF SenderType
  <2>2. sender' = [sender EXCEPT ![s] = [sender[s] EXCEPT !.at = "leave", !.copy = None, !.alerts = {}]]
    BY <1>0, <1>4 DEF Done, TypeOK
  <2> QED
    BY <2>1, <2>2 DEF TypeOK
<1>5. CASE Look(s)
  <2> DEFINE k == sender[s].key
  <2>1. CASE Due(k)
    <3>1. k \in Keys
      BY <1>5 DEF Look, Sending, SendersOK, SenderOK
    <3>2. Sub(k) \in SubType /\ acct[k] \in FolderType
      BY <2>1, <3>1, FolderIsTyped DEF Due, TypeOK
    <3>3. Alerts(k) \in SUBSET Assets
      BY <3>2 DEF Alerts, FolderType
    <3>4. [sender[s] EXCEPT !.at = "mail", !.copy = Sub(k), !.alerts = Alerts(k)] \in SenderType
      BY <1>0, <3>2, <3>3 DEF SenderType
    <3>5. sender' = [sender EXCEPT ![s] = [sender[s] EXCEPT !.at = "mail", !.copy = Sub(k), !.alerts = Alerts(k)]]
      BY <1>0, <1>5, <2>1 DEF Look, TypeOK
    <3>6. sender' \in [Senders -> SenderType]
      BY <3>4, <3>5 DEF TypeOK
    <3> QED
      BY <1>5, <3>6 DEF Look, TypeOK, others, webVars, researchVars
  <2>2. CASE ~Due(k)
    <3>1. sender' \in [Senders -> SenderType]
      BY <1>4, <1>5, <2>2 DEF Look
    <3> QED
      BY <1>5, <3>1 DEF Look, TypeOK, others, webVars, researchVars
  <2> QED
    BY <2>1, <2>2
<1>6. CASE Mail(s)
  <2>1. sender[s].key \in Keys
    BY <1>6 DEF Mail, Sending, SendersOK, SenderOK
  <2>2. [sender[s] EXCEPT !.at = "record"] \in SenderType
    BY <1>0 DEF SenderType
  <2>3. sender' = [sender EXCEPT ![s] = [sender[s] EXCEPT !.at = "record"]]
    BY <1>0, <1>6 DEF Mail, TypeOK
  <2>4. sender' \in [Senders -> SenderType]
    BY <2>2, <2>3 DEF TypeOK
  <2>5. letters' \in [Keys -> Nat] /\ told' \in [Keys -> SUBSET Assets]
    BY <1>0, <1>6, <2>1 DEF Mail, TypeOK, SenderType
  <2> QED
    BY <1>6, <2>4, <2>5 DEF Mail, TypeOK, others, webVars, researchVars
<1>7. CASE MailRefused(s)
  BY <1>4, <1>7 DEF MailRefused, TypeOK, others, webVars, researchVars
<1>8. CASE SessionBreaks(s)
  <2>1. [IdleSender EXCEPT !.at = "leave"] \in SenderType
    BY DEF IdleSender, SenderType
  <2> QED
    BY <1>8, <2>1 DEF SessionBreaks, TypeOK, others, webVars, researchVars
<1>9. CASE Record(s)
  <2>1. acct' \in [Keys -> FolderType \cup {None}]
    BY <1>9, RecordEffect DEF TypeOK
  <2>2. sender' \in [Senders -> SenderType]
    BY <1>4, <1>9 DEF Record
  <2> QED
    BY <1>9, <2>1, <2>2 DEF Record, TypeOK, others, webVars, researchVars
<1>10. CASE RecordFails(s)
  <2>1. sender' \in [Senders -> SenderType]
    BY <1>4, <1>10 DEF RecordFails
  <2>2. sender[s].key \in Keys
    BY <1>10 DEF RecordFails, Sending, SendersOK, SenderOK
  <2>3. lapses' \in [Keys -> Nat]
    BY <1>10, <2>2 DEF RecordFails, Lapse, TypeOK
  <2> QED
    BY <1>10, <2>1, <2>3 DEF RecordFails, TypeOK, others, webVars, researchVars
<1>11. CASE SenderDies(s)
  <2>1. sender' \in [Senders -> SenderType] /\ lapses' \in [Keys -> Nat]
    BY <1>0, <1>11 DEF SenderDies, Lapse, TypeOK
  <2> QED
    BY <1>11, <2>1 DEF SenderDies, TypeOK, webVars, researchVars
<1>12. ASSUME NEW k \in Keys, NextAccount(s, k)
       PROVE  TypeOK'
  <2>1. [sender[s] EXCEPT !.at = "look", !.key = k, !.todo = @ \ {k}] \in SenderType
    BY <1>0 DEF SenderType
  <2>2. sender' = [sender EXCEPT ![s] = [sender[s] EXCEPT !.at = "look", !.key = k, !.todo = @ \ {k}]]
    BY <1>0, <1>12 DEF NextAccount, TypeOK
  <2>3. sender' \in [Senders -> SenderType]
    BY <2>1, <2>2 DEF TypeOK
  <2> QED
    BY <1>12, <2>3 DEF NextAccount, TypeOK, others, webVars, researchVars
<1> QED
  BY <1>1, <1>2, <1>3, <1>5, <1>6, <1>7, <1>8, <1>9, <1>10, <1>11, <1>12

LEMMA NextTyped ==
  ASSUME TypeOK, LockTypeOK', SendersOK, ThreadsOK, [Next]_vars
  PROVE  TypeOK'
<1>1. CASE \/ \E b \in Browsers : Logout(b) \/ \E k \in Keys : Login(b, k)
           \/ \E t \in Tokens : SessionExpires(t)
  BY <1>1, SessionTypes
<1>2. ASSUME NEW r \in Requests,
             \/ \E k \in Keys, op \in Ops, t \in Tokens \cup {None} : Arrive(r, k, op, t)
             \/ Busy(r) \/ Enter(r) \/ Refuse(r) \/ LeaveRequest(r)
             \/ ReadAssets(r) \/ NoSuchAsset(r) \/ SignOutAll(r)
             \/ StartReport(r) \/ AbandonReport(r) \/ ReserveQuota(r)
      PROVE  TypeOK'
  BY <1>2, RequestTypes
<1>3. ASSUME NEW r \in Requests, Writing(r)
      PROVE  TypeOK'
  BY <1>3, WritingEffect, WritingTypes
<1>4. ASSUME NEW r \in Requests,
             AddAsset(r) \/ DropAsset(r) \/ RemoveFolder(r) \/ CountUse(r) \/ StartThread(r)
      PROVE  TypeOK'
  BY <1>4, AssetTypes, RunTypes
<1>5. ASSUME NEW w \in Threads, Analysed(w) \/ ThreadBusy(w) \/ NotMine(w) \/ SaveResult(w) \/ SaveRun(w)
      PROVE  TypeOK'
  BY <1>5, ThreadTypes
<1>6. ASSUME NEW k \in Keys, RunStale(k) \/ CodeExpires(k)
      PROVE  TypeOK'
  BY <1>6, ClockTypes
<1>7. ASSUME NEW s \in Senders,
             \/ StartSending(s) \/ AllSent(s) \/ AccountBusy(s) \/ Look(s) \/ Mail(s) \/ MailRefused(s)
             \/ SessionBreaks(s) \/ Record(s) \/ RecordFails(s) \/ LeaveAccount(s) \/ SenderDies(s)
             \/ \E k \in Keys : NextAccount(s, k)
      PROVE  TypeOK'
  BY <1>7, SenderTypes
<1>8. CASE WorkerDies
  BY <1>8 DEF WorkerDies, TypeOK, senderVars
<1>9. CASE UNCHANGED content
  BY <1>9 DEF content, TypeOK, webVars, researchVars, senderVars
<1>10. CASE UNCHANGED vars
  BY <1>9, <1>10 DEF vars, content
<1> QED
  BY <1>1, <1>2, <1>3, <1>4, <1>5, <1>6, <1>7, <1>8, <1>9, <1>10 DEF Next, Writing

-----------------------------------------------------------------------------
(* The lock                                                                *)

(* Who works under the lock of an account is the only one who does. *)
LEMMA Alone ==
  ASSUME TypeOK, Owned, SendersOK, RequestsOK, ThreadsOK, NEW p \in Procs, phase[p] = "inside"
  PROVE  /\ \A s \in Senders : s # p /\ sender[s].at \in {"mail", "record"} => sender[s].key # wants[p]
         /\ \A r \in Requests : r # p /\ req[r] # None /\ req[r].step # "enter" => req[r].key # wants[p]
         /\ \A w \in Threads : w # p /\ thread[w] # None /\ thread[w].saved => thread[w].key # wants[p]
<1>1. wants[p] \in Locks /\ Procs = Requests \cup Senders \cup Threads
  BY AccountsAssumption DEF TypeOK, LockTypeOK
<1>2. \A q \in Procs : Inside(q, wants[p]) => q = p
  BY <1>1 DEF Owned, Inside, At
<1>3. ASSUME NEW s \in Senders, s # p, sender[s].at \in {"mail", "record"}
      PROVE  sender[s].key # wants[p]
  <2>1. phase[s] = "inside" /\ wants[s] = sender[s].key
    BY <1>3 DEF SendersOK, SenderOK
  <2> QED
    BY <1>1, <1>2, <1>3, <2>1 DEF Inside, At
<1>4. ASSUME NEW r \in Requests, r # p, req[r] # None, req[r].step # "enter"
      PROVE  req[r].key # wants[p]
  <2>1. phase[r] = "inside" /\ wants[r] = req[r].key
    BY <1>4 DEF RequestsOK, RequestOK
  <2> QED
    BY <1>1, <1>2, <1>4, <2>1 DEF Inside, At
<1>5. ASSUME NEW w \in Threads, w # p, thread[w] # None, thread[w].saved
      PROVE  thread[w].key # wants[p]
  <2>1. phase[w] = "inside" /\ wants[w] = thread[w].key
    BY <1>5 DEF ThreadsOK, ThreadOK
  <2> QED
    BY <1>1, <1>2, <1>5, <2>1 DEF Inside, At
<1> QED
  BY <1>3, <1>4, <1>5

(* A process steps and the others keep their place at their locks. *)
OthersKeep(p) == \A q \in Procs : q # p => phase'[q] = phase[q] /\ wants'[q] = wants[q]

LEMMA LockMoves ==
  ASSUME TypeOK, NEW p \in Procs
  PROVE  /\ \A l \in Locks : Try(p, l) => OthersKeep(p) /\ wants'[p] = l /\ phase[p] = "out" /\ phase'[p] = "trying"
         /\ Create(p) => OthersKeep(p) /\ wants' = wants /\ phase[p] = "trying" /\ phase'[p] = "inside"
         /\ GiveUp(p) => OthersKeep(p) /\ wants' = wants /\ phase[p] = "trying" /\ phase'[p] = "out"
         /\ Leave(p) => OthersKeep(p) /\ wants' = wants /\ phase[p] = "inside" /\ phase'[p] = "out"
         /\ FindStale(p) => OthersKeep(p) /\ wants' = wants /\ phase[p] = "trying" /\ phase'[p] = "breaking"
         /\ Break(p) => OthersKeep(p) /\ wants' = wants /\ phase[p] = "breaking" /\ phase'[p] = "trying"
BY DEF TypeOK, LockTypeOK, OthersKeep, Try, Create, GiveUp, Leave, FindStale, Break

-----------------------------------------------------------------------------
(* A step of one process                                                   *)

SameAccount(k) ==
  /\ acct'[k] = acct[k] /\ letters'[k] = letters[k] /\ lapses'[k] = lapses[k]
  /\ told'[k] = told[k] /\ kept'[k] = kept[k]

(* A thread is left as it is, or it is one that a request has just started. *)
SameWork(q) ==
  /\ q \in Senders => sender'[q] = sender[q]
  /\ q \in Requests => req'[q] = req[q]
  /\ q \in Threads =>
       \/ thread'[q] = thread[q]
       \/ phase[q] = "out" /\ thread'[q] # None /\ thread'[q].result = "none" /\ ~thread'[q].saved

(* A process works at the account whose lock it holds, or at none. *)
StepOf(p) ==
  /\ OthersKeep(p)
  /\ \A q \in Procs : q # p => SameWork(q)
  /\ \A k \in Keys : k # wants[p] \/ phase[p] # "inside" => SameAccount(k)

LEMMA SameFiles ==
  ASSUME NEW k, acct'[k] = acct[k]
  PROVE  Folder(k)' = Folder(k) /\ Sub(k)' = Sub(k) /\ Due(k)' = Due(k)
BY DEF Folder, Sub, Due, Blank

LEMMA SenderStays ==
  ASSUME NEW s, SenderOK(s), sender'[s] = sender[s], wants'[s] = wants[s], phase'[s] = phase[s],
         sender[s].at \in {"mail", "record"} => SameAccount(sender[s].key)
  PROVE  SenderOK(s)'
BY SameFiles DEF SenderOK, SameAccount

LEMMA RequestStays ==
  ASSUME NEW r, RequestOK(r), req'[r] = req[r], wants'[r] = wants[r], phase'[r] = phase[r],
         req[r] # None /\ req[r].step # "enter" => SameAccount(req[r].key)
  PROVE  RequestOK(r)'
<1>1. CASE req[r] # None /\ req[r].step # "enter"
  <2>1. Folder(req[r].key)' = Folder(req[r].key)
    BY <1>1, SameFiles DEF SameAccount
  <2> QED
    BY <2>1 DEF RequestOK, F
<1>2. CASE req[r] = None \/ req[r].step = "enter"
  BY <1>2 DEF RequestOK
<1> QED
  BY <1>1, <1>2

LEMMA ThreadStays ==
  ASSUME NEW w, ThreadOK(w), thread'[w] = thread[w], wants'[w] = wants[w], phase'[w] = phase[w],
         thread[w] # None /\ thread[w].saved => SameAccount(thread[w].key)
  PROVE  ThreadOK(w)'
BY DEF ThreadOK, SameAccount, Current

(* The step of a process leaves what the invariant says of the others. *)
LEMMA OthersStay ==
  ASSUME TypeOK, Owned, SendersOK, RequestsOK, ThreadsOK, NEW p \in Procs, StepOf(p)
  PROVE  /\ \A s \in Senders \ {p} : SenderOK(s)'
         /\ \A r \in Requests \ {p} : RequestOK(r)'
         /\ \A w \in Threads \ {p} : ThreadOK(w)'
<1>0. Procs = Requests \cup Senders \cup Threads
  BY AccountsAssumption
<1>1. ASSUME NEW s \in Senders \ {p}
      PROVE  SenderOK(s)'
  <2>1. sender[s].at \in {"mail", "record"} => SameAccount(sender[s].key)
    BY Alone DEF StepOf, SendersOK, SenderOK
  <2> QED
    BY <1>0, <2>1, SenderStays DEF StepOf, SameWork, OthersKeep, SendersOK
<1>2. ASSUME NEW r \in Requests \ {p}
      PROVE  RequestOK(r)'
  <2>1. req[r] # None /\ req[r].step # "enter" => SameAccount(req[r].key)
    BY Alone, RequestIsTyped DEF StepOf, K
  <2> QED
    BY <1>0, <2>1, RequestStays DEF StepOf, SameWork, OthersKeep, RequestsOK
<1>3. ASSUME NEW w \in Threads \ {p}
      PROVE  ThreadOK(w)'
  <2>1. thread[w] # None /\ thread[w].saved => SameAccount(thread[w].key)
    BY Alone DEF StepOf, TypeOK, ThreadType
  <2>2. CASE thread'[w] = thread[w]
    BY <1>0, <2>1, <2>2, ThreadStays DEF StepOf, OthersKeep, ThreadsOK
  <2>3. CASE thread'[w] # thread[w]
    BY <1>0, <2>3 DEF StepOf, SameWork, OthersKeep, ThreadOK
  <2> QED
    BY <2>2, <2>3
<1> QED
  BY <1>1, <1>2, <1>3

(* What a step has to keep of an account. *)
LEMMA AccountStays ==
  ASSUME NEW k \in Keys, AccountOK(k), Sub(k)' = Sub(k), Folder(k).assets' = kept'[k],
         letters'[k] = letters[k], lapses'[k] = lapses[k], told'[k] = told[k],
         \A s \in Senders : Recording(s, k)' = Recording(s, k)
  PROVE  AccountOK(k)'
<1>1. Owed(k)' = Owed(k)
  BY DEF Owed
<1> QED
  BY <1>1 DEF AccountOK

LEMMA OtherAccountsStay ==
  ASSUME TypeOK, AccountsOK, NEW p \in Procs, StepOf(p),
         NEW k \in Keys, k # wants[p] \/ phase[p] # "inside",
         p \in Senders => Recording(p, k)' = Recording(p, k)
  PROVE  AccountOK(k)'
<1>1. SameAccount(k) /\ Folder(k)' = Folder(k) /\ Sub(k)' = Sub(k)
  BY SameFiles DEF StepOf, SameAccount
<1>2. \A s \in Senders : Recording(s, k)' = Recording(s, k)
  BY AccountsAssumption DEF StepOf, SameWork, Recording
<1> QED
  BY <1>1, <1>2, AccountStays DEF AccountsOK, AccountOK, SameAccount

(* A session holds on while requests only go on with what they are at. *)
GoesOn(r) ==
  \/ req'[r] = req[r] \/ req'[r] = None
  \/ /\ req[r] # None /\ req'[r].op = req[r].op /\ req'[r].key = req[r].key /\ req'[r].token = req[r].token
     /\ req'[r].step = "leave" \/ req[r].step \notin {"enter", "leave"}

LEMMA SessionsStay ==
  ASSUME SessionsOK, session' = session, erased' = erased, \A r \in Requests : GoesOn(r)
  PROVE  SessionsOK'
<1>1. ASSUME NEW r \in Requests
      PROVE  SessionOK(r)'
  BY <1>1 DEF SessionsOK, SessionOK, GoesOn
<1> QED
  BY <1>1 DEF SessionsOK

-----------------------------------------------------------------------------
(* Requests                                                                *)

Kept == AccountsOK' /\ SendersOK' /\ RequestsOK' /\ SessionsOK' /\ ThreadsOK'

(* A request's step keeps the invariant when it keeps what is said of itself, of its *)
(* account and of the sessions.                                                       *)
LEMMA RequestKeeps ==
  ASSUME FoldersOK, NEW r \in Requests, StepOf(r), RequestOK(r)', SessionsOK',
         phase[r] = "inside" => \A k \in Keys : k = wants[r] => AccountOK(k)'
  PROVE  Kept
<1>1. r \in Procs /\ r \notin Senders /\ r \notin Threads
  BY AccountsAssumption, DayAssumption
<1>2. SendersOK' /\ RequestsOK' /\ ThreadsOK'
  BY <1>1, OthersStay DEF FoldersOK, SendersOK, RequestsOK, ThreadsOK
<1>3. ASSUME NEW k \in Keys
      PROVE  AccountOK(k)'
  <2>1. CASE k = wants[r] /\ phase[r] = "inside"
    BY <2>1
  <2>2. CASE k # wants[r] \/ phase[r] # "inside"
    BY <1>1, <2>2, OtherAccountsStay DEF FoldersOK
  <2> QED
    BY <2>1, <2>2
<1> QED
  BY <1>2, <1>3 DEF Kept, AccountsOK

(* The same when it writes nothing. *)
LEMMA ReadingKeeps ==
  ASSUME FoldersOK, NEW r \in Requests, OthersKeep(r), UNCHANGED <<acct, letters, lapses, told, kept, sender, thread>>,
         \A q \in Requests \ {r} : req'[q] = req[q], RequestOK(r)', SessionsOK'
  PROVE  Kept
<1>1. StepOf(r)
  BY AccountsAssumption, DayAssumption DEF StepOf, SameWork, SameAccount
<1>2. wants[r] \in Keys
  BY AccountsAssumption DEF FoldersOK, TypeOK, LockTypeOK
<1>3. \A k \in Keys : AccountOK(k)'
  BY AccountStays, SameFiles DEF FoldersOK, AccountsOK, AccountOK, Recording
<1> QED
  BY <1>1, <1>2, <1>3, RequestKeeps

LEMMA ArriveKeeps ==
  ASSUME FoldersOK, NEW r \in Requests, NEW k \in Keys, NEW op \in Ops, NEW t \in Tokens \cup {None}, Arrive(r, k, op, t)
  PROVE  Kept
<1> DEFINE new == [op |-> op, key |-> k, token |-> t, step |-> "enter", topic |-> None, copy |-> {}]
<1>1. req' = [req EXCEPT ![r] = new] /\ req'[r] = new /\ \A q \in Requests \ {r} : req'[q] = req[q]
  BY DEF Arrive, FoldersOK, TypeOK
<1>2. OthersKeep(r) /\ wants'[r] = k
  BY AccountsAssumption, LockMoves DEF Arrive, FoldersOK
<1>3. /\ UNCHANGED <<acct, letters, lapses, told, kept, sender, thread, session, erased>>
      /\ op # "oneclick" => t \in Tokens /\ session[t] = k
  BY DEF Arrive, webVars, researchVars, senderVars
<1>4. RequestOK(r)'
  BY <1>1, <1>2 DEF RequestOK
<1>5. ASSUME NEW q \in Requests
      PROVE  SessionOK(q)'
  <2>1. CASE q = r
    BY <1>1, <1>3, <2>1 DEF SessionOK
  <2>2. CASE q # r
    BY <1>1, <1>3, <2>2 DEF SessionOK, FoldersOK, SessionsOK
  <2> QED
    BY <2>1, <2>2
<1>6. SessionsOK'
  BY <1>3, <1>5 DEF FoldersOK, SessionsOK
<1> QED
  BY <1>1, <1>2, <1>3, <1>4, <1>6, ReadingKeeps

LEMMA EnterKeeps ==
  ASSUME FoldersOK, NEW r \in Requests, Enter(r)
  PROVE  Kept
<1> DEFINE step == IF req[r].op = "oneclick" \/ session[req[r].token] # None THEN "work" ELSE "leave"
<1>0. req[r] # None /\ step \in {"work", "leave"} /\ Step(r, step)
  BY DEF Enter
<1>1. /\ req'[r] # None /\ req'[r].step = step /\ req'[r].op = req[r].op /\ req'[r].key = req[r].key
      /\ req'[r].token = req[r].token /\ \A q \in Requests \ {r} : req'[q] = req[q]
  BY <1>0, StepIsTyped DEF FoldersOK
<1>2. OthersKeep(r) /\ wants' = wants /\ phase'[r] = "inside"
  BY AccountsAssumption, LockMoves DEF Enter, FoldersOK
<1>3. UNCHANGED <<acct, letters, lapses, told, kept, sender, thread, session, erased>>
  BY DEF Enter, around, webVars, researchVars, senderVars
<1>4. RequestOK(r)'
  BY <1>0, <1>1, <1>2 DEF FoldersOK, RequestsOK, RequestOK
<1>5. ASSUME NEW q \in Requests
      PROVE  SessionOK(q)'
  <2>1. CASE q = r
    BY <1>0, <1>1, <1>3, <2>1 DEF SessionOK, FoldersOK, SessionsOK
  <2>2. CASE q # r
    BY <1>1, <1>3, <2>2 DEF SessionOK, FoldersOK, SessionsOK
  <2> QED
    BY <2>1, <2>2
<1>6. SessionsOK'
  BY <1>3, <1>5 DEF FoldersOK, SessionsOK
<1> QED
  BY <1>1, <1>2, <1>3, <1>4, <1>6, ReadingKeeps

LEMMA LeavingKeeps ==
  ASSUME FoldersOK, NEW r \in Requests, Busy(r) \/ Refuse(r) \/ LeaveRequest(r)
  PROVE  Kept
<1>1. req'[r] = None /\ \A q \in Requests \ {r} : req'[q] = req[q]
  BY DEF Busy, Refuse, LeaveRequest, Answered, FoldersOK, TypeOK
<1>2. OthersKeep(r)
  BY AccountsAssumption, LockMoves DEF Busy, Refuse, LeaveRequest, FoldersOK
<1>3. UNCHANGED <<acct, letters, lapses, told, kept, sender, thread, session, erased>>
  BY DEF Busy, Refuse, LeaveRequest, around, webVars, researchVars, senderVars
<1>4. RequestOK(r)'
  BY <1>1 DEF RequestOK
<1>5. SessionsOK'
  BY <1>1, <1>3, SessionsStay DEF FoldersOK, GoesOn
<1> QED
  BY <1>1, <1>2, <1>3, <1>4, <1>5, ReadingKeeps

(* A request that moves on under its lock. *)
LEMMA StepKeepsRequest ==
  ASSUME FoldersOK, NEW r \in Requests, req[r] # None, phase[r] = "inside", UNCHANGED lockVars,
         NEW step \in {"signout", "quota", "usage", "mark", "leave"}, Step(r, step),
         req[r].step \notin {"enter", "leave"}, req[r].op = "oneclick" => step = "leave"
  PROVE  /\ RequestOK(r)' /\ OthersKeep(r) /\ GoesOn(r)
         /\ \A q \in Requests \ {r} : req'[q] = req[q]
         /\ wants[r] = K(r)
<1>1. /\ req'[r] # None /\ req'[r].step = step /\ req'[r].op = req[r].op /\ req'[r].key = req[r].key
      /\ req'[r].token = req[r].token /\ \A q \in Requests \ {r} : req'[q] = req[q]
  BY StepIsTyped DEF FoldersOK
<1>2. OthersKeep(r) /\ wants'[r] = wants[r] /\ phase'[r] = "inside" /\ wants[r] = K(r)
  BY DEF OthersKeep, lockVars, FoldersOK, RequestsOK, RequestOK, K
<1>3. RequestOK(r)' /\ GoesOn(r)
  BY <1>1, <1>2 DEF RequestOK, GoesOn, K
<1> QED
  BY <1>1, <1>2, <1>3

LEMMA SteppingKeeps ==
  ASSUME FoldersOK, NEW r \in Requests,
         NoSuchAsset(r) \/ StartReport(r) \/ AbandonReport(r) \/ ReserveQuota(r) \/ ReadAssets(r)
  PROVE  Kept
<1>1. /\ req[r] # None /\ phase[r] = "inside" /\ req[r].step \notin {"enter", "leave"}
      /\ UNCHANGED <<lockVars, acct, letters, lapses, told, kept, sender, thread, session, erased>>
  BY DEF NoSuchAsset, StartReport, AbandonReport, ReserveQuota, ReadAssets, Serving, Does, around, webVars,
         researchVars, senderVars
<1>2. RequestOK(r)' /\ OthersKeep(r) /\ GoesOn(r) /\ \A q \in Requests \ {r} : req'[q] = req[q]
  <2>1. CASE NoSuchAsset(r) \/ AbandonReport(r)
    BY <1>1, <2>1, StepKeepsRequest DEF NoSuchAsset, AbandonReport
  <2>2. CASE ReserveQuota(r)
    <3>1. req[r].op # "oneclick"
      BY <1>1, <2>2 DEF ReserveQuota, Serving, FoldersOK, RequestsOK, RequestOK
    <3> QED
      BY <1>1, <2>2, <3>1, StepKeepsRequest DEF ReserveQuota
  <2>3. req[r] \in RequestType /\ OthersKeep(r) /\ wants'[r] = req[r].key /\ phase'[r] = "inside"
    BY <1>1, RequestIsTyped DEF FoldersOK, RequestsOK, RequestOK, OthersKeep, lockVars
  <2>4. CASE StartReport(r)
    <3> DEFINE new == [req[r] EXCEPT !.topic = F(r).topic, !.step = "quota"]
    <3>1. req' = [req EXCEPT ![r] = new] /\ req[r].op = "report"
      BY <2>3, <2>4 DEF StartReport, Does, RequestType
    <3>2. /\ new.op = req[r].op /\ new.key = req[r].key /\ new.token = req[r].token /\ new.step = "quota"
          /\ req'[r] = new /\ \A q \in Requests \ {r} : req'[q] = req[q]
      BY <2>3, <3>1 DEF RequestType, FoldersOK, TypeOK
    <3> HIDE DEF new
    <3> QED
      BY <1>1, <2>3, <3>1, <3>2 DEF RequestOK, GoesOn
  <2>5. CASE ReadAssets(r)
    <3> DEFINE new == [req[r] EXCEPT !.copy = F(r).assets, !.step = "write"]
    <3>1. req' = [req EXCEPT ![r] = new] /\ req[r].op \in {"add", "drop"}
      BY <2>3, <2>5 DEF ReadAssets, RequestType
    <3>2. /\ new.op = req[r].op /\ new.key = req[r].key /\ new.token = req[r].token /\ new.step = "write"
          /\ new.copy = F(r).assets
          /\ req'[r] = new /\ \A q \in Requests \ {r} : req'[q] = req[q]
      BY <2>3, <3>1 DEF RequestType, FoldersOK, TypeOK
    <3> HIDE DEF new
    <3>3. F(r)' = F(r)
      BY <1>1, <3>2 DEF F, Folder, Blank
    <3> QED
      BY <1>1, <2>3, <3>1, <3>2, <3>3 DEF RequestOK, GoesOn
  <2> QED
    BY <2>1, <2>2, <2>4, <2>5
<1>3. SessionsOK'
  BY <1>1, <1>2, SessionsStay DEF FoldersOK, GoesOn
<1> QED
  BY <1>1, <1>2, <1>3, ReadingKeeps

(* DELETE /api/account signs out what could still work on the account. *)
LEMMA SigningOutKeeps ==
  ASSUME FoldersOK, NEW r \in Requests, SignOutAll(r)
  PROVE  Kept
<1>1. /\ req[r] # None /\ phase[r] = "inside" /\ req[r].step = "signout" /\ Step(r, "leave")
      /\ UNCHANGED <<lockVars, acct, letters, lapses, told, kept, sender, thread>>
      /\ session' = [t \in Tokens |-> IF session[t] = K(r) THEN None ELSE session[t]]
      /\ erased' = erased \cup {t \in Tokens : session[t] = K(r)}
  BY DEF SignOutAll, Serving, senderVars, researchVars
<1>2. RequestOK(r)' /\ OthersKeep(r) /\ wants[r] = K(r) /\ \A q \in Requests \ {r} : req'[q] = req[q]
  BY <1>1, StepKeepsRequest
<1>3. \A q \in Requests \ {r} : req[q] # None /\ req[q].step # "enter" => req[q].key # K(r)
  BY <1>1, <1>2, Alone, AccountsAssumption DEF FoldersOK
<1>4. K(r) # None
  BY <1>1, RequestIsTyped, DayAssumption DEF FoldersOK
<1>5. ASSUME NEW q \in Requests
      PROVE  SessionOK(q)'
  <2>1. CASE q = r
    <3>1. req'[r] # None /\ req'[r].step = "leave" /\ req'[r].op = req[r].op /\ req'[r].key = req[r].key
          /\ req'[r].token = req[r].token
      BY <1>1, StepIsTyped DEF FoldersOK
    <3> QED
      BY <1>1, <2>1, <3>1 DEF SessionOK, FoldersOK, SessionsOK
  <2>2. CASE q # r
    <3>1. req'[q] = req[q] /\ SessionOK(q)
      BY <1>2, <2>2 DEF FoldersOK, SessionsOK
    <3>2. SUFFICES ASSUME req[q] # None, req[q].op # "oneclick"
                   PROVE  /\ req[q].token \in Tokens
                          /\ session'[req[q].token] \in {None, req[q].key}
                          /\ req[q].step \notin {"enter", "leave"} => req[q].token \notin erased'
      BY <3>1 DEF SessionOK
    <3> QED
      BY <1>1, <1>3, <1>4, <2>2, <3>1, <3>2 DEF SessionOK
  <2> QED
    BY <2>1, <2>2
<1>6. \A t \in erased' : session'[t] = None
  BY <1>1 DEF FoldersOK, SessionsOK, TypeOK
<1>7. SessionsOK'
  BY <1>5, <1>6 DEF SessionsOK
<1> QED
  BY <1>1, <1>2, <1>7, ReadingKeeps

(* What a request that works under the lock may do to its account. *)
LEMMA WorkingKeeps ==
  ASSUME FoldersOK, NEW r \in Requests, req[r] # None, phase[r] = "inside",
         req[r].step \notin {"enter", "leave"},
         UNCHANGED <<lockVars, sender, session, erased>>,
         NEW step \in {"signout", "quota", "usage", "mark", "leave"}, Step(r, step),
         req[r].op = "oneclick" => step = "leave",
         \A w \in Threads : SameWork(w),
         \A k \in Keys : k # K(r) => SameAccount(k),
         AccountOK(K(r)), \A k \in Keys : k = K(r) => AccountOK(k)'
  PROVE  Kept
<1>1. RequestOK(r)' /\ OthersKeep(r) /\ GoesOn(r) /\ wants[r] = K(r) /\ \A q \in Requests \ {r} : req'[q] = req[q]
  BY StepKeepsRequest
<1>2. StepOf(r)
  BY <1>1, AccountsAssumption, DayAssumption DEF StepOf, SameWork
<1>3. SessionsOK'
  BY <1>1, SessionsStay DEF FoldersOK, GoesOn
<1> QED
  BY <1>1, <1>2, <1>3, RequestKeeps

LEMMA RequestsAccount ==
  ASSUME FoldersOK, NEW r \in Requests, req[r] # None, req[r].step # "enter"
  PROVE  /\ K(r) \in Keys /\ AccountOK(K(r)) /\ F(r) = Folder(K(r)) /\ F(r) \in FolderType
         /\ F(r).sub = Sub(K(r)) /\ (F(r).sub # None => acct[K(r)] # None)
         /\ \A s \in Senders : ~Recording(s, K(r))
<1>1. K(r) \in Keys /\ F(r) = Folder(K(r)) /\ F(r) \in FolderType
  BY RequestIsTyped DEF FoldersOK
<1>2. wants[r] = K(r) /\ phase[r] = "inside"
  BY DEF FoldersOK, RequestsOK, RequestOK, K
<1>3. \A s \in Senders : ~Recording(s, K(r))
  BY <1>2, Alone, AccountsAssumption, DayAssumption DEF FoldersOK, Recording
<1> QED
  BY <1>1, <1>3, FolderIsTyped DEF FoldersOK, AccountsOK, Sub

LEMMA WritingKeeps ==
  ASSUME FoldersOK, NEW r \in Requests, NEW new \in FolderType, Written(r, new)
  PROVE  Kept
<1>1. /\ req[r] # None /\ phase[r] = "inside" /\ req[r].step = "work" /\ Step(r, "leave")
      /\ UNCHANGED <<lockVars, sender, session, erased, thread, kept>>
  BY DEF Written, webVars, researchVars
<1>2. /\ K(r) \in Keys /\ AccountOK(K(r)) /\ F(r) = Folder(K(r)) /\ F(r) \in FolderType
      /\ F(r).sub = Sub(K(r)) /\ \A s \in Senders : ~Recording(s, K(r))
  BY <1>1, RequestsAccount
<1>3. acct'[K(r)] = new /\ new # None /\ \A k \in Keys : k # K(r) => acct'[k] = acct[k]
  BY <1>2, DayAssumption DEF Written, FoldersOK, TypeOK
<1>4. \A k \in Keys : k # K(r) => SameAccount(k)
  BY <1>1, <1>2, <1>3 DEF Written, SameAccount, SubKept, SubChanged, SubGone, FoldersOK, TypeOK
<1>5. ASSUME NEW k \in Keys, k = K(r)
      PROVE  AccountOK(k)'
  <2>1. Folder(k)' = new /\ Sub(k)' = new.sub
    BY <1>3, <1>5 DEF Folder, Sub
  <2>2. \A s \in Senders : ~Recording(s, k) /\ ~Recording(s, k)'
    BY <1>1, <1>2, <1>5 DEF Recording
  <2>3. Owed(k) = (IF Sub(k) # None /\ Sub(k).last = "today" THEN 1 ELSE 0)
        /\ Owed(k)' = (IF new.sub # None /\ new.sub.last = "today" THEN 1 ELSE 0)
    BY <2>1, <2>2 DEF Owed
  <2>4. new.assets = kept'[k]
    BY <1>1, <1>2, <1>5 DEF Written, AccountOK
  <2>5. CASE SubKept(F(r), new)
    BY <1>2, <1>5, <2>1, <2>3, <2>4, <2>5 DEF SubKept, AccountOK
  <2>6. CASE SubChanged(K(r), F(r), new)
    <3>1. /\ letters'[k] = letters[k] /\ lapses'[k] = lapses[k]
          /\ new.sub.alerts = {} \/ (F(r).sub # None /\ new.sub.alerts = F(r).sub.alerts /\ told'[k] = told[k])
      BY <2>6 DEF SubChanged
    <3>2. new.sub # None /\ new.sub.last = IF F(r).sub = None THEN "before" ELSE F(r).sub.last
      BY <2>6 DEF SubChanged
    <3>3. ~(new.sub.status = "active" /\ new.sub.code = "live")
      BY <1>2, <2>6 DEF SubChanged, AccountOK
    <3>4. letters'[k] <= lapses'[k] + Owed(k)'
      BY <1>2, <1>5, <2>3, <3>1, <3>2 DEF AccountOK
    <3> QED
      BY <1>2, <1>5, <2>1, <2>4, <3>1, <3>2, <3>3, <3>4 DEF AccountOK
  <2>7. CASE SubGone(K(r), new)
    <3>1. new.sub = None /\ letters'[k] = 0 /\ lapses'[k] = 0
      BY <1>2, <1>5, <2>7 DEF SubGone, FoldersOK, TypeOK
    <3> QED
      BY <2>1, <2>3, <2>4, <3>1 DEF AccountOK
  <2> QED
    BY <2>5, <2>6, <2>7 DEF Written
<1>6. \A w \in Threads : SameWork(w)
  BY <1>1, DayAssumption DEF SameWork
<1> QED
  BY <1>1, <1>2, <1>4, <1>5, <1>6, WorkingKeeps

LEMMA AssetKeeps ==
  ASSUME FoldersOK, NEW r \in Requests, AddAsset(r) \/ DropAsset(r)
  PROVE  Kept
<1>1. PICK assets \in SUBSET Assets, a \in Assets :
        /\ req[r] # None /\ phase[r] = "inside" /\ req[r].step = "write" /\ req[r].op \in {"add", "drop"}
        /\ WriteAssets(r, assets)
        /\ \/ assets = req[r].copy \cup {a} /\ kept' = [kept EXCEPT ![K(r)] = @ \cup {a}]
           \/ assets = req[r].copy \ {a} /\ kept' = [kept EXCEPT ![K(r)] = @ \ {a}]
  BY AssetEffect DEF FoldersOK
<1>2. /\ K(r) \in Keys /\ AccountOK(K(r)) /\ F(r) = Folder(K(r)) /\ F(r) \in FolderType
      /\ F(r).sub = Sub(K(r))
  BY <1>1, RequestsAccount
<1> DEFINE new == [F(r) EXCEPT !.assets = assets]
<1>3. new \in FolderType /\ new.sub = F(r).sub /\ new.assets = assets /\ new # None
  BY <1>1, <1>2, DayAssumption DEF FolderType
<1>4. acct' = [acct EXCEPT ![K(r)] = new] /\ Step(r, "leave")
      /\ UNCHANGED <<lockVars, sender, session, erased, thread, letters, lapses, told>>
  BY <1>1 DEF WriteAssets, Write, webVars, researchVars, senderVars
<1> HIDE DEF new
<1>5. acct'[K(r)] = new /\ \A k \in Keys : k # K(r) => acct'[k] = acct[k] /\ kept'[k] = kept[k]
  BY <1>1, <1>2, <1>4 DEF FoldersOK, TypeOK
<1>6. kept'[K(r)] = assets
  <2>1. req[r].copy = kept[K(r)]
    BY <1>1, <1>2 DEF FoldersOK, RequestsOK, RequestOK, AccountOK
  <2> QED
    BY <1>1, <1>2, <2>1 DEF FoldersOK, TypeOK
<1>7. ASSUME NEW k \in Keys, k = K(r)
      PROVE  AccountOK(k)'
  <2>1. Folder(k)' = new /\ Sub(k)' = Sub(k)
    BY <1>2, <1>3, <1>5, <1>7 DEF Folder, Sub
  <2> QED
    BY <1>2, <1>3, <1>4, <1>6, <1>7, <2>1, AccountStays DEF Recording
<1>8. (\A w \in Threads : SameWork(w)) /\ \A k \in Keys : k # K(r) => SameAccount(k)
  BY <1>4, <1>5, DayAssumption DEF SameWork, SameAccount
<1> QED
  BY <1>1, <1>2, <1>4, <1>7, <1>8, WorkingKeeps

LEMMA RemovingKeeps ==
  ASSUME FoldersOK, NEW r \in Requests, RemoveFolder(r)
  PROVE  Kept
<1>1. /\ req[r] # None /\ phase[r] = "inside" /\ req[r].step = "work" /\ req[r].op = "delete" /\ Step(r, "signout")
      /\ UNCHANGED <<lockVars, sender, session, erased, thread>>
  BY DEF RemoveFolder, Does, Serving, webVars, researchVars
<1>2. K(r) \in Keys /\ AccountOK(K(r))
  BY <1>1, RequestsAccount
<1>3. /\ acct'[K(r)] = None /\ letters'[K(r)] = 0 /\ lapses'[K(r)] = 0 /\ kept'[K(r)] = {}
      /\ \A k \in Keys : k # K(r) => SameAccount(k)
  BY <1>2 DEF RemoveFolder, SameAccount, FoldersOK, TypeOK
<1>4. ASSUME NEW k \in Keys, k = K(r)
      PROVE  AccountOK(k)'
  <2>1. Folder(k)' = Blank /\ Sub(k)' = None /\ Folder(k).assets' = {}
    BY <1>3, <1>4 DEF Folder, Sub, Blank
  <2>2. Owed(k)' \in {0, 1}
    BY DEF Owed
  <2> QED
    BY <1>3, <1>4, <2>1, <2>2 DEF AccountOK
<1>5. \A w \in Threads : SameWork(w)
  BY <1>1, DayAssumption DEF SameWork
<1> QED
  BY <1>1, <1>2, <1>3, <1>4, <1>5, WorkingKeeps

LEMMA RunKeeps ==
  ASSUME FoldersOK, NEW r \in Requests, CountUse(r) \/ StartThread(r)
  PROVE  Kept
<1>1. /\ req[r] # None /\ phase[r] = "inside" /\ req[r].step \in {"usage", "mark"}
      /\ UNCHANGED <<lockVars, sender, session, erased, letters, lapses, told, kept>>
  BY DEF CountUse, StartThread, Serving, webVars, senderVars
<1>2. /\ K(r) \in Keys /\ AccountOK(K(r)) /\ F(r) = Folder(K(r)) /\ F(r) \in FolderType
      /\ F(r).sub = Sub(K(r)) /\ req[r].op # "oneclick"
  BY <1>1, RequestsAccount DEF FoldersOK, RequestsOK, RequestOK
<1>3. \E new \in FolderType, step \in {"mark", "leave"} :
        /\ new.sub = F(r).sub /\ new.assets = F(r).assets
        /\ acct' = [acct EXCEPT ![K(r)] = new] /\ Step(r, step)
        /\ \A w \in Threads : SameWork(w)
  <2>1. CASE CountUse(r)
    <3> DEFINE new == [F(r) EXCEPT !.used = @ + 1]
    <3>1. new \in FolderType /\ new.sub = F(r).sub /\ new.assets = F(r).assets
      BY <1>2 DEF FolderType
    <3>2. acct' = [acct EXCEPT ![K(r)] = new] /\ Step(r, "mark") /\ thread' = thread
      BY <2>1 DEF CountUse, Write, researchVars
    <3>3. \A w \in Threads : SameWork(w)
      BY <3>2, DayAssumption DEF SameWork
    <3> HIDE DEF new
    <3> QED
      BY <3>1, <3>2, <3>3
  <2>2. CASE StartThread(r)
    <3>1. PICK w \in Threads :
            /\ thread[w] = None
            /\ acct' = [acct EXCEPT ![K(r)] = [F(r) EXCEPT !.run = [id |-> w, status |-> "running", stale |-> FALSE]]]
            /\ thread' = [thread EXCEPT ![w] = [key |-> K(r), topic |-> req[r].topic, result |-> "none", saved |-> FALSE]]
      BY <2>2 DEF StartThread, Write
    <3> DEFINE new == [F(r) EXCEPT !.run = [id |-> w, status |-> "running", stale |-> FALSE]]
               work == [key |-> K(r), topic |-> req[r].topic, result |-> "none", saved |-> FALSE]
    <3>2. [id |-> w, status |-> "running", stale |-> FALSE] \in RunType
      BY DEF RunType
    <3>3. new \in FolderType /\ new.sub = F(r).sub /\ new.assets = F(r).assets
      BY <1>2, <3>2 DEF FolderType
    <3>0. req[r].topic \in Topics \cup {None}
      BY <1>1, RequestIsTyped DEF RequestType, FoldersOK
    <3>7. work \in ThreadType /\ work.result = "none" /\ ~work.saved
      BY <1>2, <3>0 DEF ThreadType
    <3>4. work \in ThreadType /\ work # None /\ work.result = "none" /\ ~work.saved
      BY <3>7, DayAssumption
    <3>5. phase[w] = "out" /\ thread' = [thread EXCEPT ![w] = work]
      BY <3>1 DEF FoldersOK, ThreadsOK, ThreadOK
    <3> HIDE DEF work
    <3>6. \A v \in Threads : SameWork(v)
      BY <3>4, <3>5, DayAssumption DEF SameWork, FoldersOK, TypeOK
    <3> QED
      BY <2>2, <3>1, <3>3, <3>6 DEF StartThread
  <2> QED
    BY <2>1, <2>2
<1>4. PICK new \in FolderType, step \in {"mark", "leave"} :
        /\ new.sub = F(r).sub /\ new.assets = F(r).assets
        /\ acct' = [acct EXCEPT ![K(r)] = new] /\ Step(r, step)
        /\ \A w \in Threads : SameWork(w)
  BY <1>3
<1>5. acct'[K(r)] = new /\ new # None /\ \A k \in Keys : k # K(r) => SameAccount(k)
  BY <1>1, <1>2, <1>4, DayAssumption DEF SameAccount, FoldersOK, TypeOK
<1>6. ASSUME NEW k \in Keys, k = K(r)
      PROVE  AccountOK(k)'
  <2>1. Folder(k)' = new /\ Sub(k)' = Sub(k)
    BY <1>2, <1>4, <1>5, <1>6 DEF Folder, Sub
  <2> QED
    BY <1>1, <1>2, <1>4, <1>6, <2>1, AccountStays DEF AccountOK, Recording
<1> QED
  BY <1>1, <1>2, <1>4, <1>5, <1>6, WorkingKeeps

-----------------------------------------------------------------------------
(* Research threads                                                        *)

LEMMA ThreadKeeps ==
  ASSUME FoldersOK, NEW w \in Threads, StepOf(w), ThreadOK(w)', UNCHANGED <<session, erased>>,
         phase[w] = "inside" => \A k \in Keys : k = wants[w] => AccountOK(k)'
  PROVE  Kept
<1>1. w \in Procs /\ w \notin Senders /\ w \notin Requests
  BY AccountsAssumption, DayAssumption
<1>2. SendersOK' /\ RequestsOK' /\ ThreadsOK'
  BY <1>1, OthersStay DEF FoldersOK, SendersOK, RequestsOK, ThreadsOK
<1>3. ASSUME NEW k \in Keys
      PROVE  AccountOK(k)'
  <2>1. CASE k = wants[w] /\ phase[w] = "inside"
    BY <2>1
  <2>2. CASE k # wants[w] \/ phase[w] # "inside"
    BY <1>1, <2>2, OtherAccountsStay DEF FoldersOK
  <2> QED
    BY <2>1, <2>2
<1>4. SessionsOK'
  BY <1>1, AccountsAssumption, SessionsStay DEF FoldersOK, GoesOn, StepOf, SameWork
<1> QED
  BY <1>2, <1>3, <1>4 DEF Kept, AccountsOK

LEMMA ResearchKeeps ==
  ASSUME FoldersOK, NEW w \in Threads,
         Analysed(w) \/ ThreadBusy(w) \/ NotMine(w) \/ SaveResult(w) \/ SaveRun(w)
  PROVE  Kept
<1>0. w \in Procs /\ w \notin Requests /\ w \notin Senders /\ ThreadOK(w)
  BY AccountsAssumption, DayAssumption DEF FoldersOK, ThreadsOK
<1>1. /\ UNCHANGED <<session, erased, req, sender, letters, lapses, told, kept>>
      /\ \A v \in Threads : v # w => thread'[v] = thread[v]
  BY DEF Analysed, ThreadBusy, NotMine, SaveResult, SaveRun, EndThread, threadOnly, webVars, senderVars,
         FoldersOK, TypeOK
<1>2. OthersKeep(w)
  <2>1. CASE \E k \in Keys : Try(w, k)
    BY <1>0, <2>1, LockMoves, AccountsAssumption DEF FoldersOK
  <2>2. CASE GiveUp(w) \/ Leave(w)
    BY <1>0, <2>2, LockMoves DEF FoldersOK
  <2>3. CASE UNCHANGED lockVars
    BY <2>3 DEF OthersKeep, lockVars
  <2> QED
    BY <2>1, <2>2, <2>3 DEF Analysed, ThreadBusy, NotMine, SaveResult, SaveRun, EndThread
<1>3. \A q \in Procs : q # w => SameWork(q)
  BY <1>1 DEF SameWork
<1>4. thread[w] # None /\ thread[w] \in ThreadType /\ thread[w].key \in Keys
  BY DEF Analysed, ThreadBusy, NotMine, SaveResult, SaveRun, Mine, FoldersOK, TypeOK, ThreadType
<1>5. CASE Analysed(w) \/ ThreadBusy(w) \/ NotMine(w)
  <2>1. acct' = acct
    BY <1>5 DEF Analysed, ThreadBusy, NotMine
  <2>2. StepOf(w)
    BY <1>1, <1>2, <1>3, <2>1 DEF StepOf, SameAccount
  <2>3. ThreadOK(w)'
    <3>1. CASE ThreadBusy(w) \/ NotMine(w)
      <4>1. thread'[w] = None /\ phase'[w] = "out"
        BY <1>0, <3>1, LockMoves DEF ThreadBusy, NotMine, EndThread, FoldersOK, TypeOK
      <4> QED
        BY <4>1 DEF ThreadOK
    <3>2. CASE Analysed(w)
      <4>1. PICK result \in {"ok", "failed"} :
              /\ thread[w].result = "none" /\ thread' = [thread EXCEPT ![w].result = result]
              /\ Try(w, thread[w].key)
        BY <3>2 DEF Analysed
      <4>2. thread'[w] = [thread[w] EXCEPT !.result = result]
        BY <4>1 DEF FoldersOK, TypeOK
      <4>3. /\ thread'[w].result = result /\ thread'[w].key = thread[w].key /\ thread'[w].saved = thread[w].saved
            /\ ~thread[w].saved
        BY <1>0, <1>4, <4>1, <4>2 DEF ThreadType, ThreadOK
      <4>4. thread'[w] # None
        BY <1>4, <4>1, <4>2, ThreadTypes, DayAssumption DEF ThreadType
      <4>5. wants'[w] = thread[w].key
        BY <1>0, <4>1, AccountsAssumption, <1>4, LockMoves DEF FoldersOK
      <4> QED
        BY <4>1, <4>3, <4>4, <4>5 DEF ThreadOK
    <3> QED
      BY <1>5, <3>1, <3>2
  <2>4. \A k \in Keys : AccountOK(k)'
    BY <1>1, <2>1, AccountStays, SameFiles DEF FoldersOK, AccountsOK, AccountOK, Recording
  <2> QED
    BY <1>1, <2>2, <2>3, <2>4, ThreadKeeps
<1>6. CASE SaveResult(w) \/ SaveRun(w)
  <2> DEFINE k == thread[w].key
  <2>1. phase[w] = "inside" /\ wants[w] = k /\ Current(w) /\ thread[w].result \in {"ok", "failed"}
    BY <1>0, <1>4, <1>6 DEF SaveResult, SaveRun, Mine, ThreadOK
  <2>2. acct[k] \in FolderType /\ Folder(k) = acct[k]
    BY <1>4, <2>1, FolderIsTyped DEF Current, FoldersOK
  <2>3. \E new \in FolderType :
          /\ new.sub = acct[k].sub /\ new.assets = acct[k].assets
          /\ acct' = [acct EXCEPT ![k] = new]
          /\ SaveResult(w) => new.run = acct[k].run
    <3>1. CASE SaveResult(w)
      <4>1. [id |-> w, applied |-> FALSE] \in LatestType
        BY DEF LatestType
      <4> DEFINE new == [acct[k] EXCEPT !.latest = [id |-> w, applied |-> FALSE], !.past = @ \cup {thread[w].topic}]
      <4>2. new \in FolderType /\ new.sub = acct[k].sub /\ new.assets = acct[k].assets /\ new.run = acct[k].run
        BY <1>4, <2>2, <4>1 DEF FolderType, ThreadType
      <4> QED
        BY <2>2, <3>1, <4>2 DEF SaveResult, Write
    <3>2. CASE SaveRun(w)
      <4> DEFINE run == [id |-> w, status |-> thread[w].result, stale |-> FALSE]
                 new == [acct[k] EXCEPT !.run = run]
      <4>1. run \in RunType
        BY <2>1 DEF RunType
      <4>2. acct' = [acct EXCEPT ![k] = new] /\ ~SaveResult(w)
        BY <1>4, <2>2, <3>2, <1>0, LockMoves DEF SaveRun, Write, SaveResult, EndThread, FoldersOK, lockVars, TypeOK
      <4> HIDE DEF run
      <4>3. new \in FolderType /\ new.sub = acct[k].sub /\ new.assets = acct[k].assets
        BY <2>2, <4>1 DEF FolderType
      <4> QED
        BY <4>2, <4>3
    <3> QED
      BY <1>6, <3>1, <3>2
  <2>4. PICK new \in FolderType :
          /\ new.sub = acct[k].sub /\ new.assets = acct[k].assets
          /\ acct' = [acct EXCEPT ![k] = new]
          /\ SaveResult(w) => new.run = acct[k].run
    BY <2>3
  <2>5. acct'[k] = new /\ new # None /\ \A m \in Keys : m # k => acct'[m] = acct[m]
    BY <1>4, <2>4, DayAssumption DEF FoldersOK, TypeOK
  <2>6. StepOf(w)
    BY <1>1, <1>2, <1>3, <2>1, <2>5 DEF StepOf, SameAccount
  <2>7. ASSUME NEW m \in Keys, m = k
        PROVE  AccountOK(m)'
    <3>1. Folder(m)' = new /\ Sub(m)' = Sub(m) /\ AccountOK(m)
      BY <2>2, <2>4, <2>5, <2>7 DEF Folder, Sub, FoldersOK, AccountsOK
    <3> QED
      BY <1>1, <2>2, <2>4, <2>7, <3>1, AccountStays DEF AccountOK, Recording
  <2>8. ThreadOK(w)'
    <3>1. CASE SaveResult(w)
      <4>1. thread'[w] = [thread[w] EXCEPT !.saved = TRUE] /\ UNCHANGED lockVars /\ thread[w].result = "ok"
        BY <3>1 DEF SaveResult, FoldersOK, TypeOK
      <4>2. thread'[w].result = "ok" /\ thread'[w].key = k /\ thread'[w] \in ThreadType
        BY <1>4, <4>1 DEF ThreadType
      <4>3. Current(w)'
        BY <2>1, <2>4, <2>5, <3>1, <4>2 DEF Current
      <4> QED
        BY <2>1, <4>1, <4>2, <4>3, DayAssumption DEF ThreadOK, lockVars
    <3>2. CASE SaveRun(w)
      <4>1. thread'[w] = None /\ phase'[w] = "out"
        BY <1>0, <3>2, LockMoves DEF SaveRun, EndThread, FoldersOK, TypeOK
      <4> QED
        BY <4>1 DEF ThreadOK
    <3> QED
      BY <1>6, <3>1, <3>2
  <2> QED
    BY <1>1, <2>1, <2>6, <2>7, <2>8, ThreadKeeps
<1> QED
  BY <1>5, <1>6

-----------------------------------------------------------------------------
(* Senders                                                                 *)

LEMMA SenderKeeps ==
  ASSUME FoldersOK, NEW s \in Senders, StepOf(s), SenderOK(s)', UNCHANGED <<session, erased>>,
         sender'[s].at = "record" => phase[s] = "inside" /\ sender'[s].key = wants[s],
         phase[s] = "inside" => \A k \in Keys : k = wants[s] => AccountOK(k)'
  PROVE  Kept
<1>1. s \in Procs /\ s \notin Threads /\ s \notin Requests
  BY AccountsAssumption, DayAssumption
<1>2. SendersOK' /\ RequestsOK' /\ ThreadsOK'
  BY <1>1, OthersStay DEF FoldersOK, SendersOK, RequestsOK, ThreadsOK
<1>3. ASSUME NEW k \in Keys
      PROVE  AccountOK(k)'
  <2>1. CASE k = wants[s] /\ phase[s] = "inside"
    BY <2>1
  <2>2. CASE k # wants[s] \/ phase[s] # "inside"
    <3>1. ~Recording(s, k) /\ ~Recording(s, k)'
      BY <2>2 DEF Recording, FoldersOK, SendersOK, SenderOK
    <3>2. Recording(s, k)' = Recording(s, k)
      BY <3>1 DEF Recording
    <3> QED
      BY <1>1, <2>2, <3>2, OtherAccountsStay DEF FoldersOK
  <2> QED
    BY <2>1, <2>2
<1>4. SessionsOK'
  BY <1>1, AccountsAssumption, SessionsStay DEF FoldersOK, GoesOn, StepOf, SameWork
<1> QED
  BY <1>2, <1>3, <1>4 DEF Kept, AccountsOK

(* The steps of a sender that write nothing and are not about a letter that left. *)
LEMMA SenderReads ==
  ASSUME FoldersOK, NEW s \in Senders, OthersKeep(s), SenderOK(s)',
         \A q \in Senders \ {s} : sender'[q] = sender[q],
         UNCHANGED <<session, erased, acct, letters, lapses, told, kept, req, thread>>,
         sender[s].at # "record", sender'[s].at # "record"
  PROVE  Kept
<1>1. StepOf(s)
  BY AccountsAssumption, DayAssumption DEF StepOf, SameWork, SameAccount
<1>2. \A q \in Senders, k \in Keys : Recording(q, k)' = Recording(q, k)
  BY DEF Recording
<1>3. \A k \in Keys : AccountOK(k)'
  BY <1>2, AccountStays, SameFiles DEF FoldersOK, AccountsOK, AccountOK
<1> QED
  BY <1>1, <1>3, SenderKeeps

LEMMA DoneSets ==
  ASSUME TypeOK, NEW s \in Senders, Done(s)
  PROVE  sender'[s].at = "leave" /\ \A q \in Senders \ {s} : sender'[q] = sender[q]
<1>1. sender'[s] = [sender[s] EXCEPT !.at = "leave", !.copy = None, !.alerts = {}] /\ sender[s] \in SenderType
  BY DEF Done, TypeOK
<1> QED
  BY <1>1 DEF SenderType, Done, TypeOK

LEMMA FilteringKeeps ==
  ASSUME FoldersOK, NEW s \in Senders,
         \/ StartSending(s) \/ AllSent(s) \/ AccountBusy(s) \/ MailRefused(s)
         \/ SessionBreaks(s) \/ LeaveAccount(s) \/ (SenderDies(s) /\ sender[s].at # "record")
  PROVE  Kept
<1>0. s \in Procs /\ sender[s] \in SenderType
  BY AccountsAssumption DEF FoldersOK, TypeOK
<1>1. UNCHANGED <<session, erased, acct, letters, lapses, told, kept, req, thread>> /\ sender[s].at # "record"
  BY DEF StartSending, AllSent, AccountBusy, MailRefused, SessionBreaks, LeaveAccount, SenderDies, Sending,
         others, webVars, researchVars
<1>2. OthersKeep(s)
  <2>1. CASE GiveUp(s) \/ Leave(s)
    BY <1>0, <2>1, LockMoves DEF FoldersOK
  <2>2. CASE UNCHANGED lockVars
    BY <2>2 DEF OthersKeep, lockVars
  <2>3. CASE Die({s})
    BY <2>3 DEF OthersKeep, Die
  <2> QED
    BY <2>1, <2>2, <2>3 DEF StartSending, AllSent, AccountBusy, MailRefused, SessionBreaks, LeaveAccount, SenderDies
<1>3. sender'[s].at \in {"off", "next", "leave"} /\ \A q \in Senders \ {s} : sender'[q] = sender[q]
  <2>1. CASE StartSending(s) \/ AllSent(s) \/ SessionBreaks(s) \/ SenderDies(s)
    <3>1. ASSUME NEW idle, sender' = [sender EXCEPT ![s] = idle], idle.at \in {"off", "next", "leave"}
          PROVE  sender'[s].at \in {"off", "next", "leave"} /\ \A q \in Senders \ {s} : sender'[q] = sender[q]
      BY <3>1 DEF FoldersOK, TypeOK
    <3>2. CASE AllSent(s) \/ SenderDies(s)
      BY <3>1, <3>2 DEF AllSent, SenderDies, IdleSender
    <3>3. CASE SessionBreaks(s)
      BY <3>1, <3>3 DEF SessionBreaks, IdleSender
    <3>4. CASE StartSending(s)
      <4> DEFINE todo == {k \in Keys : Due(k)}
                 idle == [IdleSender EXCEPT !.at = "next", !.todo = todo]
      <4>1. sender' = [sender EXCEPT ![s] = idle]
        BY <3>4 DEF StartSending
      <4> HIDE DEF todo
      <4>2. idle.at = "next"
        BY DEF IdleSender
      <4> HIDE DEF idle
      <4> QED
        BY <3>1, <4>1, <4>2
    <3> QED
      BY <2>1, <3>2, <3>3, <3>4
  <2>2. CASE AccountBusy(s) \/ LeaveAccount(s)
    <3>1. sender'[s] = [sender[s] EXCEPT !.at = "next"] /\ \A q \in Senders \ {s} : sender'[q] = sender[q]
      BY <2>2 DEF AccountBusy, LeaveAccount, FoldersOK, TypeOK
    <3> QED
      BY <1>0, <3>1 DEF SenderType
  <2>3. CASE MailRefused(s)
    BY <2>3, DoneSets DEF MailRefused, FoldersOK
  <2> QED
    BY <2>1, <2>2, <2>3
<1>4. SenderOK(s)'
  BY <1>3 DEF SenderOK
<1> QED
  BY <1>1, <1>2, <1>3, <1>4, SenderReads

LEMMA NextAccountKeeps ==
  ASSUME FoldersOK, NEW s \in Senders, NEW k \in Keys, NextAccount(s, k)
  PROVE  Kept
<1> DEFINE new == [sender[s] EXCEPT !.at = "look", !.key = k, !.todo = @ \ {k}]
<1>0. s \in Procs /\ sender[s] \in SenderType
  BY AccountsAssumption DEF FoldersOK, TypeOK
<1>1. sender' = [sender EXCEPT ![s] = new] /\ new.at = "look" /\ new.key = k
  BY <1>0 DEF NextAccount, SenderType
<1> HIDE DEF new
<1>2. sender'[s].at = "look" /\ sender'[s].key = k /\ \A q \in Senders \ {s} : sender'[q] = sender[q]
  BY <1>1 DEF FoldersOK, TypeOK
<1>3. /\ UNCHANGED <<session, erased, acct, letters, lapses, told, kept, req, thread>>
      /\ sender[s].at # "record"
  BY DEF NextAccount, others, webVars, researchVars
<1>4. OthersKeep(s) /\ wants'[s] = k
  BY <1>0, LockMoves, AccountsAssumption DEF NextAccount, FoldersOK
<1>5. SenderOK(s)'
  BY <1>2, <1>4 DEF SenderOK
<1> QED
  BY <1>2, <1>3, <1>4, <1>5, SenderReads

LEMMA LookKeeps ==
  ASSUME FoldersOK, NEW s \in Senders, Look(s)
  PROVE  Kept
<1> DEFINE k == sender[s].key
<1>0. sender[s] \in SenderType /\ SenderOK(s) /\ sender[s].at = "look" /\ phase[s] = "inside" /\ UNCHANGED lockVars
  BY DEF FoldersOK, TypeOK, SendersOK, Look, Sending
<1>1. UNCHANGED <<session, erased, acct, letters, lapses, told, kept, req, thread>> /\ OthersKeep(s)
  BY <1>0 DEF Look, others, webVars, researchVars, OthersKeep, lockVars
<1>2. CASE Due(k)
  <2> DEFINE new == [sender[s] EXCEPT !.at = "mail", !.copy = Sub(k), !.alerts = Alerts(k)]
  <2>1. sender' = [sender EXCEPT ![s] = new] /\ new.at = "mail" /\ new.key = k /\ new.copy = Sub(k)
    BY <1>0, <1>2 DEF Look, SenderType
  <2> HIDE DEF new
  <2>2. sender'[s] = new /\ \A q \in Senders \ {s} : sender'[q] = sender[q]
    BY <2>1 DEF FoldersOK, TypeOK
  <2>3. k \in Keys /\ wants[s] = k
    BY <1>0 DEF SenderOK
  <2>4. Due(k)' /\ Sub(k)' = Sub(k)
    BY <1>1, <1>2, <2>1, <2>2 DEF Due, Sub, Folder, Blank
  <2>5. /\ sender'[s].key \in Keys /\ wants'[s] = sender'[s].key /\ phase'[s] = "inside"
        /\ Due(sender[s].key)' /\ sender'[s].copy = Sub(sender[s].key)'
        /\ sender'[s].at = "mail"
    BY <1>0, <1>1, <1>2, <2>1, <2>2, <2>3, <2>4 DEF lockVars
  <2>6. SenderOK(s)'
    BY <2>5 DEF SenderOK
  <2> QED
    BY <1>0, <1>1, <2>1, <2>2, <2>6, SenderReads
<1>3. CASE ~Due(k)
  <2>1. sender'[s].at = "leave" /\ \A q \in Senders \ {s} : sender'[q] = sender[q]
    BY <1>3, DoneSets DEF Look, FoldersOK
  <2>2. SenderOK(s)'
    BY <2>1 DEF SenderOK
  <2> QED
    BY <1>0, <1>1, <2>1, <2>2, SenderReads
<1> QED
  BY <1>2, <1>3

(* What is true when a letter is about to leave, or left. *)
LEMMA AtTheLetter ==
  ASSUME FoldersOK, NEW s \in Senders, sender[s].at \in {"mail", "record"}
  PROVE  /\ sender[s] \in SenderType /\ SenderOK(s) /\ s \in Procs
         /\ sender[s].key \in Keys /\ wants[s] = sender[s].key /\ phase[s] = "inside"
         /\ acct[sender[s].key] \in FolderType /\ Folder(sender[s].key) = acct[sender[s].key]
         /\ Due(sender[s].key) /\ sender[s].copy = Sub(sender[s].key)
         /\ AccountOK(sender[s].key)
         /\ \A q \in Senders \ {s} : ~Recording(q, sender[s].key)
<1>1. /\ sender[s] \in SenderType /\ SenderOK(s) /\ s \in Procs
      /\ sender[s].key \in Keys /\ wants[s] = sender[s].key /\ phase[s] = "inside"
      /\ Due(sender[s].key) /\ sender[s].copy = Sub(sender[s].key)
  BY AccountsAssumption DEF FoldersOK, TypeOK, SendersOK, SenderOK
<1>2. acct[sender[s].key] \in FolderType /\ Folder(sender[s].key) = acct[sender[s].key]
  BY <1>1, FolderIsTyped DEF Due, FoldersOK
<1>3. \A q \in Senders \ {s} : ~Recording(q, sender[s].key)
  BY <1>1, Alone DEF FoldersOK, Recording
<1> QED
  BY <1>1, <1>2, <1>3 DEF FoldersOK, AccountsOK

LEMMA MailKeeps ==
  ASSUME FoldersOK, NEW s \in Senders, Mail(s)
  PROVE  Kept
<1> DEFINE k == sender[s].key
<1>0. sender[s].at = "mail" /\ UNCHANGED lockVars
  BY DEF Mail, Sending
<1>1. /\ sender[s] \in SenderType /\ SenderOK(s) /\ s \in Procs
      /\ k \in Keys /\ wants[s] = k /\ phase[s] = "inside"
      /\ Due(k) /\ sender[s].copy = Sub(k) /\ AccountOK(k)
      /\ \A q \in Senders \ {s} : ~Recording(q, k)
  BY <1>0, AtTheLetter
<1>2. /\ UNCHANGED <<session, erased, acct, lapses, kept, req, thread>>
      /\ sender' = [sender EXCEPT ![s].at = "record"]
      /\ letters' = [letters EXCEPT ![k] = @ + 1]
      /\ told' = [told EXCEPT ![k] = @ \cup sender[s].alerts]
  BY DEF Mail, others, webVars, researchVars
<1>3. sender'[s] = [sender[s] EXCEPT !.at = "record"] /\ \A q \in Senders \ {s} : sender'[q] = sender[q]
  BY <1>2 DEF FoldersOK, TypeOK
<1>4. /\ sender'[s].at = "record" /\ sender'[s].key = k /\ sender'[s].copy = sender[s].copy
      /\ sender'[s].alerts = sender[s].alerts
  BY <1>1, <1>3 DEF SenderType
<1>5. /\ letters[k] \in Nat /\ lapses[k] \in Nat /\ letters'[k] = letters[k] + 1
      /\ told'[k] = told[k] \cup sender[s].alerts
      /\ \A m \in Keys : m # k => SameAccount(m)
  BY <1>1, <1>2 DEF FoldersOK, TypeOK, SameAccount
<1>6. Folder(k)' = Folder(k) /\ Sub(k)' = Sub(k) /\ Due(k)' /\ k' = k
  BY <1>1, <1>2, <1>4 DEF Folder, Sub, Due, Blank
<1>7. SenderOK(s)'
  BY <1>0, <1>1, <1>2, <1>4, <1>5, <1>6 DEF SenderOK, lockVars
<1>8. StepOf(s)
  BY <1>0, <1>1, <1>2, <1>3, <1>5, DayAssumption DEF StepOf, OthersKeep, SameWork, lockVars
<1>9. ASSUME NEW m \in Keys, m = k
      PROVE  AccountOK(m)'
  <2>1. ~Recording(s, k)
    BY <1>0 DEF Recording
  <2>2. Owed(k) = 0
    BY <1>1, <2>1 DEF Owed, Due
  <2>3. Recording(s, m)'
    BY <1>4, <1>9 DEF Recording
  <2>4. Owed(m)' = 1
    BY <2>3 DEF Owed
  <2>5. Folder(m)' = Folder(m) /\ Sub(m)' = Sub(m)
    BY <1>2 DEF Folder, Sub, Blank
  <2> QED
    BY <1>1, <1>2, <1>5, <1>9, <2>2, <2>4, <2>5 DEF AccountOK, Due
<1> QED
  BY <1>1, <1>2, <1>4, <1>7, <1>8, <1>9, SenderKeeps

LEMMA RecordKeeps ==
  ASSUME FoldersOK, NEW s \in Senders, Record(s)
  PROVE  Kept
<1> DEFINE k == sender[s].key
<1>0. sender[s].at = "record" /\ UNCHANGED lockVars
  BY DEF Record, Sending
<1>1. /\ sender[s] \in SenderType /\ SenderOK(s) /\ s \in Procs
      /\ k \in Keys /\ wants[s] = k /\ phase[s] = "inside"
      /\ acct[k] \in FolderType /\ Folder(k) = acct[k]
      /\ Due(k) /\ sender[s].copy = Sub(k) /\ AccountOK(k)
      /\ \A q \in Senders \ {s} : ~Recording(q, k)
  BY <1>0, AtTheLetter
<1>2. PICK sub \in SubType :
        /\ sub.last = "today"
        /\ sub.status = sender[s].copy.status /\ sub.code = sender[s].copy.code
        /\ sub.alerts \in {sender[s].alerts, sender[s].copy.alerts}
        /\ acct' = [acct EXCEPT ![k] = [acct[k] EXCEPT !.sub = sub]]
        /\ [acct[k] EXCEPT !.sub = sub] \in FolderType
  BY RecordEffect DEF FoldersOK
<1> DEFINE new == [acct[k] EXCEPT !.sub = sub]
<1>3. /\ UNCHANGED <<session, erased, letters, lapses, told, kept, req, thread>> /\ Done(s)
      /\ sub # None /\ new # None /\ new.sub = sub /\ new.assets = acct[k].assets
  BY <1>1, <1>2, DayAssumption DEF Record, others, webVars, researchVars, FolderType
<1> HIDE DEF new
<1>4. sender'[s].at = "leave" /\ \A q \in Senders \ {s} : sender'[q] = sender[q]
  BY <1>3, DoneSets DEF FoldersOK
<1>5. acct'[k] = new /\ \A m \in Keys : m # k => SameAccount(m)
  BY <1>1, <1>2, <1>3 DEF FoldersOK, TypeOK, SameAccount, new
<1>6. SenderOK(s)'
  BY <1>4 DEF SenderOK
<1>7. StepOf(s)
  BY <1>0, <1>1, <1>3, <1>4, <1>5, DayAssumption DEF StepOf, OthersKeep, SameWork, lockVars
<1>8. ASSUME NEW m \in Keys, m = k
      PROVE  AccountOK(m)'
  <2>1. Folder(m)' = new /\ Sub(m)' = sub
    BY <1>3, <1>5, <1>8 DEF Folder, Sub
  <2>2. Owed(m)' = 1
    BY <1>2, <1>3, <2>1 DEF Owed
  <2>3. Owed(k) \in {0, 1} /\ letters[k] \in Nat /\ lapses[k] \in Nat
    BY <1>1 DEF Owed, FoldersOK, TypeOK
  <2>4. letters'[m] <= lapses'[m] + Owed(m)'
    BY <1>1, <1>3, <1>8, <2>2, <2>3 DEF AccountOK
  <2>5. letters'[m] >= 1 /\ sub.alerts \subseteq told'[m] /\ (sub.status = "active" => sub.code # "live")
    BY <1>0, <1>1, <1>2, <1>3, <1>8 DEF AccountOK, SenderOK, Due
  <2>6. new.assets = kept'[m]
    BY <1>1, <1>3, <1>8 DEF AccountOK
  <2> QED
    BY <2>1, <2>4, <2>5, <2>6 DEF AccountOK
<1> QED
  BY <1>1, <1>3, <1>4, <1>6, <1>7, <1>8, SenderKeeps

(* A letter that left and of which no file tells. *)
LEMMA LapseKeeps ==
  ASSUME FoldersOK, NEW s \in Senders, RecordFails(s) \/ (SenderDies(s) /\ sender[s].at = "record")
  PROVE  Kept
<1> DEFINE k == sender[s].key
<1>0. sender[s].at = "record"
  BY DEF RecordFails, Sending
<1>1. /\ s \in Procs /\ k \in Keys /\ wants[s] = k /\ phase[s] = "inside" /\ AccountOK(k)
  BY <1>0, AtTheLetter
<1>2. UNCHANGED <<session, erased, acct, letters, told, kept, req, thread>> /\ lapses' = [lapses EXCEPT ![k] = @ + 1]
  BY <1>0 DEF RecordFails, SenderDies, Lapse, others, webVars, researchVars
<1>3. sender'[s].at \in {"off", "leave"} /\ \A q \in Senders \ {s} : sender'[q] = sender[q]
  BY DoneSets DEF RecordFails, SenderDies, IdleSender, FoldersOK, TypeOK
<1>4. OthersKeep(s)
  BY DEF RecordFails, SenderDies, lockVars, Die, OthersKeep
<1>5. /\ letters[k] \in Nat /\ lapses[k] \in Nat /\ lapses'[k] = lapses[k] + 1
      /\ \A m \in Keys : m # k => SameAccount(m)
  BY <1>1, <1>2 DEF FoldersOK, TypeOK, SameAccount
<1>6. SenderOK(s)'
  BY <1>3 DEF SenderOK
<1>7. StepOf(s)
  BY <1>1, <1>2, <1>3, <1>4, <1>5, DayAssumption DEF StepOf, SameWork
<1>8. ASSUME NEW m \in Keys, m = k
      PROVE  AccountOK(m)'
  <2>1. Folder(m)' = Folder(m) /\ Sub(m)' = Sub(m)
    BY <1>2, SameFiles
  <2>2. Owed(m)' \in {0, 1} /\ Owed(k) \in {0, 1}
    BY DEF Owed
  <2> QED
    BY <1>1, <1>2, <1>5, <1>8, <2>1, <2>2 DEF AccountOK
<1> QED
  BY <1>1, <1>2, <1>3, <1>6, <1>7, <1>8, SenderKeeps

-----------------------------------------------------------------------------
(* Clocks, deaths, sessions and locks                                      *)

LEMMA ClockKeeps ==
  ASSUME FoldersOK, NEW k \in Keys, RunStale(k) \/ CodeExpires(k)
  PROVE  Kept
<1>0. acct[k] # None /\ acct[k] \in FolderType /\ Folder(k) = acct[k]
  BY FolderIsTyped DEF RunStale, CodeExpires, FoldersOK, TypeOK
<1>1. UNCHANGED <<lockVars, session, erased, req, thread, sender, letters, lapses, told, kept>>
  BY DEF RunStale, CodeExpires, threadOnly, around, webVars, researchVars, senderVars
<1>2. \E new \in FolderType :
        /\ acct' = [acct EXCEPT ![k] = new]
        /\ new.assets = acct[k].assets
        /\ \/ /\ new.sub = acct[k].sub
              /\ new.run # None /\ acct[k].run # None /\ new.run.id = acct[k].run.id
           \/ /\ new.sub # None /\ acct[k].sub # None /\ new.run = acct[k].run
              /\ new.sub.last = acct[k].sub.last /\ new.sub.alerts = acct[k].sub.alerts
              /\ new.sub.status # "active" /\ acct[k].sub.status # "active"
  <2>1. CASE RunStale(k)
    <3> DEFINE run == [acct[k].run EXCEPT !.stale = TRUE]
               new == [acct[k] EXCEPT !.run = run]
    <3>1. acct[k].run # None /\ acct[k].run \in RunType
      BY <1>0, <2>1 DEF RunStale, Running, FolderType
    <3>2. run \in RunType /\ run.id = acct[k].run.id
      BY <3>1 DEF RunType
    <3>3. acct' = [acct EXCEPT ![k] = new]
      BY <1>0, <2>1 DEF RunStale, FoldersOK, TypeOK
    <3>4. run # None
      BY <3>2, DayAssumption
    <3> HIDE DEF run
    <3>5. new \in FolderType /\ new.run = run /\ new.sub = acct[k].sub /\ new.assets = acct[k].assets
      BY <1>0, <3>2 DEF FolderType
    <3> HIDE DEF new
    <3> QED
      BY <3>1, <3>2, <3>3, <3>4, <3>5
  <2>2. CASE CodeExpires(k)
    <3> DEFINE sub == [acct[k].sub EXCEPT !.code = "over"]
               new == [acct[k] EXCEPT !.sub = sub]
    <3>1. acct[k].sub # None /\ acct[k].sub \in SubType /\ acct[k].sub.code = "live"
      BY <2>2, FolderIsTyped DEF CodeExpires, FoldersOK
    <3>2. acct[k].sub.status # "active"
      BY <1>0, <3>1 DEF FoldersOK, AccountsOK, AccountOK, Sub
    <3>3. sub \in SubType /\ sub.last = acct[k].sub.last /\ sub.alerts = acct[k].sub.alerts
          /\ sub.status = acct[k].sub.status
      BY <3>1 DEF SubType
    <3>4. acct' = [acct EXCEPT ![k] = new]
      BY <1>0, <2>2 DEF CodeExpires, FoldersOK, TypeOK
    <3>5. sub # None
      BY <3>3, DayAssumption
    <3> HIDE DEF sub
    <3>6. new \in FolderType /\ new.sub = sub /\ new.run = acct[k].run /\ new.assets = acct[k].assets
      BY <1>0, <3>3 DEF FolderType
    <3> HIDE DEF new
    <3> QED
      BY <3>1, <3>2, <3>3, <3>4, <3>5, <3>6
  <2> QED
    BY <2>1, <2>2
<1>3. PICK new \in FolderType :
        /\ acct' = [acct EXCEPT ![k] = new]
        /\ new.assets = acct[k].assets
        /\ \/ /\ new.sub = acct[k].sub
              /\ new.run # None /\ acct[k].run # None /\ new.run.id = acct[k].run.id
           \/ /\ new.sub # None /\ acct[k].sub # None /\ new.run = acct[k].run
              /\ new.sub.last = acct[k].sub.last /\ new.sub.alerts = acct[k].sub.alerts
              /\ new.sub.status # "active" /\ acct[k].sub.status # "active"
  BY <1>2
<1>4. acct'[k] = new /\ new # None /\ \A m \in Keys : m # k => acct'[m] = acct[m]
  BY <1>3, DayAssumption DEF FoldersOK, TypeOK
<1>5. \A m \in Keys : m # k => Folder(m)' = Folder(m) /\ Sub(m)' = Sub(m) /\ Due(m)' = Due(m)
  BY <1>4, SameFiles
<1>6. /\ Folder(k)' = new /\ Sub(k)' = new.sub /\ Sub(k) = acct[k].sub
      /\ Sub(k)' = Sub(k) \/ ~Due(k)
  BY <1>0, <1>3, <1>4 DEF Folder, Sub, Due
<1>7. ASSUME NEW m \in Keys
      PROVE  AccountOK(m)' /\ Folder(m).assets' = Folder(m).assets
  <2>1. AccountOK(m) /\ \A s \in Senders : Recording(s, m)' = Recording(s, m)
    BY <1>1 DEF FoldersOK, AccountsOK, Recording
  <2>2. Folder(m).assets' = Folder(m).assets
    BY <1>0, <1>3, <1>5, <1>6
  <2>3. CASE Sub(m)' = Sub(m)
    BY <1>1, <2>1, <2>2, <2>3, AccountStays DEF AccountOK
  <2>4. CASE Sub(m)' # Sub(m)
    <3>1. /\ m = k /\ Sub(m)' # None /\ Sub(m) # None /\ Sub(m)'.last = Sub(m).last
          /\ Sub(m)'.alerts = Sub(m).alerts /\ Sub(m)'.status # "active"
      BY <1>3, <1>5, <1>6, <2>4
    <3>2. Owed(m)' = Owed(m)
      BY <2>1, <3>1 DEF Owed
    <3> QED
      BY <1>1, <2>1, <2>2, <3>1, <3>2 DEF AccountOK
  <2> QED
    BY <2>2, <2>3, <2>4
<1>8. ASSUME NEW s \in Senders
      PROVE  SenderOK(s)'
  <2>1. SenderOK(s)
    BY DEF FoldersOK, SendersOK
  <2>2. \A m \in Keys : Due(m) => Due(m)' /\ Sub(m)' = Sub(m)
    BY <1>5, <1>6 DEF Due
  <2> QED
    BY <1>1, <2>1, <2>2 DEF SenderOK, lockVars, Due, Sub, Folder, Blank
<1>9. ASSUME NEW r \in Requests
      PROVE  RequestOK(r)'
  <2>1. RequestOK(r) /\ (req[r] # None => req[r].key \in Keys)
    BY RequestIsTyped DEF FoldersOK, RequestsOK, K
  <2>2. req[r] # None => F(r).assets' = F(r).assets
    BY <1>1, <1>7, <2>1 DEF F, Folder, Blank
  <2> QED
    BY <1>1, <2>1, <2>2 DEF RequestOK, lockVars
<1>10. ASSUME NEW w \in Threads
       PROVE  ThreadOK(w)'
  <2>1. ThreadOK(w) /\ (thread[w] # None => thread[w].key \in Keys)
    BY DEF FoldersOK, ThreadsOK, TypeOK, ThreadType
  <2>2. thread[w] # None /\ Current(w) => Current(w)'
    BY <1>0, <1>1, <1>3, <1>4, <2>1 DEF Current
  <2> QED
    BY <1>1, <2>1, <2>2 DEF ThreadOK, lockVars
<1>11. SessionsOK'
  BY <1>1, SessionsStay DEF FoldersOK, GoesOn
<1> QED
  BY <1>7, <1>8, <1>9, <1>10, <1>11 DEF Kept, AccountsOK, SendersOK, RequestsOK, ThreadsOK

LEMMA WorkerDeathKeeps ==
  ASSUME FoldersOK, WorkerDies
  PROVE  Kept
<1>1. /\ UNCHANGED <<acct, letters, lapses, told, kept, sender, erased, wants>>
      /\ phase' = [p \in Procs |-> IF p \in Requests \cup Threads THEN "out" ELSE phase[p]]
      /\ session' = [t \in Tokens |-> None]
      /\ req' = [r \in Requests |-> None]
      /\ thread' = [w \in Threads |-> None]
  BY DEF WorkerDies, Die, senderVars
<1>2. \A s \in Senders : phase'[s] = phase[s]
  BY <1>1, AccountsAssumption, DayAssumption
<1>3. AccountsOK'
  BY <1>1, AccountStays, SameFiles DEF FoldersOK, AccountsOK, AccountOK, Recording
<1>4. SendersOK'
  BY <1>1, <1>2, SenderStays DEF FoldersOK, SendersOK, SameAccount
<1>5. RequestsOK' /\ ThreadsOK'
  BY <1>1, AccountsAssumption DEF RequestsOK, RequestOK, ThreadsOK, ThreadOK
<1>6. SessionsOK'
  BY <1>1 DEF SessionsOK, SessionOK, FoldersOK, TypeOK
<1> QED
  BY <1>3, <1>4, <1>5, <1>6 DEF Kept

LEMMA SigningKeeps ==
  ASSUME FoldersOK,
         \/ \E b \in Browsers : Logout(b) \/ \E k \in Keys : Login(b, k)
         \/ \E t \in Tokens : SessionExpires(t)
  PROVE  Kept
<1>1. UNCHANGED <<file, phase, wants, acct, req, thread, sender, letters, lapses, told, kept>>
  BY DEF Logout, Login, SessionExpires, SignOut, offline, lockVars, researchVars, senderVars
<1>2. AccountsOK' /\ SendersOK' /\ RequestsOK' /\ ThreadsOK'
  BY <1>1 DEF FoldersOK, AccountsOK, AccountOK, SendersOK, SenderOK, RequestsOK, RequestOK, ThreadsOK, ThreadOK,
              Folder, Sub, Due, Owed, Recording, F, Current, Blank
<1>3. SessionsOK'
  <2>1. CASE (\E b \in Browsers : Logout(b)) \/ \E t \in Tokens : SessionExpires(t)
    <3>1. erased' = erased /\ \A t \in Tokens : session'[t] \in {None, session[t]}
      BY <2>1 DEF Logout, SessionExpires, SignOut, FoldersOK, TypeOK
    <3> QED
      BY <1>1, <3>1 DEF SessionsOK, SessionOK, FoldersOK, TypeOK
  <2>2. CASE \E b \in Browsers, k \in Keys : Login(b, k)
    <3>1. PICK b \in Browsers, k \in Keys, t \in Tokens :
            /\ \A r \in Requests : req[r] # None => req[r].token # t
            /\ session' = [u \in Tokens |-> IF u = t THEN k ELSE IF u = cookie[b] THEN None ELSE session[u]]
            /\ erased' = erased \ {t}
      BY <2>2 DEF Login
    <3>2. \A u \in Tokens : u # t => session'[u] \in {None, session[u]}
      BY <3>1
    <3> QED
      BY <1>1, <3>1, <3>2 DEF SessionsOK, SessionOK, FoldersOK, TypeOK
  <2> QED
    BY <2>1, <2>2
<1> QED
  BY <1>2, <1>3 DEF Kept

(* What takes and breaks locks and touches nothing else. *)
LEMMA LockingKeeps ==
  ASSUME FoldersOK, UNCHANGED content, wants' = wants,
         \A p \in Procs : (phase[p] = "inside" => phase'[p] = "inside") /\ (phase[p] = "out" => phase'[p] = "out")
  PROVE  Kept
<1>1. UNCHANGED <<session, erased, acct, req, thread, sender, letters, lapses, told, kept>>
  BY DEF content, webVars, researchVars, senderVars
<1>2. AccountsOK' /\ SessionsOK'
  BY <1>1 DEF FoldersOK, AccountsOK, AccountOK, SessionsOK, SessionOK, Folder, Sub, Due, Owed, Recording, Blank
<1>3. SendersOK' /\ RequestsOK' /\ ThreadsOK'
  <2>1. \A s \in Senders : SenderOK(s) => SenderOK(s)'
    BY <1>1, AccountsAssumption DEF SenderOK, Folder, Sub, Due, Blank
  <2>2. \A r \in Requests : RequestOK(r) => RequestOK(r)'
    BY <1>1, AccountsAssumption DEF RequestOK, F, Folder, Blank
  <2>3. \A w \in Threads : ThreadOK(w) => ThreadOK(w)'
    BY <1>1, AccountsAssumption DEF ThreadOK, Current
  <2> QED
    BY <2>1, <2>2, <2>3 DEF FoldersOK, SendersOK, RequestsOK, ThreadsOK
<1> QED
  BY <1>2, <1>3 DEF Kept

-----------------------------------------------------------------------------
(* The invariant                                                           *)

LEMMA NextKeeps ==
  ASSUME FoldersOK, Next
  PROVE  Kept
<1>1. CASE \/ \E b \in Browsers : Logout(b) \/ \E k \in Keys : Login(b, k)
           \/ \E t \in Tokens : SessionExpires(t)
  BY <1>1, SigningKeeps
<1>2. ASSUME NEW r \in Requests,
             \/ \E k \in Keys, op \in Ops, t \in Tokens \cup {None} : Arrive(r, k, op, t)
             \/ Busy(r) \/ Enter(r) \/ Refuse(r) \/ LeaveRequest(r)
      PROVE  Kept
  BY <1>2, ArriveKeeps, EnterKeeps, LeavingKeeps
<1>3. ASSUME NEW r \in Requests, Writing(r)
      PROVE  Kept
  BY <1>3, WritingEffect, WritingKeeps DEF FoldersOK
<1>4. ASSUME NEW r \in Requests,
             \/ ReadAssets(r) \/ NoSuchAsset(r) \/ SignOutAll(r) \/ AddAsset(r) \/ DropAsset(r) \/ RemoveFolder(r)
             \/ StartReport(r) \/ AbandonReport(r) \/ ReserveQuota(r) \/ CountUse(r) \/ StartThread(r)
      PROVE  Kept
  BY <1>4, SteppingKeeps, SigningOutKeeps, AssetKeeps, RemovingKeeps, RunKeeps
<1>5. ASSUME NEW w \in Threads, Analysed(w) \/ ThreadBusy(w) \/ NotMine(w) \/ SaveResult(w) \/ SaveRun(w)
      PROVE  Kept
  BY <1>5, ResearchKeeps
<1>6. ASSUME NEW k \in Keys, RunStale(k) \/ CodeExpires(k)
      PROVE  Kept
  BY <1>6, ClockKeeps
<1>7. ASSUME NEW s \in Senders,
             \/ StartSending(s) \/ AllSent(s) \/ AccountBusy(s) \/ Look(s) \/ Mail(s) \/ MailRefused(s)
             \/ SessionBreaks(s) \/ Record(s) \/ RecordFails(s) \/ LeaveAccount(s) \/ SenderDies(s)
             \/ \E k \in Keys : NextAccount(s, k)
      PROVE  Kept
  BY <1>7, FilteringKeeps, NextAccountKeeps, LookKeeps, MailKeeps, RecordKeeps, LapseKeeps
<1>8. CASE WorkerDies
  BY <1>8, WorkerDeathKeeps
<1>9. ASSUME NEW p \in Procs, Create(p) \/ FindStale(p) \/ Break(p), UNCHANGED content
      PROVE  Kept
  BY <1>9, LockingKeeps DEF Create, FindStale, Break, FoldersOK, TypeOK, LockTypeOK
<1>10. ASSUME NEW l \in Locks, Age(l), UNCHANGED content
       PROVE  Kept
  BY <1>10, LockingKeeps DEF Age
<1>11. Senders \cup Threads \subseteq Procs
  BY AccountsAssumption
<1> QED
  BY <1>1, <1>2, <1>3, <1>4, <1>5, <1>6, <1>7, <1>8, <1>9, <1>10, <1>11 DEF Next, Writing

LEMMA InitKeeps ==
  ASSUME Locks # {}, Init
  PROVE  FoldersOK
<1>1. TypeOK /\ Owned
  BY InitTyped, LockInitInv DEF Init, LockInv
<1>2. \A s \in Senders : sender[s].at = "off"
  BY DEF Init, IdleSender
<1>3. ASSUME NEW k \in Keys
      PROVE  AccountOK(k)
  <2>1. letters[k] = 0 /\ lapses[k] = 0 /\ kept[k] = Folder(k).assets
    BY DEF Init
  <2>2. acct[k] \in {None, Settled}
    BY DEF Init
  <2>3. Sub(k) # None => Sub(k) = Settled.sub
    BY <2>2 DEF Sub, Folder, Blank
  <2>4. Owed(k) \in {0, 1}
    BY DEF Owed
  <2> QED
    BY <2>1, <2>3, <2>4, DayAssumption DEF AccountOK
<1>4. AccountsOK /\ SendersOK
  BY <1>2, <1>3 DEF AccountsOK, SendersOK, SenderOK
<1>5. RequestsOK /\ ThreadsOK /\ SessionsOK
  BY AccountsAssumption DEF Init, LockInit, RequestsOK, RequestOK, ThreadsOK, ThreadOK, SessionsOK, SessionOK
<1> QED
  BY <1>1, <1>4, <1>5 DEF FoldersOK

LEMMA StepKeeps ==
  ASSUME Orderly, FoldersOK, [Next]_vars
  PROVE  FoldersOK'
<1>1. LockTypeOK /\ LockInv
  BY DEF FoldersOK, TypeOK, LockInv
<1>2. CASE Next
  <2>1. LockStep \/ UNCHANGED lockVars
    BY <1>2, AccountsLockStep
  <2>2. LockTypeOK' /\ Owned'
    <3>1. CASE LockStep
      BY <1>1, <3>1, LockStepType, LockStepOwned
    <3>2. CASE UNCHANGED lockVars
      BY <1>1, <3>2 DEF LockInv, LockTypeOK, Owned, Inside, At, lockVars
    <3> QED
      BY <2>1, <3>1, <3>2
  <2>3. TypeOK'
    BY <2>2, NextTyped DEF FoldersOK
  <2>4. Kept
    BY <1>2, NextKeeps
  <2> QED
    BY <2>2, <2>3, <2>4 DEF FoldersOK, Kept
<1>3. CASE UNCHANGED vars
  <2>1. UNCHANGED lockVars /\ UNCHANGED content
    BY <1>3 DEF vars, content
  <2>2. LockTypeOK' /\ Owned'
    BY <1>1, <2>1 DEF LockInv, LockTypeOK, Owned, Inside, At, lockVars
  <2>3. TypeOK'
    BY <2>2, NextTyped DEF FoldersOK
  <2>4. Kept
    BY <2>1, LockingKeeps DEF lockVars
  <2> QED
    BY <2>2, <2>3, <2>4 DEF FoldersOK, Kept
<1> QED
  BY <1>2, <1>3

LEMMA Invariance == ASSUME Orderly, Locks # {} PROVE Spec => []FoldersOK
<1>1. Init => FoldersOK
  BY InitKeeps
<1>2. FoldersOK /\ [Next]_vars => FoldersOK'
  BY StepKeeps
<1> QED
  BY <1>1, <1>2, PTL DEF Spec

-----------------------------------------------------------------------------
(* The theorems                                                            *)

(* The files of accounts keep their form through every request, sender,     *)
(* thread, restart and death.                                               *)
THEOREM AccountsAreTyped == ASSUME Orderly, Locks # {} PROVE Spec => []TypeOK
<1>1. FoldersOK => TypeOK
  BY DEF FoldersOK
<1> QED
  BY <1>1, Invariance, PTL

(* newsletter.send: however often the one-shot runs and wherever it dies, a  *)
(* subscription gets one letter a day, and another only for a record that    *)
(* was lost; last_sent_on and alerts_sent never run ahead of the letters.    *)
THEOREM LettersOnce == ASSUME Orderly, Locks # {} PROVE Spec => []LettersAreRecorded
<1>1. ASSUME FoldersOK
      PROVE  LettersAreRecorded
  <2>1. ASSUME NEW k \in Keys
        PROVE  letters[k] <= 1 + lapses[k]
    <3>1. Owed(k) \in {0, 1} /\ letters[k] \in Nat /\ lapses[k] \in Nat
      BY <1>1 DEF Owed, FoldersOK, TypeOK
    <3> QED
      BY <1>1, <3>1 DEF FoldersOK, AccountsOK, AccountOK
  <2>2. RecordedWasSent
    BY <1>1 DEF FoldersOK, AccountsOK, AccountOK, RecordedWasSent
  <2> QED
    BY <2>1, <2>2 DEF LettersAreRecorded, OneLetterADay
<1> QED
  BY <1>1, Invariance, PTL

(* newsletter.send: whatever cancels, changes or deletes a subscription after *)
(* the filter, a letter leaves for the confirmed address that is on file.     *)
THEOREM LettersToConfirmed == ASSUME Orderly, Locks # {} PROVE Spec => ConfirmedAddressOnly
<1> DEFINE Confirming == \A s \in Senders : sender[s].at = "mail" /\ sender'[s].at = "record" =>
                           LET sub == Sub(sender[s].key)
                           IN sub # None /\ sub.status = "active" /\ sub.email = sender[s].copy.email
<1>1. FoldersOK => Confirming
  BY DEF FoldersOK, SendersOK, SenderOK, Due
<1>2. Spec => [][Confirming]_vars
  BY <1>1, Invariance, PTL
<1> QED
  BY <1>2 DEF ConfirmedAddressOnly

-----------------------------------------------------------------------------
(* Deleted folders and stale runs                                          *)

(* A folder comes back with a request that may work on it, and a run passes only to *)
(* one that starts.                                                                  *)
Returns(k) == acct[k] = None /\ acct'[k] # None =>
  \E r \in Requests : req[r] # None /\ Inside(r, k) /\ req[r].op # "oneclick" /\ req[r].token \notin erased

Passes(k) ==
  Folder(k).run # None /\ acct'[k] # None /\ acct'[k].run # None /\ acct'[k].run.id # acct[k].run.id
    => acct'[k].run.status = "running"

LEMMA NothingPasses ==
  ASSUME NEW k \in Keys, acct'[k] = acct[k] \/ acct'[k] = None
  PROVE  Returns(k) /\ Passes(k)
BY DEF Returns, Passes

(* A request that writes its account's files was identified under the lock. *)
LEMMA RequestReturns ==
  ASSUME FoldersOK, NEW r \in Requests, req[r] # None, phase[r] = "inside", req[r].step \notin {"enter", "leave"},
         req[r].op = "oneclick" => acct[K(r)] # None,
         NEW new \in FolderType, acct' = [acct EXCEPT ![K(r)] = new],
         new.run = F(r).run \/ new.run.status = "running",
         NEW k \in Keys
  PROVE  Returns(k) /\ Passes(k)
<1>1. CASE k # K(r)
  BY <1>1, NothingPasses DEF FoldersOK, TypeOK
<1>2. CASE k = K(r)
  <2>1. acct'[k] = new /\ F(r) = Folder(k) /\ (Folder(k).run # None => Folder(k) = acct[k])
    BY <1>2, RequestsAccount DEF FoldersOK, TypeOK, Folder, Blank
  <2>2. wants[r] = k
    BY <1>2 DEF FoldersOK, RequestsOK, RequestOK, K
  <2>3. req[r].op # "oneclick" => req[r].token \notin erased
    BY DEF FoldersOK, SessionsOK, SessionOK
  <2>4. Returns(k)
    BY <1>2, <2>2, <2>3 DEF Returns, Inside, At
  <2>5. Passes(k)
    BY <2>1 DEF Passes
  <2> QED
    BY <2>4, <2>5
<1> QED
  BY <1>1, <1>2

LEMMA NextReturns ==
  ASSUME FoldersOK, [Next]_vars, NEW k \in Keys
  PROVE  Returns(k) /\ Passes(k)
<1>1. CASE \/ \E b \in Browsers : Logout(b) \/ \E m \in Keys : Login(b, m)
           \/ \E t \in Tokens : SessionExpires(t)
  BY <1>1, NothingPasses DEF Logout, Login, SessionExpires, offline
<1>2. ASSUME NEW r \in Requests,
             \/ \E m \in Keys, op \in Ops, t \in Tokens \cup {None} : Arrive(r, m, op, t)
             \/ Busy(r) \/ Enter(r) \/ Refuse(r) \/ LeaveRequest(r)
             \/ ReadAssets(r) \/ NoSuchAsset(r) \/ SignOutAll(r)
             \/ StartReport(r) \/ AbandonReport(r) \/ ReserveQuota(r)
      PROVE  Returns(k) /\ Passes(k)
  <2>1. acct' = acct
    BY <1>2 DEF Arrive, Busy, Enter, Refuse, LeaveRequest, ReadAssets, NoSuchAsset, SignOutAll,
                StartReport, AbandonReport, ReserveQuota
  <2> QED
    BY <2>1, NothingPasses
<1>3. ASSUME NEW r \in Requests, Writing(r)
      PROVE  Returns(k) /\ Passes(k)
  <2>1. PICK new \in FolderType : Written(r, new)
    BY <1>3, WritingEffect DEF FoldersOK
  <2> QED
    BY <2>1, RequestReturns DEF Written
<1>4. ASSUME NEW r \in Requests, AddAsset(r) \/ DropAsset(r)
      PROVE  Returns(k) /\ Passes(k)
  <2>1. PICK assets \in SUBSET Assets :
          /\ req[r] # None /\ phase[r] = "inside" /\ req[r].step = "write" /\ req[r].op \in {"add", "drop"}
          /\ WriteAssets(r, assets)
    BY <1>4, AssetEffect DEF FoldersOK
  <2> DEFINE new == [F(r) EXCEPT !.assets = assets]
  <2>2. F(r) \in FolderType
    BY <2>1, RequestIsTyped DEF FoldersOK
  <2>3. new \in FolderType /\ new.run = F(r).run
    BY <2>2 DEF FolderType
  <2>4. acct' = [acct EXCEPT ![K(r)] = new]
    BY <2>1 DEF WriteAssets, Write
  <2> HIDE DEF new
  <2> QED
    BY <2>1, <2>3, <2>4, RequestReturns
<1>5. ASSUME NEW r \in Requests, CountUse(r)
      PROVE  Returns(k) /\ Passes(k)
  <2> DEFINE new == [F(r) EXCEPT !.used = @ + 1]
  <2>1. req[r] # None /\ phase[r] = "inside" /\ req[r].step = "usage"
    BY <1>5 DEF CountUse, Serving
  <2>2. F(r) \in FolderType /\ req[r].op # "oneclick"
    BY <2>1, RequestIsTyped DEF FoldersOK, RequestsOK, RequestOK
  <2>3. new \in FolderType /\ new.run = F(r).run
    BY <2>2 DEF FolderType
  <2>4. acct' = [acct EXCEPT ![K(r)] = new]
    BY <1>5 DEF CountUse, Write
  <2> HIDE DEF new
  <2> QED
    BY <2>1, <2>2, <2>3, <2>4, RequestReturns
<1>6. ASSUME NEW r \in Requests, StartThread(r)
      PROVE  Returns(k) /\ Passes(k)
  <2>1. req[r] # None /\ phase[r] = "inside" /\ req[r].step = "mark"
    BY <1>6 DEF StartThread, Serving
  <2>2. F(r) \in FolderType /\ req[r].op # "oneclick"
    BY <2>1, RequestIsTyped DEF FoldersOK, RequestsOK, RequestOK
  <2>3. PICK w \in Threads : Write(K(r), [F(r) EXCEPT !.run = [id |-> w, status |-> "running", stale |-> FALSE]])
    BY <1>6 DEF StartThread
  <2> DEFINE run == [id |-> w, status |-> "running", stale |-> FALSE]
             new == [F(r) EXCEPT !.run = run]
  <2>4. run \in RunType /\ run.status = "running"
    BY DEF RunType
  <2>5. acct' = [acct EXCEPT ![K(r)] = new]
    BY <2>3 DEF Write
  <2> HIDE DEF run
  <2>6. new \in FolderType /\ new.run = run
    BY <2>2, <2>4 DEF FolderType
  <2> HIDE DEF new
  <2> QED
    BY <2>1, <2>2, <2>4, <2>5, <2>6, RequestReturns
<1>7. ASSUME NEW r \in Requests, RemoveFolder(r)
      PROVE  Returns(k) /\ Passes(k)
  BY <1>7, NothingPasses DEF RemoveFolder, FoldersOK, TypeOK
<1>8. ASSUME NEW w \in Threads, Analysed(w) \/ ThreadBusy(w) \/ NotMine(w)
      PROVE  Returns(k) /\ Passes(k)
  BY <1>8, NothingPasses DEF Analysed, ThreadBusy, NotMine
<1>9. ASSUME NEW w \in Threads, SaveResult(w) \/ SaveRun(w)
      PROVE  Returns(k) /\ Passes(k)
  <2> DEFINE m == thread[w].key
  <2>1. thread[w] # None /\ m \in Keys /\ Current(w)
    BY <1>9 DEF SaveResult, SaveRun, Mine, FoldersOK, TypeOK, ThreadType, ThreadsOK, ThreadOK
  <2>2. acct[m] # None /\ acct[m] \in FolderType /\ Folder(m) = acct[m] /\ acct[m].run.id = w
    BY <2>1, FolderIsTyped DEF Current, FoldersOK
  <2>3. acct'[m].run.id = w /\ \A n \in Keys : n # m => acct'[n] = acct[n]
    <3>1. CASE SaveResult(w)
      <4> DEFINE past == acct[m].past \cup {thread[w].topic}
                 latest == [id |-> w, applied |-> FALSE]
                 new == [acct[m] EXCEPT !.latest = latest, !.past = past]
      <4>1. acct' = [acct EXCEPT ![m] = new]
        BY <2>2, <3>1 DEF SaveResult, Write
      <4> HIDE DEF past, latest
      <4>2. new.run = acct[m].run
        BY <2>2 DEF FolderType
      <4> HIDE DEF new
      <4> QED
        BY <2>1, <2>2, <4>1, <4>2 DEF FoldersOK, TypeOK
    <3>2. CASE SaveRun(w)
      <4> DEFINE run == [id |-> w, status |-> thread[w].result, stale |-> FALSE]
                 new == [acct[m] EXCEPT !.run = run]
      <4>1. acct' = [acct EXCEPT ![m] = new]
        BY <2>2, <3>2 DEF SaveRun, Write
      <4>2. run.id = w
        OBVIOUS
      <4> HIDE DEF run
      <4>3. new.run = run
        BY <2>2 DEF FolderType
      <4> HIDE DEF new
      <4> QED
        BY <2>1, <4>1, <4>2, <4>3 DEF FoldersOK, TypeOK
    <3> QED
      BY <1>9, <3>1, <3>2
  <2>4. CASE k = m
    BY <2>2, <2>3, <2>4 DEF Returns, Passes
  <2>5. CASE k # m
    BY <2>3, <2>5, NothingPasses
  <2> QED
    BY <2>4, <2>5
<1>10. ASSUME NEW m \in Keys, RunStale(m) \/ CodeExpires(m)
       PROVE  Returns(k) /\ Passes(k)
  <2>1. acct[m] # None /\ acct[m] \in FolderType /\ Folder(m) = acct[m]
    BY <1>10, FolderIsTyped DEF RunStale, CodeExpires, FoldersOK, TypeOK
  <2>2. CASE k # m
    BY <1>10, <2>2, NothingPasses DEF RunStale, CodeExpires, FoldersOK, TypeOK
  <2>3. CASE k = m /\ RunStale(m)
    <3> DEFINE run == [acct[m].run EXCEPT !.stale = TRUE]
               new == [acct[m] EXCEPT !.run = run]
    <3>1. acct[m].run \in RunType
      BY <2>1, <2>3 DEF RunStale, Running, FolderType
    <3>2. run.id = acct[m].run.id
      BY <3>1 DEF RunType
    <3>3. acct'[m] = new
      BY <2>1, <2>3 DEF RunStale, FoldersOK, TypeOK
    <3> HIDE DEF run
    <3>4. new.run = run
      BY <2>1 DEF FolderType
    <3> HIDE DEF new
    <3> QED
      BY <2>1, <2>3, <3>2, <3>3, <3>4 DEF Returns, Passes
  <2>4. CASE k = m /\ CodeExpires(m)
    <3> DEFINE sub == [acct[m].sub EXCEPT !.code = "over"]
               new == [acct[m] EXCEPT !.sub = sub]
    <3>1. acct'[m] = new
      BY <2>1, <2>4 DEF CodeExpires, FoldersOK, TypeOK
    <3> HIDE DEF sub
    <3>2. new.run = acct[m].run
      BY <2>1 DEF FolderType
    <3> HIDE DEF new
    <3> QED
      BY <2>1, <2>4, <3>1, <3>2 DEF Returns, Passes
  <2> QED
    BY <1>10, <2>2, <2>3, <2>4
<1>11. ASSUME NEW s \in Senders,
              \/ StartSending(s) \/ AllSent(s) \/ AccountBusy(s) \/ Look(s) \/ Mail(s) \/ MailRefused(s)
              \/ SessionBreaks(s) \/ RecordFails(s) \/ LeaveAccount(s) \/ SenderDies(s)
              \/ \E m \in Keys : NextAccount(s, m)
       PROVE  Returns(k) /\ Passes(k)
  <2>1. acct' = acct
    BY <1>11 DEF StartSending, AllSent, AccountBusy, Look, Mail, MailRefused, SessionBreaks, RecordFails,
                 LeaveAccount, SenderDies, NextAccount
  <2> QED
    BY <2>1, NothingPasses
<1>12. ASSUME NEW s \in Senders, Record(s)
       PROVE  Returns(k) /\ Passes(k)
  <2> DEFINE m == sender[s].key
  <2>1. m \in Keys /\ acct[m] \in FolderType /\ acct[m] # None
    BY <1>12, AtTheLetter, DayAssumption DEF Record, Sending
  <2>2. PICK sub \in SubType : acct' = [acct EXCEPT ![m] = [acct[m] EXCEPT !.sub = sub]]
    BY <1>12, RecordEffect DEF FoldersOK
  <2> DEFINE new == [acct[m] EXCEPT !.sub = sub]
  <2>3. new.run = acct[m].run
    BY <2>1 DEF FolderType
  <2>4. acct'[m] = new /\ \A n \in Keys : n # m => acct'[n] = acct[n]
    BY <2>1, <2>2 DEF FoldersOK, TypeOK
  <2> HIDE DEF new
  <2>5. CASE k = m
    BY <2>1, <2>3, <2>4, <2>5 DEF Returns, Passes
  <2>6. CASE k # m
    BY <2>4, <2>6, NothingPasses
  <2> QED
    BY <2>5, <2>6
<1>13. CASE WorkerDies
  BY <1>13, NothingPasses DEF WorkerDies
<1>14. CASE UNCHANGED content \/ UNCHANGED vars
  BY <1>14, NothingPasses DEF content, vars
<1> QED
  BY <1>1, <1>2, <1>3, <1>4, <1>5, <1>6, <1>7, <1>8, <1>9, <1>10, <1>11, <1>12, <1>13, <1>14 DEF Next, Writing

(* accounts.delete and account_lock: no thread, no sender and no request with a *)
(* session of the deleted account brings a deleted folder back.                 *)
THEOREM DeletedStaysDeleted == ASSUME Orderly, Locks # {} PROVE Spec => NoResurrection
<1> DEFINE Bringing == \A k \in Keys : acct[k] = None /\ acct'[k] # None =>
                     \E r \in Requests : /\ req[r] # None /\ Inside(r, k)
                                          /\ req[r].op # "oneclick" /\ req[r].token \notin erased
<1>1. FoldersOK /\ [Next]_vars => Bringing
  BY NextReturns DEF Returns
<1>2. Spec => [][Bringing]_vars
  BY <1>1, Invariance, PTL DEF Spec
<1> QED
  BY <1>2 DEF NoResurrection

(* personal_research: a run that went stale and was followed by another does *)
(* not write the other's end; run.json passes to a run only when it starts.   *)
THEOREM RunsPassByStarting == ASSUME Orderly, Locks # {} PROVE Spec => RunsEndThemselves
<1> DEFINE Passing == \A k \in Keys :
       Folder(k).run # None /\ acct'[k] # None /\ acct'[k].run # None /\ acct'[k].run.id # acct[k].run.id
         => acct'[k].run.status = "running"
<1>1. FoldersOK /\ [Next]_vars => Passing
  BY NextReturns DEF Passes
<1>2. Spec => [][Passing]_vars
  BY <1>1, Invariance, PTL DEF Spec
<1> QED
  BY <1>2 DEF RunsEndThemselves

-----------------------------------------------------------------------------
(* The places of the semaphore                                             *)

Analysing == {w \in Threads : thread[w] # None /\ thread[w].result = "none"}
Reserved(step) == step \in {"quota", "usage", "mark"}
Starting == {r \in Requests : req[r] # None /\ Reserved(req[r].step)}

Places == slots \in Int /\ slots + Cardinality(Analysing) + Cardinality(Starting) = MaxSlots

LEMMA PlacesAreSlots == Places => SlotsBalanced
BY DEF Places, SlotsBalanced, Analysing, Starting, Reserved

LEMMA PlacesAreFinite ==
  /\ IsFiniteSet(Analysing) /\ IsFiniteSet(Starting)
  /\ Cardinality(Analysing) \in Nat /\ Cardinality(Starting) \in Nat
BY AccountsAssumption, FS_Subset, FS_CardinalityType DEF Analysing, Starting

LEMMA PlacesStay ==
  ASSUME Places, slots' = slots, Analysing' = Analysing, Starting' = Starting
  PROVE  Places'
BY DEF Places

LEMMA PlaceTaken ==
  ASSUME Places, NEW r, r \notin Starting, Starting' = Starting \cup {r}, Analysing' = Analysing, slots' = slots - 1
  PROVE  Places'
<1>1. Cardinality(Starting') = Cardinality(Starting) + 1
  BY PlacesAreFinite, FS_AddElement
<1> QED
  BY <1>1, PlacesAreFinite DEF Places

LEMMA PlaceGivenBack ==
  ASSUME Places, NEW r \in Starting, Starting' = Starting \ {r}, Analysing' = Analysing, slots' = slots + 1
  PROVE  Places'
<1>1. Cardinality(Starting') = Cardinality(Starting) - 1
  BY PlacesAreFinite, FS_RemoveElement
<1> QED
  BY <1>1, PlacesAreFinite DEF Places

LEMMA PlacePassedOn ==
  ASSUME Places, NEW r \in Starting, Starting' = Starting \ {r},
         NEW w, w \notin Analysing, Analysing' = Analysing \cup {w}, slots' = slots
  PROVE  Places'
<1>1. Cardinality(Starting') = Cardinality(Starting) - 1
  BY PlacesAreFinite, FS_RemoveElement
<1>2. Cardinality(Analysing') = Cardinality(Analysing) + 1
  BY PlacesAreFinite, FS_AddElement
<1> QED
  BY <1>1, <1>2, PlacesAreFinite DEF Places

LEMMA PlaceFreed ==
  ASSUME Places, NEW w \in Analysing, Analysing' = Analysing \ {w}, Starting' = Starting, slots' = slots + 1
  PROVE  Places'
<1>1. Cardinality(Analysing') = Cardinality(Analysing) - 1
  BY PlacesAreFinite, FS_RemoveElement
<1> QED
  BY <1>1, PlacesAreFinite DEF Places

(* A request that neither gets a place nor gives it away. *)
LEMMA RequestsPlaceStays ==
  ASSUME Places, NEW r \in Requests, \A q \in Requests \ {r} : req'[q] = req[q],
         req[r] # None => (Reserved(req[r].step) <=> req'[r] # None /\ Reserved(req'[r].step)),
         req[r] = None => ~(req'[r] # None /\ Reserved(req'[r].step)),
         slots' = slots, thread' = thread
  PROVE  Places'
<1>1. Starting' = Starting
  BY DEF Starting
<1>2. Analysing' = Analysing
  BY DEF Analysing
<1> QED
  BY <1>1, <1>2, PlacesStay

LEMMA RequestsPlace ==
  ASSUME FoldersOK, Places, NEW r \in Requests,
         \/ \E k \in Keys, op \in Ops, t \in Tokens \cup {None} : Arrive(r, k, op, t)
         \/ Busy(r) \/ Enter(r) \/ Refuse(r) \/ LeaveRequest(r)
         \/ ReadAssets(r) \/ NoSuchAsset(r) \/ SignOutAll(r) \/ AddAsset(r) \/ DropAsset(r) \/ RemoveFolder(r)
         \/ Writing(r) \/ ReserveQuota(r) \/ CountUse(r)
  PROVE  Places'
<1>0. r \in Procs /\ (req[r] # None => req[r] \in RequestType /\ RequestOK(r))
  BY RequestIsTyped, AccountsAssumption DEF FoldersOK, RequestsOK
<1>1. CASE \E k \in Keys, op \in Ops, t \in Tokens \cup {None} : Arrive(r, k, op, t)
  <2>1. PICK k \in Keys, op \in Ops, t \in Tokens \cup {None} : Arrive(r, k, op, t)
    BY <1>1
  <2>2. /\ req[r] = None /\ req'[r].step = "enter" /\ \A q \in Requests \ {r} : req'[q] = req[q]
        /\ slots' = slots /\ thread' = thread
    BY <2>1 DEF Arrive, researchVars, FoldersOK, TypeOK
  <2> QED
    BY <2>2, RequestsPlaceStays DEF Reserved
<1>2. CASE Busy(r) \/ Refuse(r) \/ LeaveRequest(r)
  <2>1. /\ req[r] # None /\ req'[r] = None /\ \A q \in Requests \ {r} : req'[q] = req[q]
        /\ slots' = slots /\ thread' = thread
    BY <1>2 DEF Busy, Refuse, LeaveRequest, Answered, Serving, Does, around, researchVars, FoldersOK, TypeOK
  <2>2. ~Reserved(req[r].step)
    BY <1>0, <1>2, LockMoves, <2>1 DEF Busy, Refuse, LeaveRequest, Serving, Reserved, RequestOK, FoldersOK
  <2> QED
    BY <2>1, <2>2, RequestsPlaceStays
<1>3. ASSUME NEW step \in {"work", "leave", "signout"}, Step(r, step), req[r] # None, ~Reserved(req[r].step),
             slots' = slots, thread' = thread
      PROVE  Places'
  <2>1. req'[r].step = step /\ \A q \in Requests \ {r} : req'[q] = req[q]
    BY <1>3, StepIsTyped DEF FoldersOK
  <2> QED
    BY <1>3, <2>1, RequestsPlaceStays DEF Reserved
<1>4. CASE Enter(r)
  <2>1. ~Reserved(req[r].step)
    BY <1>0, <1>4, LockMoves DEF Enter, Reserved, RequestOK, FoldersOK
  <2> QED
    BY <1>3, <1>4, <2>1 DEF Enter, around, researchVars
<1>5. CASE NoSuchAsset(r) \/ SignOutAll(r) \/ RemoveFolder(r)
  <2>1. ~Reserved(req[r].step) /\ req[r] # None
    BY <1>5 DEF NoSuchAsset, SignOutAll, RemoveFolder, Does, Serving, Reserved
  <2> QED
    BY <1>3, <1>5, <2>1 DEF NoSuchAsset, SignOutAll, RemoveFolder, around, researchVars
<1>6. CASE AddAsset(r) \/ DropAsset(r)
  <2>1. req[r].step = "write" /\ req[r] # None /\ Step(r, "leave") /\ slots' = slots /\ thread' = thread
    BY <1>6 DEF AddAsset, DropAsset, WriteAssets, Serving, researchVars
  <2> QED
    BY <1>3, <2>1 DEF Reserved
<1>7. CASE Writing(r)
  <2>1. PICK new \in FolderType : Written(r, new)
    BY <1>7, WritingEffect DEF FoldersOK
  <2> QED
    BY <1>3, <2>1 DEF Written, Reserved, researchVars
<1>8. CASE ReadAssets(r)
  <2> DEFINE new == [req[r] EXCEPT !.copy = F(r).assets, !.step = "write"]
  <2>1. req[r] # None /\ req[r].step = "work" /\ slots' = slots /\ thread' = thread
    BY <1>8 DEF ReadAssets, Serving, around, researchVars
  <2>2. req' = [req EXCEPT ![r] = new] /\ new.step = "write"
    BY <1>0, <1>8, <2>1 DEF ReadAssets, RequestType
  <2> HIDE DEF new
  <2>3. req'[r] = new /\ \A q \in Requests \ {r} : req'[q] = req[q]
    BY <2>2 DEF FoldersOK, TypeOK
  <2> QED
    BY <2>1, <2>2, <2>3, RequestsPlaceStays DEF Reserved
<1>9. CASE ReserveQuota(r) \/ CountUse(r)
  <2>1. /\ req[r] # None /\ req[r].step \in {"quota", "usage"} /\ slots' = slots /\ thread' = thread
        /\ Step(r, "usage") \/ Step(r, "mark")
    BY <1>9 DEF ReserveQuota, CountUse, Serving, researchVars
  <2>2. req'[r] # None /\ req'[r].step \in {"usage", "mark"} /\ \A q \in Requests \ {r} : req'[q] = req[q]
    BY <2>1, StepIsTyped DEF FoldersOK
  <2> QED
    BY <2>1, <2>2, RequestsPlaceStays DEF Reserved
<1> QED
  BY <1>1, <1>2, <1>4, <1>5, <1>6, <1>7, <1>8, <1>9

LEMMA ReportsPlace ==
  ASSUME FoldersOK, Places, NEW r \in Requests, StartReport(r) \/ AbandonReport(r) \/ StartThread(r)
  PROVE  Places'
<1>0. req[r] # None /\ req[r] \in RequestType
  BY RequestIsTyped DEF FoldersOK, StartReport, AbandonReport, StartThread, Does, Serving
<1>1. CASE StartReport(r)
  <2> DEFINE new == [req[r] EXCEPT !.topic = F(r).topic, !.step = "quota"]
  <2>1. req[r].step = "work" /\ slots' = slots - 1 /\ thread' = thread
    BY <1>1 DEF StartReport, Does, Serving
  <2>2. F(r).topic \in Topics \cup {None}
    BY <1>0, RequestIsTyped DEF FoldersOK, FolderType
  <2>3. req' = [req EXCEPT ![r] = new] /\ new.step = "quota" /\ new \in RequestType
    BY <1>0, <1>1, <2>2 DEF StartReport, RequestType
  <2> HIDE DEF new
  <2>4. req'[r] = new /\ new # None /\ \A q \in Requests \ {r} : req'[q] = req[q]
    BY <2>3, DayAssumption DEF FoldersOK, TypeOK
  <2>5. r \notin Starting /\ Starting' = Starting \cup {r} /\ Analysing' = Analysing
    BY <2>1, <2>3, <2>4 DEF Starting, Reserved, Analysing
  <2> QED
    BY <2>1, <2>5, PlaceTaken
<1>2. ASSUME Step(r, "leave"), Reserved(req[r].step)
      PROVE  r \in Starting /\ Starting' = Starting \ {r}
  <2>1. req'[r].step = "leave" /\ \A q \in Requests \ {r} : req'[q] = req[q]
    BY <1>0, <1>2, StepIsTyped DEF FoldersOK
  <2> QED
    BY <1>0, <1>2, <2>1 DEF Starting, Reserved
<1>3. CASE AbandonReport(r)
  <2>1. Step(r, "leave") /\ Reserved(req[r].step) /\ slots' = slots + 1 /\ thread' = thread
    BY <1>3 DEF AbandonReport, Serving, Reserved
  <2>2. Analysing' = Analysing
    BY <2>1 DEF Analysing
  <2> QED
    BY <1>2, <2>1, <2>2, PlaceGivenBack
<1>4. CASE StartThread(r)
  <2>1. PICK w \in Threads :
          /\ thread[w] = None
          /\ thread' = [thread EXCEPT ![w] = [key |-> K(r), topic |-> req[r].topic, result |-> "none", saved |-> FALSE]]
    BY <1>4 DEF StartThread
  <2> DEFINE work == [key |-> K(r), topic |-> req[r].topic, result |-> "none", saved |-> FALSE]
  <2>2. Step(r, "leave") /\ Reserved(req[r].step) /\ slots' = slots
    BY <1>4 DEF StartThread, Serving, Reserved
  <2>3. K(r) \in Keys /\ req[r].topic \in Topics \cup {None}
    BY <1>0, RequestIsTyped DEF FoldersOK, RequestType
  <2>4. work \in ThreadType /\ work.result = "none"
    BY <2>3 DEF ThreadType
  <2>5. work # None /\ thread' = [thread EXCEPT ![w] = work]
    BY <2>1, <2>4, DayAssumption
  <2> HIDE DEF work
  <2>6. thread'[w] = work /\ \A v \in Threads \ {w} : thread'[v] = thread[v]
    BY <2>5 DEF FoldersOK, TypeOK
  <2>7. w \notin Analysing /\ Analysing' = Analysing \cup {w}
    BY <2>1, <2>4, <2>5, <2>6 DEF Analysing
  <2> QED
    BY <1>2, <2>2, <2>7, PlacePassedOn
<1> QED
  BY <1>1, <1>3, <1>4

LEMMA ThreadsPlace ==
  ASSUME FoldersOK, Places, NEW w \in Threads,
         Analysed(w) \/ ThreadBusy(w) \/ NotMine(w) \/ SaveResult(w) \/ SaveRun(w)
  PROVE  Places'
<1>0. /\ thread[w] # None /\ thread[w] \in ThreadType /\ ThreadOK(w) /\ w \in Procs
      /\ \A v \in Threads \ {w} : thread'[v] = thread[v]
  BY AccountsAssumption DEF Analysed, ThreadBusy, NotMine, SaveResult, SaveRun, Mine, EndThread, FoldersOK, TypeOK, ThreadsOK
<1>1. Starting' = Starting
  BY DEF Analysed, ThreadBusy, NotMine, SaveResult, SaveRun, threadOnly, Starting
<1>2. CASE Analysed(w)
  <2>1. PICK result \in {"ok", "failed"} : thread' = [thread EXCEPT ![w].result = result] /\ thread[w].result = "none"
                                          /\ slots' = slots + 1
    BY <1>2 DEF Analysed
  <2>2. thread'[w].result = result
    BY <1>0, <2>1 DEF FoldersOK, TypeOK, ThreadType
  <2>3. w \in Analysing /\ Analysing' = Analysing \ {w}
    BY <1>0, <2>1, <2>2 DEF Analysing
  <2> QED
    BY <1>1, <2>1, <2>3, PlaceFreed
<1>3. CASE ThreadBusy(w) \/ NotMine(w) \/ SaveResult(w) \/ SaveRun(w)
  <2>1. thread[w].result # "none" /\ slots' = slots
    BY <1>0, <1>3, LockMoves DEF ThreadBusy, NotMine, SaveResult, SaveRun, Mine, ThreadOK, FoldersOK
  <2>2. thread'[w] = None \/ thread'[w].result # "none"
    <3>1. CASE SaveResult(w)
      <4>1. thread'[w] = [thread[w] EXCEPT !.saved = TRUE]
        BY <3>1 DEF SaveResult, FoldersOK, TypeOK
      <4> QED
        BY <1>0, <2>1, <4>1 DEF ThreadType
    <3>2. CASE ThreadBusy(w) \/ NotMine(w) \/ SaveRun(w)
      BY <3>2 DEF ThreadBusy, NotMine, SaveRun, EndThread, FoldersOK, TypeOK
    <3> QED
      BY <1>3, <3>1, <3>2
  <2>3. Analysing' = Analysing
    BY <1>0, <2>1, <2>2 DEF Analysing
  <2> QED
    BY <1>1, <2>1, <2>3, PlacesStay
<1> QED
  BY <1>2, <1>3

LEMMA NextPlaces ==
  ASSUME FoldersOK, Places, [Next]_vars
  PROVE  Places'
<1>1. ASSUME NEW r \in Requests,
             \/ \E k \in Keys, op \in Ops, t \in Tokens \cup {None} : Arrive(r, k, op, t)
             \/ Busy(r) \/ Enter(r) \/ Refuse(r) \/ LeaveRequest(r)
             \/ ReadAssets(r) \/ NoSuchAsset(r) \/ SignOutAll(r) \/ AddAsset(r) \/ DropAsset(r) \/ RemoveFolder(r)
             \/ Writing(r) \/ ReserveQuota(r) \/ CountUse(r) \/ StartReport(r) \/ AbandonReport(r) \/ StartThread(r)
      PROVE  Places'
  BY <1>1, RequestsPlace, ReportsPlace
<1>2. ASSUME NEW w \in Threads, Analysed(w) \/ ThreadBusy(w) \/ NotMine(w) \/ SaveResult(w) \/ SaveRun(w)
      PROVE  Places'
  BY <1>2, ThreadsPlace
<1>3. CASE WorkerDies
  <2>1. slots' = MaxSlots /\ Starting' = {} /\ Analysing' = {}
    BY <1>3 DEF WorkerDies, Starting, Analysing
  <2> QED
    BY <2>1, FS_EmptySet, AccountsAssumption DEF Places
<1>4. CASE UNCHANGED <<req, thread, slots>>
  BY <1>4, PlacesStay DEF Starting, Analysing
<1>5. CASE \/ \E b \in Browsers : Logout(b) \/ \E k \in Keys : Login(b, k)
           \/ \E t \in Tokens : SessionExpires(t)
           \/ \E k \in Keys : RunStale(k) \/ CodeExpires(k)
  BY <1>4, <1>5 DEF Logout, Login, SessionExpires, RunStale, CodeExpires, offline, threadOnly, around, researchVars
<1>6. ASSUME NEW s \in Senders,
             \/ StartSending(s) \/ AllSent(s) \/ AccountBusy(s) \/ Look(s) \/ Mail(s) \/ MailRefused(s)
             \/ SessionBreaks(s) \/ Record(s) \/ RecordFails(s) \/ LeaveAccount(s) \/ SenderDies(s)
             \/ \E k \in Keys : NextAccount(s, k)
      PROVE  Places'
  BY <1>4, <1>6 DEF StartSending, AllSent, AccountBusy, Look, Mail, MailRefused, SessionBreaks, Record, RecordFails,
                    LeaveAccount, SenderDies, NextAccount, others, researchVars
<1>7. CASE UNCHANGED content \/ UNCHANGED vars
  BY <1>4, <1>7 DEF content, vars, researchVars
<1> QED
  BY <1>1, <1>2, <1>3, <1>5, <1>6, <1>7 DEF Next, Writing

LEMMA InitPlaces == ASSUME Init PROVE Places
<1>1. slots = MaxSlots /\ Starting = {} /\ Analysing = {}
  BY DEF Init, Starting, Analysing
<1> QED
  BY <1>1, FS_EmptySet, AccountsAssumption DEF Places

(* personal_assets and personal_research: no addition that was answered is lost *)
(* to another request, a thread, the sender or a death, and no place of the      *)
(* semaphore is lost or given back twice.                                        *)
THEOREM NothingAnsweredIsLost == ASSUME Orderly, Locks # {} PROVE Spec => []NothingIsLost
<1>1. Init => Places
  BY InitPlaces
<1>2. FoldersOK /\ Places /\ [Next]_vars => Places'
  BY NextPlaces
<1>3. Spec => []Places
  BY <1>1, <1>2, Invariance, PTL DEF Spec
<1>4. FoldersOK => AcknowledgedKept
  BY DEF FoldersOK, AccountsOK, AccountOK, AcknowledgedKept
<1>5. FoldersOK /\ Places => NothingIsLost
  BY <1>4, PlacesAreSlots DEF NothingIsLost
<1> QED
  BY <1>3, <1>5, Invariance, PTL
=============================================================================

------------------------------ MODULE Accounts ------------------------------
(***************************************************************************)
(* Google accounts of the web server (services/web/accounts.py) and what   *)
(* works on an account's folder under the account lock: the newsletter     *)
(* subscription and its one-shot sender, personal research with its        *)
(* threads, assets, watchlist and advice.                                  *)
(*                                                                         *)
(* The web worker keeps sessions and login flows in memory; folders, lock  *)
(* files and the server's research quota are on disk.  A request is        *)
(* identified, takes the account lock, is identified again and works.  The *)
(* sender filters without the lock, then reads again and sends under it.   *)
(* A research thread analyses without the lock and saves under it.  The    *)
(* worker or a sender may die between any two steps; lock files stay.      *)
(*                                                                         *)
(* The model is one calendar day: counters start at zero and last_sent_on  *)
(* is today or before.  The timer sends at 08:30, so no run of the sender  *)
(* lasts until midnight.                                                   *)
(*                                                                         *)
(* Left out: names, addresses' syntax and what letters, reports and advice *)
(* say; the nested locks of assets.json, watchlist.json and the quota,     *)
(* which the account lock or one short step covers.                        *)
(***************************************************************************)
EXTENDS FileLock, FiniteSets

CONSTANTS
  Keys,             \* accounts; their locks are Locks
  Browsers, Tokens,
  Requests, Senders, Threads,
  Emails, Topics, Assets, Codes,
  Settled,          \* the files of an account that exists at the start
  None,             \* a file, session or request that does not exist
  MaxSessions,                       \* 4096
  CodesPerDay, CodeAttempts,         \* NEWSLETTER_CODES_PER_DAY, _CODE_ATTEMPTS
  MaxSlots,                          \* RESEARCH_MAX_CONCURRENT
  RunsPerDay, ServerRunsPerDay,      \* RESEARCH_MAX_DAILY, RESEARCH_SERVER_MAX_DAILY
  MaxAssets, AdvicePerDay, AdviceKept,
  MaxRequests, MaxSends, MaxDeaths   \* bounds

ASSUME AccountsAssumption ==
  /\ Procs = Requests \cup Senders \cup Threads
  /\ Locks = Keys
  /\ AdvicePerDay <= AdviceKept
  /\ MaxSlots \in Nat /\ IsFiniteSet(Requests) /\ IsFiniteSet(Threads)

VARIABLES
  session,      \* _sessions: the account of a token
  cookie,       \* cookie[b]: the session cookie of a browser
  acct,         \* acct[k]: the files of users/<key>, or None
  req,          \* requests that were identified
  thread,       \* _work: research threads
  slots,        \* free places of _SLOTS
  quota,        \* .research-usage.json
  sender,       \* newsletter.send.run
  requests, sends, deaths,   \* bounds
  \* history
  letters,      \* letters[k]: letters sent today to the subscription on file
  lapses,       \* lapses[k]: those of them no last_sent_on records
  told,         \* told[k]: alerts a letter has carried since "personal" was set
  erased,       \* tokens that an account deletion signed out
  kept          \* kept[k]: assets whose addition was answered

webVars == <<session, cookie>>
researchVars == <<thread, slots, quota>>
senderVars == <<sender, sends, letters, lapses, told>>
vars == <<lockVars, webVars, acct, req, researchVars, senderVars, deaths, requests, erased, kept>>

-----------------------------------------------------------------------------
Blank == [sub |-> None, topic |-> None, consent |-> FALSE, past |-> {}, used |-> 0,
          run |-> None, latest |-> None, assets |-> {}, watch |-> {}, advice |-> 0]

(* Writing creates the folder, reading does not *)
Folder(k) == IF acct[k] = None THEN Blank ELSE acct[k]
Sub(k) == Folder(k).sub
Write(k, folder) == acct' = [acct EXCEPT ![k] = folder]

Open == {t \in Tokens : session[t] # None}
IdleSender == [at |-> "off", todo |-> {}, key |-> None, copy |-> None, alerts |-> {}]

Init ==
  /\ LockInit
  /\ session = [t \in Tokens |-> None]
  /\ cookie = [b \in Browsers |-> None]
  /\ acct \in [Keys -> {None, Settled}]
  /\ req = [r \in Requests |-> None]
  /\ thread = [w \in Threads |-> None]
  /\ slots = MaxSlots
  /\ quota = 0
  /\ sender = [s \in Senders |-> IdleSender]
  /\ requests = 0 /\ sends = 0 /\ deaths = 0
  /\ letters = [k \in Keys |-> 0] /\ lapses = [k \in Keys |-> 0]
  /\ told = [k \in Keys |-> {}] /\ erased = {} /\ kept = [k \in Keys |-> Folder(k).assets]

-----------------------------------------------------------------------------
(* Sessions *)

offline == <<lockVars, acct, req, researchVars, senderVars, deaths, requests, kept>>

(* A login flow reaches its callback, which issues a session for the account and  *)
(* revokes the browser's old one; flows that expire or fail change nothing else.   *)
Login(b, k) ==
  /\ Cardinality(Open) < MaxSessions
  /\ \E t \in Tokens \ Open :
       /\ \A c \in Browsers \ {b} : cookie[c] # t
       /\ \A r \in Requests : req[r] # None => req[r].token # t
       /\ session' = [u \in Tokens |-> IF u = t THEN k ELSE IF u = cookie[b] THEN None ELSE session[u]]
       /\ cookie' = [cookie EXCEPT ![b] = t]
       /\ erased' = erased \ {t}
  /\ UNCHANGED offline

SignOut(t) ==
  /\ session[t] # None
  /\ session' = [session EXCEPT ![t] = None]

Logout(b) ==
  /\ cookie[b] # None
  /\ SignOut(cookie[b])
  /\ cookie' = [cookie EXCEPT ![b] = None]
  /\ UNCHANGED <<offline, erased>>

SessionExpires(t) == SignOut(t) /\ UNCHANGED <<offline, cookie, erased>>

-----------------------------------------------------------------------------
(* A request on an account *)

Ops == {"subscribe", "confirm", "personal", "cancel", "delete", "topic", "consent", "report",
        "apply", "add", "drop", "watch", "advise", "oneclick"}

(* Accounts.context: identified before the lock; one_click needs no session but a folder *)
Arrive(r, k, op, t) ==
  /\ req[r] = None
  /\ requests < MaxRequests
  /\ IF op = "oneclick" THEN t = None /\ acct[k] # None
                        ELSE t # None /\ session[t] = k
  /\ Try(r, k)
  /\ req' = [req EXCEPT ![r] = [op |-> op, key |-> k, token |-> t, step |-> "enter", topic |-> None, copy |-> {}]]
  /\ requests' = requests + 1
  /\ UNCHANGED <<webVars, acct, researchVars, senderVars, deaths, erased, kept>>

Serving(r, step) == req[r] # None /\ phase[r] = "inside" /\ req[r].step = step
Step(r, step) == req' = [req EXCEPT ![r].step = step]
Does(r, op) == Serving(r, "work") /\ req[r].op = op
Answered(r) == req' = [req EXCEPT ![r] = None]

around == <<webVars, researchVars, senderVars, deaths, requests, erased, kept>>

(* 409 or 503: the lock was not free in time *)
Busy(r) == req[r] # None /\ GiveUp(r) /\ Answered(r) /\ UNCHANGED <<around, acct>>

(* defect: the session is not looked up again under the lock *)
EnterOnce(r) ==
  /\ req[r] # None
  /\ Create(r)
  /\ Step(r, "work")
  /\ UNCHANGED <<around, acct>>

(* Inside, the session is looked up again *)
Enter(r) ==
  /\ req[r] # None
  /\ Create(r)
  /\ Step(r, IF req[r].op = "oneclick" \/ session[req[r].token] # None THEN "work" ELSE "leave")
  /\ UNCHANGED <<around, acct>>

(* An answer that changes nothing: reads, wrong input, limits, unreadable files *)
Refuse(r) == Serving(r, "work") /\ Leave(r) /\ Answered(r) /\ UNCHANGED <<around, acct>>

LeaveRequest(r) == Serving(r, "leave") /\ Leave(r) /\ Answered(r) /\ UNCHANGED <<around, acct>>

(* The requests that write one file and answer *)
Writes(r, op, folder) ==
  /\ Does(r, op)
  /\ Write(req[r].key, folder)
  /\ Step(r, "leave")
  /\ UNCHANGED <<lockVars, webVars, researchVars, sender, sends, deaths, requests, erased, kept>>

K(r) == req[r].key
F(r) == Folder(req[r].key)

(* A new address waits for its code; the memory of letters stays *)
IssueCode(old, e) ==
  [email |-> e, status |-> "pending", code |-> "live", tries |-> 0,
   codes |-> IF old = None THEN 1 ELSE old.codes + 1,
   last |-> IF old = None THEN "before" ELSE old.last,
   personal |-> old # None /\ old.personal,
   alerts |-> IF old = None THEN {} ELSE old.alerts]

Subscribe(r) == \E e \in Emails :
  /\ Does(r, "subscribe")
  /\ F(r).sub # None => F(r).sub.codes < CodesPerDay
  /\ Writes(r, "subscribe", [F(r) EXCEPT !.sub = IssueCode(@, e)])
  /\ UNCHANGED <<letters, lapses, told>>

(* The records a right and a wrong code leave; other codes are refused *)
ConfirmCode(sub) ==
  IF sub # None /\ sub.status = "pending" /\ sub.code = "live" /\ sub.tries < CodeAttempts
  THEN {[sub EXCEPT !.status = "active", !.code = "none"], [sub EXCEPT !.tries = @ + 1]} ELSE {}

Confirm(r) ==
  /\ Does(r, "confirm")
  /\ \E sub \in ConfirmCode(F(r).sub) : Writes(r, "confirm", [F(r) EXCEPT !.sub = sub])
  /\ UNCHANGED <<letters, lapses, told>>

Personal(r) == \E on \in BOOLEAN :
  /\ Does(r, "personal")
  /\ F(r).sub # None
  /\ Writes(r, "personal", [F(r) EXCEPT !.sub.personal = on, !.sub.alerts = {}])
  /\ told' = [told EXCEPT ![K(r)] = {}]
  /\ UNCHANGED <<letters, lapses>>

(* The file goes, and with it the address and the memory of today's letter *)
Forget(r, op) ==
  /\ Writes(r, op, [F(r) EXCEPT !.sub = None])
  /\ letters' = [letters EXCEPT ![K(r)] = 0]
  /\ lapses' = [lapses EXCEPT ![K(r)] = 0]
  /\ told' = [told EXCEPT ![K(r)] = {}]

Cancel(r) == Does(r, "cancel") /\ acct[K(r)] # None /\ Forget(r, "cancel")

(* unsubscribe_token binds the account and the address *)
SignedFor(sub, e) == sub # None /\ sub.email = e

OneClick(r) == \E e \in Emails :
  /\ Does(r, "oneclick")
  /\ SignedFor(F(r).sub, e)
  /\ Forget(r, "oneclick")

Topic(r) == \E t \in Topics :
  /\ Does(r, "topic")
  /\ Writes(r, "topic", [F(r) EXCEPT !.topic = t, !.past = IF t = F(r).topic THEN @ ELSE {}])
  /\ UNCHANGED <<letters, lapses, told>>

Consent(r) == \E yes \in BOOLEAN :
  /\ Does(r, "consent")
  /\ Writes(r, "consent", [F(r) EXCEPT !.consent = yes])
  /\ UNCHANGED <<letters, lapses, told>>

Watch(r) == \E items \in SUBSET Codes :
  /\ Does(r, "watch")
  /\ Writes(r, "watch", [F(r) EXCEPT !.watch = items])
  /\ UNCHANGED <<letters, lapses, told>>

(* A proposal of the last report is applied to the watchlist *)
Apply(r) == \E c \in Codes, add \in BOOLEAN :
  /\ Does(r, "apply")
  /\ F(r).latest # None
  /\ Writes(r, "apply", [F(r) EXCEPT !.watch = IF add THEN @ \cup {c} ELSE @ \ {c}, !.latest.applied = TRUE])
  /\ UNCHANGED <<letters, lapses, told>>

(* prune keeps the newest; with AdvicePerDay <= AdviceKept it removes none of today *)
Advise(r) ==
  /\ Does(r, "advise")
  /\ F(r).advice < AdvicePerDay
  /\ Writes(r, "advise", [F(r) EXCEPT !.advice = @ + 1])
  /\ UNCHANGED <<letters, lapses, told>>

(* Assets are read, changed and written back *)
ReadAssets(r) ==
  /\ Serving(r, "work")
  /\ req[r].op \in {"add", "drop"}
  /\ req' = [req EXCEPT ![r].copy = F(r).assets, ![r].step = "write"]
  /\ UNCHANGED <<lockVars, around, acct>>

WriteAssets(r, assets) ==
  /\ Write(K(r), [F(r) EXCEPT !.assets = assets])
  /\ Step(r, "leave")
  /\ UNCHANGED <<lockVars, webVars, researchVars, senderVars, deaths, requests, erased>>

AddAsset(r) ==
  /\ Serving(r, "write") /\ req[r].op = "add"
  /\ Cardinality(req[r].copy) < MaxAssets
  /\ \E a \in Assets \ (req[r].copy \cup kept[K(r)]) :
       /\ WriteAssets(r, req[r].copy \cup {a})
       /\ kept' = [kept EXCEPT ![K(r)] = @ \cup {a}]

DropAsset(r) ==
  /\ Serving(r, "write") /\ req[r].op = "drop"
  /\ \E a \in req[r].copy :
       /\ WriteAssets(r, req[r].copy \ {a})
       /\ kept' = [kept EXCEPT ![K(r)] = @ \ {a}]

NoSuchAsset(r) ==
  /\ Serving(r, "write")
  /\ req[r].op = "add" => Cardinality(req[r].copy) >= MaxAssets
  /\ Step(r, "leave")
  /\ UNCHANGED <<lockVars, around, acct>>

(* DELETE /api/account: the folder, then every session of the account *)
RemoveFolder(r) ==
  /\ Does(r, "delete")
  /\ acct' = [acct EXCEPT ![K(r)] = None]
  /\ Step(r, "signout")
  /\ letters' = [letters EXCEPT ![K(r)] = 0]
  /\ lapses' = [lapses EXCEPT ![K(r)] = 0]
  /\ told' = [told EXCEPT ![K(r)] = {}]
  /\ kept' = [kept EXCEPT ![K(r)] = {}]
  /\ UNCHANGED <<lockVars, webVars, researchVars, sender, sends, deaths, requests, erased>>

SignOutAll(r) ==
  /\ Serving(r, "signout")
  /\ session' = [t \in Tokens |-> IF session[t] = K(r) THEN None ELSE session[t]]
  /\ cookie' = [b \in Browsers |-> IF cookie[b] = req[r].token THEN None ELSE cookie[b]]
  /\ erased' = erased \cup {t \in Tokens : session[t] = K(r)}
  /\ Step(r, "leave")
  /\ UNCHANGED <<lockVars, acct, researchVars, senderVars, deaths, requests, kept>>

(* NEWSLETTER_CODE_MINUTES pass *)
CodeExpires(k) ==
  /\ Sub(k) # None /\ Sub(k).code = "live"
  /\ acct' = [acct EXCEPT ![k].sub.code = "over"]
  /\ UNCHANGED <<lockVars, req, around>>

-----------------------------------------------------------------------------
(* Personal research *)

(* A run that is marked running and not stale (_run_state) *)
Running(run) == run # None /\ run.status = "running" /\ ~run.stale

StartReport(r) ==
  /\ Does(r, "report")
  /\ F(r).consent /\ F(r).topic # None
  /\ ~Running(F(r).run)
  /\ F(r).used < RunsPerDay
  /\ slots > 0
  /\ slots' = slots - 1
  /\ req' = [req EXCEPT ![r].topic = F(r).topic, ![r].step = "quota"]
  /\ UNCHANGED <<lockVars, webVars, acct, thread, quota, senderVars, deaths, requests, erased, kept>>

(* defect: an exception keeps the place *)
AbandonWithPlace(r) ==
  /\ Serving(r, "quota") \/ Serving(r, "usage") \/ Serving(r, "mark")
  /\ Step(r, "leave")
  /\ UNCHANGED <<lockVars, around, acct>>

(* Any exception before the thread gives the place back *)
AbandonReport(r) ==
  /\ Serving(r, "quota") \/ Serving(r, "usage") \/ Serving(r, "mark")
  /\ slots' = slots + 1
  /\ Step(r, "leave")
  /\ UNCHANGED <<lockVars, webVars, acct, thread, quota, senderVars, deaths, requests, erased, kept>>

ReserveQuota(r) ==
  /\ Serving(r, "quota")
  /\ quota < ServerRunsPerDay
  /\ quota' = quota + 1
  /\ Step(r, "usage")
  /\ UNCHANGED <<lockVars, webVars, acct, thread, slots, senderVars, deaths, requests, erased, kept>>

CountUse(r) ==
  /\ Serving(r, "usage")
  /\ Write(K(r), [F(r) EXCEPT !.used = @ + 1])
  /\ Step(r, "mark")
  /\ UNCHANGED <<lockVars, webVars, researchVars, senderVars, deaths, requests, erased, kept>>

(* run.json is written and the thread starts; the thread stands for the run's id *)
StartThread(r) ==
  /\ Serving(r, "mark")
  /\ \E w \in Threads :
       /\ thread[w] = None
       /\ \A k \in Keys : acct[k] # None /\ acct[k].run # None => acct[k].run.id # w \/ k = K(r)
       /\ Write(K(r), [F(r) EXCEPT !.run = [id |-> w, status |-> "running", stale |-> FALSE]])
       /\ thread' = [thread EXCEPT ![w] = [key |-> K(r), topic |-> req[r].topic, result |-> "none", saved |-> FALSE]]
  /\ Step(r, "leave")
  /\ UNCHANGED <<lockVars, webVars, slots, quota, senderVars, deaths, requests, erased, kept>>

threadOnly == <<webVars, req, quota, senderVars, deaths, requests, erased, kept>>

(* The analysis ends, well or not; the place is free before the result is saved *)
Analysed(w) == \E result \in {"ok", "failed"}, k \in Keys :
  /\ thread[w] # None /\ thread[w].result = "none" /\ thread[w].key = k
  /\ thread' = [thread EXCEPT ![w].result = result]
  /\ slots' = slots + 1
  /\ Try(w, k)
  /\ UNCHANGED <<acct, threadOnly>>

Mine(w) == thread[w] # None /\ phase[w] = "inside"
EndThread(w) == Leave(w) /\ thread' = [thread EXCEPT ![w] = None]

ThreadBusy(w) ==
  /\ thread[w] # None
  /\ GiveUp(w)
  /\ thread' = [thread EXCEPT ![w] = None]
  /\ UNCHANGED <<acct, slots, threadOnly>>

(* defect: only the folder is looked at, not the run's id *)
CurrentFolder(w) == acct[thread[w].key] # None

(* The account is still there and run.json still names this run *)
Current(w) ==
  LET k == thread[w].key
  IN acct[k] # None /\ acct[k].run # None /\ acct[k].run.id = w

NotMine(w) == Mine(w) /\ ~thread[w].saved /\ ~Current(w) /\ EndThread(w) /\ UNCHANGED <<acct, slots, threadOnly>>

(* latest.json and history.json *)
SaveResult(w) ==
  /\ Mine(w) /\ ~thread[w].saved /\ Current(w)
  /\ thread[w].result = "ok"
  /\ Write(thread[w].key, [Folder(thread[w].key) EXCEPT
             !.latest = [id |-> w, applied |-> FALSE],
             !.past = @ \cup {thread[w].topic}])
  /\ thread' = [thread EXCEPT ![w].saved = TRUE]
  /\ UNCHANGED <<lockVars, slots, threadOnly>>

SaveRun(w) ==
  /\ Mine(w)
  /\ thread[w].saved \/ (Current(w) /\ thread[w].result = "failed")
  /\ Write(thread[w].key, [Folder(thread[w].key) EXCEPT
             !.run = [id |-> w, status |-> thread[w].result, stale |-> FALSE]])
  /\ EndThread(w)
  /\ UNCHANGED <<slots, threadOnly>>

(* RESEARCH_RUN_STALE_SECONDS pass since the run began *)
RunStale(k) ==
  /\ acct[k] # None /\ Running(acct[k].run)
  /\ acct' = [acct EXCEPT ![k].run.stale = TRUE]
  /\ UNCHANGED <<lockVars, slots, thread, threadOnly>>

-----------------------------------------------------------------------------
(* The newsletter's one-shot; a manual run may meet the timer's *)

Due(k) == Sub(k) # None /\ Sub(k).status = "active" /\ Sub(k).last = "before"

others == <<webVars, req, researchVars, deaths, requests, erased, kept>>

(* The filter without a lock *)
StartSending(s) ==
  /\ sender[s].at = "off"
  /\ sends < MaxSends
  /\ sends' = sends + 1
  /\ \E todo \in {{k \in Keys : Due(k)}} :
       /\ todo # {}
       /\ sender' = [sender EXCEPT ![s] = [IdleSender EXCEPT !.at = "next", !.todo = todo]]
  /\ UNCHANGED <<lockVars, acct, letters, lapses, told, others>>

NextAccount(s, k) ==
  /\ sender[s].at = "next"
  /\ k \in sender[s].todo
  /\ Try(s, k)
  /\ sender' = [sender EXCEPT ![s].at = "look", ![s].key = k, ![s].todo = @ \ {k}]
  /\ UNCHANGED <<acct, sends, letters, lapses, told, others>>

AllSent(s) ==
  /\ sender[s].at = "next" /\ sender[s].todo = {}
  /\ sender' = [sender EXCEPT ![s] = IdleSender]
  /\ UNCHANGED <<lockVars, acct, sends, letters, lapses, told, others>>

AccountBusy(s) ==
  /\ sender[s].at = "look"
  /\ GiveUp(s)
  /\ sender' = [sender EXCEPT ![s].at = "next"]
  /\ UNCHANGED <<acct, sends, letters, lapses, told, others>>

Sending(s, at) == sender[s].at = at /\ phase[s] = "inside"
Done(s) == sender' = [sender EXCEPT ![s].at = "leave", ![s].copy = None, ![s].alerts = {}]

(* build_watch: an alert stands for the asset it is about *)
Alerts(k) == IF Sub(k).personal THEN acct[k].assets ELSE {}

(* defect: under the lock only the existence of a subscription is looked at *)
LookSubscribed(s) ==
  LET k == sender[s].key
  IN /\ Sending(s, "look")
     /\ IF Sub(k) # None
        THEN sender' = [sender EXCEPT ![s].at = "mail", ![s].copy = Sub(k), ![s].alerts = Alerts(k)]
        ELSE Done(s)
     /\ UNCHANGED <<lockVars, acct, sends, letters, lapses, told, others>>

(* due() again, and the record that the letter is made of *)
Look(s) ==
  LET k == sender[s].key
  IN /\ Sending(s, "look")
     /\ IF Due(k)
        THEN sender' = [sender EXCEPT ![s].at = "mail", ![s].copy = Sub(k),
                                      ![s].alerts = Alerts(k)]
        ELSE Done(s)
     /\ UNCHANGED <<lockVars, acct, sends, letters, lapses, told, others>>

Mail(s) ==
  LET k == sender[s].key
  IN /\ Sending(s, "mail")
     /\ sender' = [sender EXCEPT ![s].at = "record"]
     /\ letters' = [letters EXCEPT ![k] = @ + 1]
     /\ told' = [told EXCEPT ![k] = @ \cup sender[s].alerts]
     /\ UNCHANGED <<lockVars, acct, sends, lapses, others>>

(* defect: a refused recipient is recorded like a letter *)
MailRefusedRecorded(s) ==
  /\ Sending(s, "mail")
  /\ sender' = [sender EXCEPT ![s].at = "record"]
  /\ UNCHANGED <<lockVars, acct, sends, letters, lapses, told, others>>

(* The recipient is refused: on to the next account *)
MailRefused(s) == Sending(s, "mail") /\ Done(s) /\ UNCHANGED <<lockVars, acct, sends, letters, lapses, told, others>>

(* The SMTP session breaks: the run is over *)
SessionBreaks(s) ==
  /\ Sending(s, "mail")
  /\ sender' = [sender EXCEPT ![s] = [IdleSender EXCEPT !.at = "leave"]]
  /\ UNCHANGED <<lockVars, acct, sends, letters, lapses, told, others>>

Record(s) ==
  LET k == sender[s].key
  IN /\ Sending(s, "record")
     /\ Write(k, [Folder(k) EXCEPT !.sub = [sender[s].copy EXCEPT
                    !.last = "today",
                    !.alerts = IF sender[s].copy.personal THEN sender[s].alerts ELSE @]])
     /\ Done(s)
     /\ UNCHANGED <<lockVars, sends, letters, lapses, told, others>>

Lapse(k) == lapses' = [lapses EXCEPT ![k] = @ + 1]

(* The write raises after the letter left; counted as failed *)
RecordFails(s) ==
  /\ Sending(s, "record")
  /\ Lapse(sender[s].key)
  /\ Done(s)
  /\ UNCHANGED <<lockVars, acct, sends, letters, told, others>>

LeaveAccount(s) ==
  /\ Sending(s, "leave")
  /\ Leave(s)
  /\ sender' = [sender EXCEPT ![s].at = "next"]
  /\ UNCHANGED <<acct, sends, letters, lapses, told, others>>

-----------------------------------------------------------------------------
(* Deaths, stale locks and days *)

SenderDies(s) ==
  /\ sender[s].at # "off"
  /\ deaths < MaxDeaths /\ deaths' = deaths + 1
  /\ Die({s})
  /\ IF sender[s].at = "record" THEN Lapse(sender[s].key) ELSE UNCHANGED lapses
  /\ sender' = [sender EXCEPT ![s] = IdleSender]
  /\ UNCHANGED <<webVars, acct, req, researchVars, sends, letters, told, requests, erased, kept>>

(* The worker restarts: sessions, flows, places and threads are gone *)
WorkerDies ==
  /\ deaths < MaxDeaths /\ deaths' = deaths + 1
  /\ Die(Requests \cup Threads)
  /\ session' = [t \in Tokens |-> None]
  /\ req' = [r \in Requests |-> None]
  /\ thread' = [w \in Threads |-> None]
  /\ slots' = MaxSlots
  /\ UNCHANGED <<cookie, acct, quota, senderVars, requests, erased, kept>>

content == <<webVars, acct, req, researchVars, senderVars, deaths, requests, erased, kept>>

Next ==
  \/ \E b \in Browsers : Logout(b) \/ \E k \in Keys : Login(b, k)
  \/ \E t \in Tokens : SessionExpires(t)
  \/ \E r \in Requests, k \in Keys, op \in Ops, t \in Tokens \cup {None} : Arrive(r, k, op, t)
  \/ \E r \in Requests :
       \/ Busy(r) \/ Enter(r) \/ Refuse(r) \/ LeaveRequest(r)
       \/ Subscribe(r) \/ Confirm(r) \/ Personal(r) \/ Cancel(r) \/ OneClick(r)
       \/ Topic(r) \/ Consent(r) \/ Watch(r) \/ Apply(r) \/ Advise(r)
       \/ ReadAssets(r) \/ AddAsset(r) \/ DropAsset(r) \/ NoSuchAsset(r)
       \/ RemoveFolder(r) \/ SignOutAll(r)
       \/ StartReport(r) \/ AbandonReport(r) \/ ReserveQuota(r) \/ CountUse(r) \/ StartThread(r)
  \/ \E w \in Threads : Analysed(w) \/ ThreadBusy(w) \/ NotMine(w) \/ SaveResult(w) \/ SaveRun(w)
  \/ \E k \in Keys : RunStale(k) \/ CodeExpires(k)
  \/ \E s \in Senders :
       \/ StartSending(s) \/ AllSent(s) \/ AccountBusy(s) \/ Look(s) \/ Mail(s) \/ MailRefused(s)
       \/ SessionBreaks(s) \/ Record(s) \/ RecordFails(s) \/ LeaveAccount(s) \/ SenderDies(s)
       \/ \E k \in Keys : NextAccount(s, k)
  \/ WorkerDies
  \/ \E p \in Senders \cup Threads : Create(p) /\ UNCHANGED content
  \/ \E p \in Procs : (FindStale(p) \/ Break(p)) /\ UNCHANGED content
  \/ \E l \in Locks : Age(l) /\ UNCHANGED content

Spec == Init /\ [][Next]_vars

-----------------------------------------------------------------------------
SubType ==
  [email : Emails, status : {"pending", "active"}, code : {"live", "over", "none"}, tries : Nat, codes : Nat,
   last : {"before", "today"}, personal : BOOLEAN, alerts : SUBSET Assets]
RunType == [id : Threads, status : {"running", "ok", "failed"}, stale : BOOLEAN]
LatestType == [id : Threads, applied : BOOLEAN]
FolderType ==
  [sub : SubType \cup {None}, topic : Topics \cup {None}, consent : BOOLEAN, past : SUBSET (Topics \cup {None}),
   used : Nat, run : RunType \cup {None}, latest : LatestType \cup {None},
   assets : SUBSET Assets, watch : SUBSET Codes, advice : Nat]
RequestType ==
  [op : Ops, key : Keys, token : Tokens \cup {None}, topic : Topics \cup {None}, copy : SUBSET Assets,
   step : {"enter", "work", "write", "signout", "quota", "usage", "mark", "leave"}]
ThreadType ==
  [key : Keys, topic : Topics \cup {None}, result : {"none", "ok", "failed"}, saved : BOOLEAN]
SenderType ==
  [at : {"off", "next", "look", "mail", "record", "leave"}, todo : SUBSET Keys, key : Keys \cup {None},
   copy : SubType \cup {None}, alerts : SUBSET Assets]

(* The day starts with accounts whose files are in order, before its letters; a   *)
(* request, a sender and a thread are different things.                            *)
ASSUME DayAssumption ==
  /\ Settled \in FolderType
  /\ Settled.sub # None =>
       /\ Settled.sub.last = "before" /\ Settled.sub.alerts = {}
       /\ Settled.sub.status = "active" => Settled.sub.code # "live"
  /\ None \notin FolderType /\ None \notin SubType /\ None \notin RunType /\ None \notin LatestType
  /\ None \notin RequestType /\ None \notin ThreadType /\ None \notin Keys
  /\ Requests \cap Senders = {} /\ Requests \cap Threads = {} /\ Senders \cap Threads = {}

(* The files of the accounts and what requests, threads and senders remember. *)
TypeOK ==
  /\ LockTypeOK
  /\ session \in [Tokens -> Keys \cup {None}]
  /\ acct \in [Keys -> FolderType \cup {None}]
  /\ req \in [Requests -> RequestType \cup {None}]
  /\ thread \in [Threads -> ThreadType \cup {None}]
  /\ sender \in [Senders -> SenderType]
  /\ letters \in [Keys -> Nat] /\ lapses \in [Keys -> Nat]
  /\ told \in [Keys -> SUBSET Assets] /\ kept \in [Keys -> SUBSET Assets]
  /\ erased \subseteq Tokens

(* However often the one-shot runs in a day, by timer or by hand, an account *)
(* gets one letter, and one more for each whose record was lost (send.py).   *)
OneLetterADay == \A k \in Keys : letters[k] <= 1 + lapses[k]

(* What the file says was sent has been sent: last_sent_on and alerts_sent   *)
(* never run ahead of the letters.                                           *)
RecordedWasSent ==
  \A k \in Keys : Sub(k) # None =>
    /\ Sub(k).last = "today" => letters[k] >= 1
    /\ Sub(k).alerts \subseteq told[k]

(* A rerun of the one-shot sends nothing again, and no record of a letter runs  *)
(* ahead of it: only a record that was lost is followed by a second letter.     *)
LettersAreRecorded == OneLetterADay /\ RecordedWasSent

(* A letter leaves for the address that is on file and confirmed at that     *)
(* moment, whatever cancelled, changed or deleted it since the filter.       *)
ConfirmedAddressOnly ==
  [][\A s \in Senders : sender[s].at = "mail" /\ sender'[s].at = "record" =>
       LET sub == Sub(sender[s].key)
       IN sub # None /\ sub.status = "active" /\ sub.email = sender[s].copy.email]_vars

(* After DELETE /api/account nothing brings the folder back but a request    *)
(* that signed in anew: no research thread, no sender, no request that was   *)
(* waiting for the lock with a session of the deleted account.               *)
NoResurrection ==
  [][\A k \in Keys : acct[k] = None /\ acct'[k] # None =>
       \E r \in Requests : /\ req[r] # None /\ Inside(r, k)
                            /\ req[r].op # "oneclick" /\ req[r].token \notin erased]_vars

(* Each place of the semaphore is free, with a request that is starting a    *)
(* run, or with a thread that analyses: none is lost or given back twice.    *)
SlotsBalanced ==
  slots + Cardinality({w \in Threads : thread[w] # None /\ thread[w].result = "none"})
        + Cardinality({r \in Requests : req[r] # None /\ req[r].step \in {"quota", "usage", "mark"}}) = MaxSlots

(* A run that went stale and was followed by another does not end the other: *)
(* run.json passes to another run only by its start.                         *)
RunsEndThemselves ==
  [][\A k \in Keys :
       Folder(k).run # None /\ acct'[k] # None /\ acct'[k].run # None /\ acct'[k].run.id # acct[k].run.id
         => acct'[k].run.status = "running"]_vars

(* An asset whose addition was answered is on file until it is dropped.      *)
AcknowledgedKept == \A k \in Keys : Folder(k).assets = kept[k]

(* Deaths, refusals and races lose neither a place for a research run nor an    *)
(* asset whose addition was answered.                                           *)
NothingIsLost == SlotsBalanced /\ AcknowledgedKept

(* personal_research.py: when the topic changes, earlier analyses are not    *)
(* compared any more.  A run that was started before the change breaks it.   *)
HistoryOfTopic == \A k \in Keys : Folder(k).past \subseteq {Folder(k).topic}
=============================================================================

----------------------------- MODULE ShortsGate -----------------------------
(***************************************************************************)
(* The publication gate of one production day of the shorts program        *)
(* (shorts/src/polymarket_shorts): producing and revising a video, offering*)
(* its script to the operator over Telegram, approving, holding, the one   *)
(* hour timer, and the resumable upload to YouTube.                        *)
(*                                                                         *)
(* Every CLI process takes the non-blocking ".workflow.lock" of the day    *)
(* (review.operation_lock) and is turned away while another one holds it,  *)
(* so at most one operation, `op`, is under way; the steps of an operation *)
(* are its atomic file writes and its network calls.  Abort may end it     *)
(* between any two of them: an exception, the runner's time limit that     *)
(* kills the process, a power cut.  The OS then drops the lock and what was*)
(* written stays.                                                          *)
(*                                                                         *)
(* A version is one finished production.  Version numbers stand for the    *)
(* bytes of a file: video[f] = v says that the mp4 in folder f is the one  *)
(* of version v.  Folder 0 is the day's folder, folder v > 0 is            *)
(* revisions/<uuid> of the revision v.                                     *)
(***************************************************************************)
EXTENDS Naturals, Sequences

CONSTANTS
  MaxVersions,   \* bound: productions and revisions of the day
  MaxSessions,   \* bound: upload sessions opened at YouTube
  MaxAborts,     \* bound: operations that are cut short
  AutoPublish    \* settings.auto_publish

ASSUME ShortsAssumption ==
  /\ MaxVersions \in Nat
  /\ MaxSessions \in Nat
  /\ MaxAborts \in Nat
  /\ AutoPublish \in BOOLEAN

VARIABLES
  \* files of the day's folder and of its revisions
  scenario,      \* scenario[f]: version in f/scenario.json (0: no file)
  video,         \* video[f]: version in f/*.mp4
  script,        \* script[f]: version in f/review.md
  review,        \* review[f]: version recorded in f/review.json
  status,        \* status[f]: "status" of f/review.json
  made,          \* state.json lists the day
  current,       \* folder named by workflow.json
  gate,          \* approval.json
  upload,        \* upload[v]: entry of version v in its folder's upload.json
  recorded,      \* versions whose video_id was saved, oldest first
  public,        \* version named by storage/public/shorts/ko.json (0: none)
  \* processes
  versions,      \* number of versions begun so far
  op,            \* the operation that holds .workflow.lock
  queued,        \* a finished production still has to call approval.register
  poll,          \* the bot's poll_reviews job
  aborts,
  \* YouTube (external)
  sessions,      \* number of upload sessions opened
  expired,       \* sessions YouTube has forgotten
  live,          \* videos that exist on the channel
  \* what the operator has seen and said
  inbox,         \* tokens whose whole script was sent to Telegram
  consent,       \* tokens the operator approved
  held           \* tokens put on hold and not approved since

files == <<scenario, video, script, review, status, made, current>>
uploads == <<upload, recorded, public>>
youtube == <<sessions, expired, live>>
operator == <<inbox, consent, held>>
vars == <<files, gate, uploads, versions, op, queued, poll, aborts, youtube, operator>>

-----------------------------------------------------------------------------
Versions == 1..MaxVersions
Folders == 0..MaxVersions
Sessions == 1..MaxSessions

(* The parts of a fingerprint: the folder, the identity in review.json, and *)
(* the bytes of scenario.json and review.md.                                *)
Tokens == [folder : Folders, review : Folders, scenario : Folders, script : Folders]

Fingerprint(f) ==
  [folder |-> f, review |-> review[f], scenario |-> scenario[f], script |-> script[f]]

CurrentToken == Fingerprint(current)

(* _fingerprint refuses a target whose review.json is missing or superseded *)
Readable == status[current] \in {"pending", "reviewed"}

GateExists == gate.state # "none"

(* defect: the token is compared with the gate only, not with the files      *)
CheckedGateOnly(t) == GateExists /\ Readable /\ gate.token = t

(* approval._checked *)
Checked(t) == GateExists /\ Readable /\ gate.token = t /\ t = CurrentToken

NewGate(t) ==
  [state |-> "pending", token |-> t, delivered |-> FALSE, timer |-> "off", reason |-> "none"]

(* approval.register: the same fingerprint keeps its gate *)
Registered ==
  IF GateExists /\ gate.token = CurrentToken THEN gate ELSE NewGate(CurrentToken)

Idle == [pc |-> "idle", v |-> 0, old |-> 0, sid |-> 0, gated |-> FALSE, shown |-> FALSE]

LockFree == op.pc = "idle"

At(step) == op.pc = step
Goto(step) == op' = [op EXCEPT !.pc = step]

(* The folder that holds the upload.json of version v                        *)
FolderOf(v) == IF review[v] = v THEN v ELSE 0

HasVideo(v) == v \in Versions /\ upload[v].state = "video"

(* approval._other_uploaded *)
OtherUploaded == \E v \in Versions : HasVideo(v) /\ v # review[current]

NoToken == [folder |-> 0, review |-> 0, scenario |-> 0, script |-> 0]

-----------------------------------------------------------------------------
Init ==
  /\ scenario = [f \in Folders |-> 0]
  /\ video = [f \in Folders |-> 0]
  /\ script = [f \in Folders |-> 0]
  /\ review = [f \in Folders |-> 0]
  /\ status = [f \in Folders |-> "none"]
  /\ made = FALSE
  /\ current = 0
  /\ gate = [state |-> "none", token |-> NoToken, delivered |-> FALSE, timer |-> "off",
             reason |-> "none"]
  /\ upload = [v \in Versions |-> [state |-> "none", sid |-> 0]]
  /\ recorded = <<>>
  /\ public = 0
  /\ versions = 0
  /\ op = Idle
  /\ queued = FALSE
  /\ poll = [pc |-> "idle", token |-> NoToken]
  /\ aborts = 0
  /\ sessions = 0
  /\ expired = {}
  /\ live = {}
  /\ inbox = {}
  /\ consent = {}
  /\ held = {}

-----------------------------------------------------------------------------
(* produce_daily: the day's folder is rewritten in place, file by file.     *)

(* A production begins and saves its scenario.json.  A day already listed   *)
(* in state.json is produced again only with --force.                       *)
ProduceScenario ==
  /\ LockFree
  /\ versions < MaxVersions
  /\ versions' = versions + 1
  /\ scenario' = [scenario EXCEPT ![0] = versions + 1]
  /\ op' = [Idle EXCEPT !.pc = "render", !.v = versions + 1]
  /\ UNCHANGED <<video, script, review, status, made, current, gate, uploads, queued, poll,
                 aborts, youtube, operator>>

ProduceVideo ==
  /\ At("render")
  /\ video' = [video EXCEPT ![0] = op.v]
  /\ Goto("script")
  /\ UNCHANGED <<scenario, script, review, status, made, current, gate, uploads, versions,
                 queued, poll, aborts, youtube, operator>>

ProduceScript ==
  /\ At("script")
  /\ script' = [script EXCEPT ![0] = op.v]
  /\ Goto("record")
  /\ UNCHANGED <<scenario, video, review, status, made, current, gate, uploads, versions,
                 queued, poll, aborts, youtube, operator>>

ProduceReview ==
  /\ At("record")
  /\ review' = [review EXCEPT ![0] = op.v]
  /\ status' = [status EXCEPT ![0] = "pending"]
  /\ Goto("mark")
  /\ UNCHANGED <<scenario, video, script, made, current, gate, uploads, versions, queued,
                 poll, aborts, youtube, operator>>

ProduceMark ==
  /\ At("mark")
  /\ made' = TRUE
  /\ Goto("point")
  /\ UNCHANGED <<scenario, video, script, review, status, current, gate, uploads, versions,
                 queued, poll, aborts, youtube, operator>>

(* workflow.json goes back to the original; --interactive does not register *)
ProducePoint ==
  /\ At("point")
  /\ current' = 0
  /\ op' = Idle
  /\ queued' \in BOOLEAN
  /\ UNCHANGED <<scenario, video, script, review, status, made, gate, uploads, versions,
                 poll, aborts, youtube, operator>>

(* A run without --force finds the day produced and only registers it.      *)
AlreadyProduced ==
  /\ LockFree
  /\ made
  /\ status[current] # "none"
  /\ queued' = TRUE
  /\ UNCHANGED <<files, gate, uploads, versions, op, poll, aborts, youtube, operator>>

(* approval.register after the production let go of the lock                *)
Register ==
  /\ LockFree
  /\ queued
  /\ queued' = FALSE
  /\ gate' = IF Readable THEN Registered ELSE gate
  /\ UNCHANGED <<files, uploads, versions, op, poll, aborts, youtube, operator>>

(* The process ends before its register call.                               *)
Unqueue ==
  /\ queued
  /\ queued' = FALSE
  /\ UNCHANGED <<files, gate, uploads, versions, op, poll, aborts, youtube, operator>>

-----------------------------------------------------------------------------
(* poll_reviews, once a minute: list, send the script, acknowledge, tick.   *)

(* approval.pending registers again a finished version whose gate was never *)
(* written.                                                                 *)
Repaired ==
  IF gate.token # CurrentToken /\ status[current] = "pending"
  THEN NewGate(CurrentToken) ELSE gate

PollList ==
  /\ poll.pc = "idle"
  /\ LockFree
  /\ GateExists
  /\ Readable
  /\ Repaired.token = CurrentToken
  /\ Repaired.state = "pending"
  /\ ~Repaired.delivered
  /\ gate' = Repaired
  /\ poll' = [pc |-> "send", token |-> CurrentToken]
  /\ UNCHANGED <<files, uploads, versions, op, queued, aborts, youtube, operator>>

PollSend ==
  /\ poll.pc = "send"
  /\ inbox' = inbox \cup {poll.token}
  /\ poll' = [poll EXCEPT !.pc = "ack"]
  /\ UNCHANGED <<files, gate, uploads, versions, op, queued, aborts, youtube, consent, held>>

(* approval.acknowledge starts the clock of the token it was given          *)
PollAck ==
  /\ poll.pc = "ack"
  /\ LockFree
  /\ gate' = IF Checked(poll.token) /\ gate.state = "pending" /\ ~gate.delivered
             THEN [gate EXCEPT !.delivered = TRUE, !.timer = "running"] ELSE gate
  /\ poll' = [pc |-> "idle", token |-> NoToken]
  /\ UNCHANGED <<files, uploads, versions, op, queued, aborts, youtube, operator>>

(* A message or an acknowledgement fails, or the bot restarts.              *)
PollFail ==
  /\ poll.pc # "idle"
  /\ aborts < MaxAborts
  /\ aborts' = aborts + 1
  /\ poll' = [pc |-> "idle", token |-> NoToken]
  /\ UNCHANGED <<files, gate, uploads, versions, op, queued, youtube, operator>>

(* The deadline of the gate passes.                                         *)
DeadlinePasses ==
  /\ gate.timer = "running"
  /\ gate' = [gate EXCEPT !.timer = "expired"]
  /\ UNCHANGED <<files, uploads, versions, op, queued, poll, aborts, youtube, operator>>

Due ==
  /\ AutoPublish
  /\ gate.state = "pending"
  /\ gate.delivered
  /\ gate.timer = "expired"

(* defect: an approval that was interrupted is not taken up again            *)
RipeOnce == Due

(* tick acts on an expired timer and on an approval that was not finished    *)
Ripe == Due \/ gate.state = "approved"

Timed == Due \/ gate.reason = "timeout"

ApprovedGate(reason) ==
  IF gate.state = "approved" THEN gate
  ELSE [gate EXCEPT !.state = "approved", !.reason = reason]

StartPublish == op' = [Idle EXCEPT !.pc = "review", !.v = review[current], !.gated = TRUE]

TickPublish ==
  /\ LockFree
  /\ Checked(gate.token)
  /\ Ripe
  /\ ~(Timed /\ OtherUploaded)
  /\ gate' = ApprovedGate("timeout")
  /\ StartPublish
  /\ UNCHANGED <<files, uploads, versions, queued, poll, aborts, youtube, operator>>

TickHold ==
  /\ LockFree
  /\ Checked(gate.token)
  /\ Ripe
  /\ Timed /\ OtherUploaded
  /\ gate' = [gate EXCEPT !.state = "paused", !.timer = "off"]
  /\ UNCHANGED <<files, uploads, versions, op, queued, poll, aborts, youtube, operator>>

Tick == TickPublish \/ TickHold

-----------------------------------------------------------------------------
(* The operator: buttons and commands carry the token they were shown with, *)
(* however old it is.                                                       *)

Approve(t) ==
  /\ LockFree
  /\ Checked(t)
  /\ gate.state # "uploaded"
  /\ gate' = ApprovedGate("explicit")
  /\ consent' = consent \cup {t}
  /\ held' = held \ {t}
  /\ StartPublish
  /\ UNCHANGED <<files, uploads, versions, queued, poll, aborts, youtube, inbox>>

(* approval.pause, alone or as the first step of an edit (workflow._hold)   *)
Hold(t, next) ==
  /\ LockFree
  /\ Checked(t)
  /\ gate.state # "uploaded"
  /\ ~HasVideo(review[current])
  /\ gate' = [gate EXCEPT !.state = "paused", !.timer = "off"]
  /\ held' = held \cup {t}
  /\ op' = [Idle EXCEPT !.pc = next, !.gated = TRUE]
  /\ UNCHANGED <<files, uploads, versions, queued, poll, aborts, youtube, inbox, consent>>

Pause(t) == Hold(t, "hold")

Revise(t) == Hold(t, "holdEdit")

(* the second write of approval.pause                                       *)
HoldReview ==
  /\ At("hold") \/ At("holdEdit")
  /\ status' = [status EXCEPT ![current] = "pending"]
  /\ op' = IF At("hold") THEN Idle ELSE [op EXCEPT !.pc = "edit"]
  /\ UNCHANGED <<scenario, video, script, review, made, current, gate, uploads, versions,
                 queued, poll, aborts, youtube, operator>>

(* An edit of a day that was never registered has no gate to hold.          *)
ReviseUngated ==
  /\ LockFree
  /\ ~GateExists
  /\ Readable
  /\ op' = [Idle EXCEPT !.pc = "edit"]
  /\ UNCHANGED <<files, gate, uploads, versions, queued, poll, aborts, youtube, operator>>

(* The model's patch changes nothing: the gate stays on hold.               *)
EditNothing ==
  /\ At("edit")
  /\ op' = Idle
  /\ queued' \in BOOLEAN
  /\ UNCHANGED <<files, gate, uploads, versions, poll, aborts, youtube, operator>>

(* defect: the old version is retired before the new one exists              *)
EditBeginRetires ==
  /\ At("edit")
  /\ versions < MaxVersions
  /\ status' = [status EXCEPT ![current] = "superseded"]
  /\ Goto("draft")
  /\ UNCHANGED <<scenario, video, script, review, made, current, gate, uploads, versions,
                 queued, poll, aborts, youtube, operator>>

EditBegin ==
  /\ At("edit")
  /\ versions < MaxVersions
  /\ status' = [status EXCEPT ![current] = "pending"]
  /\ Goto("draft")
  /\ UNCHANGED <<scenario, video, script, review, made, current, gate, uploads, versions,
                 queued, poll, aborts, youtube, operator>>

(* produce_revision fills a folder nobody reads before workflow.json names it *)
EditRender ==
  /\ At("draft")
  /\ versions < MaxVersions
  /\ LET v == versions + 1 IN
       /\ versions' = v
       /\ scenario' = [scenario EXCEPT ![v] = v]
       /\ video' = [video EXCEPT ![v] = v]
       /\ script' = [script EXCEPT ![v] = v]
       /\ review' = [review EXCEPT ![v] = v]
       /\ status' = [status EXCEPT ![v] = "pending"]
       /\ op' = [op EXCEPT !.pc = "switch", !.v = v, !.old = current]
  /\ UNCHANGED <<made, current, gate, uploads, queued, poll, aborts, youtube, operator>>

EditSwitch ==
  /\ At("switch")
  /\ current' = op.v
  /\ Goto("retire")
  /\ UNCHANGED <<scenario, video, script, review, status, made, gate, uploads, versions,
                 queued, poll, aborts, youtube, operator>>

EditRetire ==
  /\ At("retire")
  /\ status' = [status EXCEPT ![op.old] = "superseded"]
  /\ Goto("requeue")
  /\ UNCHANGED <<scenario, video, script, review, made, current, gate, uploads, versions,
                 queued, poll, aborts, youtube, operator>>

(* A gated edit registers before it lets go of the lock; the CLI panel then *)
(* calls register once more (_panel).                                       *)
EditRegister ==
  /\ At("requeue")
  /\ gate' = IF op.gated THEN Registered ELSE gate
  /\ op' = Idle
  /\ queued' \in BOOLEAN
  /\ UNCHANGED <<files, uploads, versions, poll, aborts, youtube, operator>>

(* complete_review from the local console, which does not touch the gate.   *)
(* Where no gate exists it is the operator's word for an upload.            *)
Complete ==
  /\ LockFree
  /\ status[current] # "none"
  /\ status' = [status EXCEPT ![current] = "reviewed"]
  /\ consent' = IF GateExists THEN consent ELSE consent \cup {CurrentToken}
  /\ UNCHANGED <<scenario, video, script, review, made, current, gate, uploads, versions, op,
                 queued, poll, aborts, youtube, inbox, held>>

(* --upload                                                                 *)
ManualUpload ==
  /\ LockFree
  /\ GateExists => Checked(gate.token) /\ gate.state \in {"approved", "uploaded"}
  /\ status[current] # "none"
  /\ op' = [Idle EXCEPT !.pc = "check", !.v = review[current]]
  /\ UNCHANGED <<files, gate, uploads, versions, queued, poll, aborts, youtube, operator>>

-----------------------------------------------------------------------------
(* _publish and upload, under the lock of the operation that called them.   *)

PublishReview ==
  /\ At("review")
  /\ status' = [status EXCEPT ![current] = "reviewed"]
  /\ Goto("check")
  /\ UNCHANGED <<scenario, video, script, review, made, current, gate, uploads, versions,
                 queued, poll, aborts, youtube, operator>>

(* defect: the digest of the video is not compared                           *)
UploadableNoDigest ==
  /\ GateExists => gate.state \in {"approved", "uploaded"}
  /\ status[current] = "reviewed"

(* upload() looks at the gate, at review.json and at the video's digest     *)
Uploadable ==
  /\ GateExists => gate.state \in {"approved", "uploaded"}
  /\ status[current] = "reviewed"
  /\ video[current] = review[current]

(* defect: _publish does not look at the status upload returned              *)
RefuseIgnored ==
  /\ At("check")
  /\ ~Uploadable
  /\ Goto("close")
  /\ UNCHANGED <<files, gate, uploads, versions, queued, poll, aborts, youtube, operator>>

Refuse ==
  /\ At("check")
  /\ ~Uploadable
  /\ op' = Idle
  /\ UNCHANGED <<files, gate, uploads, versions, queued, poll, aborts, youtube, operator>>

AlreadyUploaded ==
  /\ At("check")
  /\ Uploadable
  /\ upload[op.v].state = "video"
  /\ Goto("close")
  /\ UNCHANGED <<files, gate, uploads, versions, queued, poll, aborts, youtube, operator>>

ResumeSession ==
  /\ At("check")
  /\ Uploadable
  /\ upload[op.v].state = "session"
  /\ op' = [op EXCEPT !.pc = "send", !.sid = upload[op.v].sid]
  /\ UNCHANGED <<files, gate, uploads, versions, queued, poll, aborts, youtube, operator>>

OpenSession ==
  /\ At("check")
  /\ Uploadable
  /\ upload[op.v].state = "none"
  /\ sessions < MaxSessions
  /\ sessions' = sessions + 1
  /\ op' = [op EXCEPT !.pc = "session", !.sid = sessions + 1]
  /\ UNCHANGED <<files, gate, uploads, versions, queued, poll, aborts, expired, live, operator>>

(* defect: the session is kept in memory only                                *)
SaveSessionNowhere ==
  /\ At("session")
  /\ Goto("send")
  /\ UNCHANGED <<files, gate, uploads, versions, queued, poll, aborts, youtube, operator>>

(* defect: the entry is marked as uploaded before the transfer               *)
SaveSessionAsVideo ==
  /\ At("session")
  /\ upload' = [upload EXCEPT ![op.v] = [state |-> "video", sid |-> op.sid]]
  /\ Goto("send")
  /\ UNCHANGED <<files, gate, recorded, public, versions, queued, poll, aborts, youtube,
                 operator>>

SaveSession ==
  /\ At("session")
  /\ upload' = [upload EXCEPT ![op.v] = [state |-> "session", sid |-> op.sid]]
  /\ Goto("send")
  /\ UNCHANGED <<files, gate, recorded, public, versions, queued, poll, aborts, youtube,
                 operator>>

(* The last byte arrives and YouTube publishes; asking a finished session    *)
(* again returns the same video.  The answer may still be lost (Abort).      *)
Transfer ==
  /\ At("send")
  /\ op.sid \notin expired
  /\ live' = live \cup {[version |-> op.v, content |-> video[current], sid |-> op.sid]}
  /\ Goto("confirm")
  /\ UNCHANGED <<files, gate, uploads, versions, queued, poll, aborts, sessions, expired,
                 operator>>

(* A forgotten session answers 404: upload raises and its entry stays.       *)
TransferRefused ==
  /\ At("send")
  /\ op.sid \in expired
  /\ op' = Idle
  /\ UNCHANGED <<files, gate, uploads, versions, queued, poll, aborts, youtube, operator>>

SaveVideo ==
  /\ At("confirm")
  /\ upload' = [upload EXCEPT ![op.v] = [state |-> "video", sid |-> op.sid]]
  /\ recorded' = Append(recorded, op.v)
  /\ Goto("latest")
  /\ UNCHANGED <<files, gate, public, versions, queued, poll, aborts, youtube, operator>>

(* publish_latest reads the upload.json of the day's own folder             *)
OwnUploads == {i \in DOMAIN recorded : recorded[i] \in Versions /\ FolderOf(recorded[i]) = 0}

PublishLatest ==
  /\ At("latest")
  /\ \/ /\ OwnUploads = {}
        /\ public' = public
     \/ \E i \in OwnUploads :
          /\ \A j \in OwnUploads : j <= i
          /\ public' = recorded[i]
  /\ op' = [op EXCEPT !.pc = "close", !.shown = TRUE]
  /\ UNCHANGED <<files, gate, upload, recorded, versions, queued, poll, aborts, youtube,
                 operator>>

(* Writing the public file fails: the upload stands.                        *)
PublishLatestFails ==
  /\ At("latest")
  /\ Goto("close")
  /\ UNCHANGED <<files, gate, uploads, versions, queued, poll, aborts, youtube, operator>>

Close ==
  /\ At("close")
  /\ gate' = IF op.gated THEN [gate EXCEPT !.state = "uploaded"] ELSE gate
  /\ op' = Idle
  /\ UNCHANGED <<files, uploads, versions, queued, poll, aborts, youtube, operator>>

-----------------------------------------------------------------------------
Abort ==
  /\ ~LockFree
  /\ aborts < MaxAborts
  /\ aborts' = aborts + 1
  /\ op' = Idle
  /\ UNCHANGED <<files, gate, uploads, versions, queued, poll, youtube, operator>>

(* YouTube forgets a session: 404 from then on.                             *)
ExpireSession ==
  \E s \in 1..sessions :
    /\ s \notin expired
    /\ expired' = expired \cup {s}
    /\ UNCHANGED <<files, gate, uploads, versions, op, queued, poll, aborts, sessions, live,
                   operator>>

Produce == \/ ProduceScenario \/ ProduceVideo \/ ProduceScript \/ ProduceReview
           \/ ProduceMark \/ ProducePoint \/ AlreadyProduced \/ Register \/ Unqueue

Poll == PollList \/ PollSend \/ PollAck \/ PollFail \/ DeadlinePasses \/ Tick

Command == \/ \E t \in inbox \cup {gate.token} : Approve(t) \/ Pause(t) \/ Revise(t)
           \/ ReviseUngated \/ Complete \/ ManualUpload

Edit == \/ HoldReview \/ EditNothing \/ EditBegin \/ EditRender \/ EditSwitch \/ EditRetire
        \/ EditRegister

Publish == \/ PublishReview \/ Refuse \/ AlreadyUploaded \/ ResumeSession \/ OpenSession
           \/ SaveSession \/ Transfer \/ TransferRefused \/ SaveVideo \/ PublishLatest \/ PublishLatestFails
           \/ Close

Next == Produce \/ Poll \/ Command \/ Edit \/ Publish \/ Abort \/ ExpireSession

Spec == Init /\ [][Next]_vars

-----------------------------------------------------------------------------
(* Properties                                                               *)

Steps == {"idle", "render", "script", "record", "mark", "point", "hold", "holdEdit", "edit",
          "draft", "switch", "retire", "requeue", "review", "check", "session", "send",
          "confirm", "latest", "close"}

States == {"none", "pending", "paused", "approved", "uploaded"}

GateType == [state : States, token : Tokens, delivered : BOOLEAN,
             timer : {"off", "running", "expired"}, reason : {"none", "explicit", "timeout"}]
OpType == [pc : Steps, v : Folders, old : Folders, sid : 0..MaxSessions, gated : BOOLEAN,
           shown : BOOLEAN]
PollType == [pc : {"idle", "send", "ack"}, token : Tokens]
EntryType == [state : {"none", "session", "video"}, sid : 0..MaxSessions]
VideoType == [version : Folders, content : Folders, sid : 0..MaxSessions]

FilesOK ==
  /\ scenario \in [Folders -> Folders]
  /\ video \in [Folders -> Folders]
  /\ script \in [Folders -> Folders]
  /\ review \in [Folders -> Folders]
  /\ status \in [Folders -> {"none", "pending", "reviewed", "superseded"}]
  /\ made \in BOOLEAN
  /\ current \in Folders

UploadsOK ==
  /\ upload \in [Versions -> EntryType]
  /\ recorded \in Seq(Folders)
  /\ public \in Folders

JobsOK ==
  /\ versions \in Folders
  /\ queued \in BOOLEAN
  /\ aborts \in 0..MaxAborts

YouTubeOK ==
  /\ sessions \in 0..MaxSessions
  /\ expired \subseteq Sessions
  /\ live \subseteq VideoType

OperatorOK == inbox \subseteq Tokens /\ consent \subseteq Tokens /\ held \subseteq Tokens

(* Every file, every process and every history variable stays in its range.  *)
TypeOK ==
  /\ FilesOK
  /\ gate \in GateType
  /\ UploadsOK
  /\ op \in OpType
  /\ poll \in PollType
  /\ JobsOK
  /\ YouTubeOK
  /\ OperatorOK

(* youtube.py: "a lost answer is resumed in the same session, so nothing is  *)
(* posted twice".  However operations are cut short and retried, a version   *)
(* has at most one video on the channel.                                     *)
OneVideoPerVersion == \A a, b \in live : a.version = b.version => a = b

(* A token speaks for the video when it names its version and its script is  *)
(* the script of the bytes that are sent.                                    *)
Names(t, a) == t.review = a.version /\ t.script = a.content

(* A video goes live only when the operator approved exactly that script and *)
(* has not put it on hold since, or when its whole script was delivered, its *)
(* deadline passed, and nobody put it on hold: no stale button, interrupted  *)
(* edit or half-written production gets another video out.                   *)
OnlyClearedGoesLive ==
  [][\A a \in live' \ live :
       \/ \E t \in consent \ held : Names(t, a)
       \/ \E t \in inbox \ held :
            Names(t, a) /\ AutoPublish /\ gate.token = t /\ gate.timer = "expired"]_vars

(* A video_id is on record, and on the public page, only for a video that is *)
(* on the channel, in the session the record was made for.                   *)
RecordedIsLive ==
  /\ \A v \in Versions : HasVideo(v) =>
       \E a \in live : a.version = v /\ a.sid = upload[v].sid
  /\ public # 0 => HasVideo(public)

(* The gate says "uploaded" only of a version whose video_id is on record.   *)
UploadedIsRecorded == gate.state = "uploaded" => HasVideo(gate.token.review)

(* workflow.json never names a superseded version, whatever step an edit or  *)
(* a forced production stops at: the day can always be reviewed further.     *)
CurrentNeverSuperseded == status[current] # "superseded"

Consented(v) == \E t \in consent \ held : t.review = v

(* The timer adds no video to a day that already has one on record.          *)
NoTimedVideoAfterRecorded ==
  [][\A v \in Versions : HasVideo(v)' /\ ~HasVideo(v) /\ ~Consented(v)
       => \A w \in Versions \ {v} : ~HasVideo(w)]_vars

(* What goes on the channel was cleared: approved as it is, or shown and left *)
(* alone until its deadline on a day without a recorded video.                *)
VideosAreCleared == OnlyClearedGoesLive /\ NoTimedVideoAfterRecorded

(* shorts/README.md:264 "a day that was uploaded already is not posted again *)
(* automatically": of two videos of the day, one was approved by hand.       *)
OneAutomaticVideoPerDay ==
  \A a, b \in live : a.version # b.version
    => \E t \in consent : t.review \in {a.version, b.version}

(* youtube.publish_latest "picks the last post of the most recent day": once *)
(* the public file has been written after an upload, it names that upload.   *)
PublicNamesLatestUpload == At("close") /\ op.shown => public = op.v

(* The gate implements the promise it makes to the operator.                 *)
Promise == INSTANCE Publication WITH
  Requests <- Tokens, Uploads <- Sessions,
  shown <- inbox, approved <- consent, withheld <- held, aired <- live

KeepsPromise == Promise!Spec

-----------------------------------------------------------------------------
(* The inductive invariant behind the safety properties: what each step may *)
(* count on, named by what it is about.                                     *)

NamesVersion == Steps \ {"idle", "hold", "holdEdit", "edit", "draft"}
Reviews == {"hold", "holdEdit", "edit", "draft", "review"}
Uploading == {"session", "send", "confirm"}
Publishing == Uploading \cup {"review", "check", "latest", "close"}

(* An operation works on a version that exists, of a day with a review.json *)
VersionsOK ==
  /\ \A f \in Folders : status[f] # "none" => review[f] \in Versions
  /\ op.pc \in NamesVersion => op.v \in Versions
  /\ op.pc \in Reviews => status[current] # "none"
  /\ current <= versions

(* An edit leaves one version for a newer one, whose review.json is pending *)
EditOK ==
  /\ status[current] # "superseded"
  /\ op.pc \in {"mark", "point"} => status[0] = "pending"
  /\ op.pc = "switch" =>
       op.old = current /\ op.v # current /\ op.v <= versions /\ status[op.v] = "pending"
  /\ op.pc = "retire" => op.old # current
  /\ op.pc \in {"switch", "retire"} => status[op.old] # "none"

(* A session is on file before a byte is sent, and a version keeps it       *)
SessionsOK ==
  /\ op.pc \in {"review", "check"} => op.v = review[current]
  /\ op.pc \in Uploading => op.v = video[current]
  /\ op.pc = "session" => upload[op.v].state = "none"
  /\ op.pc \in {"send", "confirm"} => upload[op.v] = [state |-> "session", sid |-> op.sid]
  /\ \A a \in live :
       /\ a.version \in Versions
       /\ a.content = a.version
       /\ upload[a.version].state # "none"
       /\ upload[a.version].sid = a.sid

(* What is recorded was seen at YouTube first                               *)
RecordsOK ==
  /\ RecordedIsLive
  /\ op.pc = "confirm" => \E a \in live : a.version = op.v /\ a.sid = op.sid
  /\ \A i \in DOMAIN recorded : HasVideo(recorded[i])
  /\ op.pc \in Publishing /\ op.gated => gate.token.review = op.v
  /\ op.pc \in {"latest", "close"} => HasVideo(op.v)
  /\ UploadedIsRecorded

GateInvariant == TypeOK /\ VersionsOK /\ EditOK /\ SessionsOK /\ RecordsOK

-----------------------------------------------------------------------------
(* Fairness.  systemd and the bot's scheduler call the poll every minute and *)
(* retry for ever; a step that has the lock runs on unless it is aborted.    *)
(* The lock is non-blocking, so a poll may meet it taken: it needs strong    *)
(* fairness.  The operator, edits and productions are not fair.              *)
Continue == \/ ProduceVideo \/ ProduceScript \/ ProduceReview \/ ProduceMark \/ ProducePoint
            \/ Edit \/ Publish

FairSpec ==
  /\ Spec
  /\ WF_vars(Continue)
  /\ WF_vars(PollSend)
  /\ WF_vars(DeadlinePasses)
  /\ SF_vars(PollList)
  /\ SF_vars(PollAck)
  /\ SF_vars(Tick)

(* A version that waits for review on a registered day is delivered to the   *)
(* operator in the end, even when the process that finished it died before   *)
(* it could register it.                                                     *)
PendingIsDelivered ==
  (LockFree /\ GateExists /\ status[current] = "pending" /\ gate.token # CurrentToken)
    ~> (gate.delivered \/ gate.state # "pending" \/ status[current] # "pending")

(* A delivered script whose timer runs, and one that was approved, is        *)
(* published, put on hold, or gives way to another version, however the      *)
(* processes are cut short and as long as YouTube keeps the session and the  *)
(* video is the reviewed one.                                                *)
DeliveredIsDecided ==
  (gate.state = "approved" \/ (gate.state = "pending" /\ gate.delivered))
    ~> (gate.state \in {"uploaded", "paused"} \/ CurrentToken # gate.token
          \/ video[current] # review[current] \/ expired # {})
=============================================================================

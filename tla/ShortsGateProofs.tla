-------------------------- MODULE ShortsGateProofs --------------------------
(***************************************************************************)
(* Proofs about the publication gate for every number of versions, upload  *)
(* sessions and interrupted operations.                                    *)
(***************************************************************************)
EXTENDS ShortsGate, TLAPS

-----------------------------------------------------------------------------
(* What the records of the module hold.                                     *)

(* Every token a file, a gate or a message can hold is a token.             *)
LEMMA TokenType ==
  ASSUME TypeOK
  PROVE  CurrentToken \in Tokens
BY DEF TypeOK, FilesOK, CurrentToken, Fingerprint, Tokens

LEMMA NoTokenType == NoToken \in Tokens
BY ShortsAssumption DEF NoToken, Tokens, Folders

(* A gate that is registered, delivered, timed, paused, approved or closed is *)
(* still a gate.                                                            *)
LEMMA NewGateType ==
  ASSUME NEW t \in Tokens
  PROVE  NewGate(t) \in GateType
BY DEF NewGate, GateType, States

LEMMA GateChangeType ==
  ASSUME gate \in GateType
  PROVE  /\ [gate EXCEPT !.delivered = TRUE, !.timer = "running"] \in GateType
         /\ [gate EXCEPT !.timer = "expired"] \in GateType
         /\ [gate EXCEPT !.state = "paused", !.timer = "off"] \in GateType
         /\ [gate EXCEPT !.state = "uploaded"] \in GateType
         /\ ApprovedGate("explicit") \in GateType
         /\ ApprovedGate("timeout") \in GateType
BY DEF GateType, States, ApprovedGate

(* Where an operation goes next, it is still an operation.                  *)
LEMMA IdleType == Idle \in OpType
BY ShortsAssumption DEF Idle, OpType, Steps, Folders

LEMMA GotoType ==
  ASSUME op \in OpType, NEW s \in Steps, Goto(s)
  PROVE  op' \in OpType
BY DEF Goto, OpType

LEMMA StartType ==
  ASSUME NEW s \in Steps, NEW v \in Folders, NEW b \in BOOLEAN
  PROVE  /\ [Idle EXCEPT !.pc = s, !.v = v] \in OpType
         /\ [Idle EXCEPT !.pc = s, !.gated = b] \in OpType
         /\ [Idle EXCEPT !.pc = s, !.v = v, !.gated = b] \in OpType
         /\ [Idle EXCEPT !.pc = s] \in OpType
BY IdleType, ShortsAssumption DEF Idle, OpType, Folders

LEMMA StepType ==
  ASSUME op \in OpType, NEW s \in Steps
  PROVE  [op EXCEPT !.pc = s] \in OpType
BY DEF OpType

LEMMA RenderType ==
  ASSUME op \in OpType, NEW s \in Steps, NEW v \in Folders, NEW w \in Folders
  PROVE  [op EXCEPT !.pc = s, !.v = v, !.old = w] \in OpType
BY DEF OpType

LEMMA SessionType ==
  ASSUME op \in OpType, NEW s \in Steps, NEW n \in 0..MaxSessions
  PROVE  [op EXCEPT !.pc = s, !.sid = n] \in OpType
BY DEF OpType

LEMMA ShownType ==
  ASSUME op \in OpType, NEW s \in Steps
  PROVE  [op EXCEPT !.pc = s, !.shown = TRUE] \in OpType
BY DEF OpType

(* The fields of the operation under way.                                   *)
LEMMA OpFields ==
  ASSUME TypeOK
  PROVE  /\ op.pc \in Steps
         /\ op.v \in Folders
         /\ op.old \in Folders
         /\ op.sid \in 0..MaxSessions
BY DEF TypeOK, OpType

LEMMA ZeroFolder == 0 \in Folders
BY ShortsAssumption DEF Folders

LEMMA ZeroAborts == 0 \in 0..MaxAborts
BY ShortsAssumption

LEMMA ZeroSession == 0 \in 0..MaxSessions
BY ShortsAssumption

(* A file that is written holds a version.                                  *)
LEMMA FileWrite ==
  ASSUME NEW h \in [Folders -> Folders], NEW f, NEW v \in Folders
  PROVE  [h EXCEPT ![f] = v] \in [Folders -> Folders]
OBVIOUS

LEMMA StatusWrite ==
  ASSUME NEW h \in [Folders -> {"none", "pending", "reviewed", "superseded"}], NEW f,
         NEW s \in {"none", "pending", "reviewed", "superseded"}
  PROVE  [h EXCEPT ![f] = s] \in [Folders -> {"none", "pending", "reviewed", "superseded"}]
OBVIOUS

LEMMA EntryWrite ==
  ASSUME NEW h \in [Versions -> EntryType], NEW v, NEW n \in 0..MaxSessions,
         NEW s \in {"none", "session", "video"}
  PROVE  [h EXCEPT ![v] = [state |-> s, sid |-> n]] \in [Versions -> EntryType]
BY DEF EntryType

(* What a step leaves alone keeps its type.                                 *)
LEMMA Frame ==
  ASSUME TypeOK
  PROVE  /\ UNCHANGED files => FilesOK'
         /\ UNCHANGED uploads => UploadsOK'
         /\ UNCHANGED <<versions, queued, aborts>> => JobsOK'
         /\ UNCHANGED youtube => YouTubeOK'
         /\ UNCHANGED operator => OperatorOK'
BY DEF TypeOK, FilesOK, UploadsOK, JobsOK, YouTubeOK, OperatorOK, files, uploads, youtube,
       operator

-----------------------------------------------------------------------------
LEMMA InitType == Init => TypeOK
<1> SUFFICES ASSUME Init
             PROVE  TypeOK
  OBVIOUS
<1> USE ShortsAssumption, ZeroFolder, NoTokenType
<1>1. FilesOK
  BY DEF Init, FilesOK
<1>2. gate \in GateType
  BY DEF Init, GateType, States
<1>3. UploadsOK
  BY ZeroSession DEF Init, UploadsOK, EntryType
<1>4. op \in OpType
  BY IdleType DEF Init
<1>5. poll \in PollType
  BY DEF Init, PollType
<1>6. JobsOK
  BY ZeroAborts DEF Init, JobsOK
<1>7. YouTubeOK /\ OperatorOK
  BY DEF Init, YouTubeOK, OperatorOK
<1>8. QED
  BY <1>1, <1>2, <1>3, <1>4, <1>5, <1>6, <1>7 DEF TypeOK

LEMMA NextType == TypeOK /\ VersionsOK /\ [Next]_vars => TypeOK'
<1> SUFFICES ASSUME TypeOK, VersionsOK, [Next]_vars
             PROVE  TypeOK'
  OBVIOUS
<1> USE ShortsAssumption, Frame DEF TypeOK
<1>1. CASE ProduceScenario
  <2>1. versions + 1 \in Folders
    BY <1>1 DEF ProduceScenario, JobsOK, Folders
  <2>2. FilesOK'
    BY <1>1, <2>1, FileWrite DEF ProduceScenario, FilesOK
  <2>3. op' \in OpType
    BY <1>1, <2>1, StartType DEF ProduceScenario, Steps
  <2>4. JobsOK'
    BY <1>1, <2>1 DEF ProduceScenario, JobsOK
  <2>5. QED
    BY <1>1, <2>2, <2>3, <2>4 DEF ProduceScenario, uploads, youtube, operator
<1>2. CASE ProduceVideo
  <2>1. FilesOK'
    BY <1>2, OpFields, FileWrite DEF ProduceVideo, FilesOK
  <2>2. op' \in OpType
    BY <1>2, GotoType DEF ProduceVideo, Steps
  <2>3. QED
    BY <1>2, <2>1, <2>2 DEF ProduceVideo, uploads, youtube, operator
<1>3. CASE ProduceScript
  <2>1. FilesOK'
    BY <1>3, OpFields, FileWrite DEF ProduceScript, FilesOK
  <2>2. op' \in OpType
    BY <1>3, GotoType DEF ProduceScript, Steps
  <2>3. QED
    BY <1>3, <2>1, <2>2 DEF ProduceScript, uploads, youtube, operator
<1>4. CASE ProduceReview
  <2>1. FilesOK'
    BY <1>4, OpFields, FileWrite, StatusWrite DEF ProduceReview, FilesOK
  <2>2. op' \in OpType
    BY <1>4, GotoType DEF ProduceReview, Steps
  <2>3. QED
    BY <1>4, <2>1, <2>2 DEF ProduceReview, uploads, youtube, operator
<1>5. CASE ProduceMark
  BY <1>5, GotoType
     DEF ProduceMark, FilesOK, Folders, Steps, files, uploads, youtube, operator
<1>6. CASE ProducePoint
  <2>1. FilesOK'
    BY <1>6, ZeroFolder DEF ProducePoint, FilesOK
  <2>2. JobsOK' /\ op' \in OpType
    BY <1>6, IdleType DEF ProducePoint, JobsOK
  <2>3. QED
    BY <1>6, <2>1, <2>2 DEF ProducePoint, uploads, youtube, operator
<1>7. CASE AlreadyProduced
  BY <1>7
     DEF AlreadyProduced, JobsOK, Folders, files, uploads, youtube, operator
<1>8. CASE Register
  BY <1>8, GateChangeType, NewGateType, TokenType
     DEF Register, JobsOK, Folders, Registered, files, uploads, youtube, operator
<1>9. CASE Unqueue
  BY <1>9
     DEF Unqueue, JobsOK, Folders, files, uploads, youtube, operator
<1>10. CASE PollList
  BY <1>10, GateChangeType, NewGateType, TokenType, NoTokenType
     DEF PollList, PollType, Repaired, files, uploads, youtube, operator
<1>11. CASE PollSend
  BY <1>11, NoTokenType, TokenType
     DEF PollSend, OperatorOK, PollType, files, uploads, youtube, operator
<1>12. CASE PollAck
  BY <1>12, GateChangeType, NewGateType, TokenType, NoTokenType
     DEF PollAck, PollType, files, uploads, youtube, operator
<1>13. CASE PollFail
  BY <1>13, NoTokenType, TokenType
     DEF PollFail, JobsOK, Folders, PollType, files, uploads, youtube, operator
<1>14. CASE DeadlinePasses
  BY <1>14, GateChangeType, NewGateType, TokenType
     DEF DeadlinePasses, files, uploads, youtube, operator
<1>15. CASE TickPublish
  BY <1>15, StartType, GateChangeType, NewGateType, TokenType
     DEF TickPublish, Steps, FilesOK, Folders, StartPublish, files, uploads, youtube, operator
<1>16. CASE TickHold
  BY <1>16, GateChangeType, NewGateType, TokenType
     DEF TickHold, files, uploads, youtube, operator
<1>17. CASE HoldReview
  <2>1. FilesOK'
    BY <1>17, StatusWrite DEF HoldReview, FilesOK
  <2>2. op' \in OpType
    BY <1>17, IdleType, StepType DEF HoldReview, Steps
  <2>3. QED
    BY <1>17, <2>1, <2>2 DEF HoldReview, uploads, youtube, operator
<1>18. CASE ReviseUngated
  BY <1>18, StartType
     DEF ReviseUngated, Steps, FilesOK, Folders, files, uploads, youtube, operator
<1>19. CASE EditNothing
  BY <1>19, IdleType
     DEF EditNothing, JobsOK, Folders, files, uploads, youtube, operator
<1>20. CASE EditBegin
  BY <1>20, GotoType
     DEF EditBegin, FilesOK, Folders, Steps, files, uploads, youtube, operator
<1>21. CASE EditRender
  <2>1. current \in Folders
    BY DEF FilesOK
  <2>2. PICK v \in Folders : v = versions + 1
    BY <1>21 DEF EditRender, JobsOK, Folders
  <2>3. FilesOK'
    BY <1>21, <2>2, FileWrite, StatusWrite DEF EditRender, FilesOK
  <2>4. op' \in OpType
    BY <1>21, <2>1, <2>2, RenderType DEF EditRender, Steps
  <2>5. JobsOK'
    BY <1>21, <2>2 DEF EditRender, JobsOK
  <2>6. QED
    BY <1>21, <2>3, <2>4, <2>5 DEF EditRender, uploads, youtube, operator
<1>22. CASE EditSwitch
  <2>1. FilesOK'
    BY <1>22, OpFields DEF EditSwitch, FilesOK
  <2>2. op' \in OpType
    BY <1>22, GotoType DEF EditSwitch, Steps
  <2>3. QED
    BY <1>22, <2>1, <2>2 DEF EditSwitch, uploads, youtube, operator
<1>23. CASE EditRetire
  BY <1>23, GotoType
     DEF EditRetire, FilesOK, Folders, Steps, files, uploads, youtube, operator
<1>24. CASE EditRegister
  BY <1>24, IdleType, GateChangeType, NewGateType, TokenType
     DEF EditRegister, JobsOK, Folders, Registered, files, uploads, youtube, operator
<1>25. CASE Complete
  BY <1>25, TokenType
     DEF Complete, FilesOK, Folders, OperatorOK, files, uploads, youtube, operator
<1>26. CASE ManualUpload
  BY <1>26, StartType
     DEF ManualUpload, Steps, FilesOK, Folders, files, uploads, youtube, operator
<1>27. CASE PublishReview
  BY <1>27, GotoType
     DEF PublishReview, FilesOK, Folders, Steps, files, uploads, youtube, operator
<1>28. CASE Refuse
  BY <1>28, IdleType
     DEF Refuse, files, uploads, youtube, operator
<1>29. CASE AlreadyUploaded
  BY <1>29, GotoType
     DEF AlreadyUploaded, Steps, files, uploads, youtube, operator
<1>30. CASE ResumeSession
  <2>1. upload[op.v] \in EntryType
    BY <1>30 DEF ResumeSession, At, VersionsOK, NamesVersion, Steps, UploadsOK
  <2>2. op' \in OpType
    BY <1>30, <2>1, SessionType DEF ResumeSession, Steps, EntryType
  <2>3. QED
    BY <1>30, <2>2 DEF ResumeSession, files, uploads, youtube, operator
<1>31. CASE OpenSession
  <2>1. sessions + 1 \in 0..MaxSessions
    BY <1>31 DEF OpenSession, YouTubeOK
  <2>2. op' \in OpType
    BY <1>31, <2>1, SessionType DEF OpenSession, Steps
  <2>3. YouTubeOK'
    BY <1>31, <2>1 DEF OpenSession, YouTubeOK
  <2>4. QED
    BY <1>31, <2>2, <2>3 DEF OpenSession, files, uploads, operator
<1>32. CASE SaveSession
  <2>1. UploadsOK'
    BY <1>32, EntryWrite, OpFields DEF SaveSession, UploadsOK
  <2>2. op' \in OpType
    BY <1>32, GotoType DEF SaveSession, Steps
  <2>3. QED
    BY <1>32, <2>1, <2>2 DEF SaveSession, files, youtube, operator
<1>33. CASE Transfer
  <2>1. video[current] \in Folders
    BY DEF FilesOK
  <2>2. [version |-> op.v, content |-> video[current], sid |-> op.sid] \in VideoType
    BY <2>1, OpFields DEF VideoType
  <2>3. YouTubeOK'
    BY <1>33, <2>2 DEF Transfer, YouTubeOK
  <2>4. op' \in OpType
    BY <1>33, GotoType DEF Transfer, Steps
  <2>5. QED
    BY <1>33, <2>3, <2>4 DEF Transfer, files, uploads, operator
<1>34. CASE TransferRefused
  BY <1>34, IdleType
     DEF TransferRefused, files, uploads, youtube, operator
<1>35. CASE SaveVideo
  <2>1. recorded' \in Seq(Folders)
    BY <1>35, OpFields DEF SaveVideo, UploadsOK
  <2>2. upload' \in [Versions -> EntryType]
    BY <1>35, EntryWrite, OpFields DEF SaveVideo, UploadsOK
  <2>3. UploadsOK'
    BY <1>35, <2>1, <2>2 DEF SaveVideo, UploadsOK
  <2>4. op' \in OpType
    BY <1>35, GotoType DEF SaveVideo, Steps
  <2>5. QED
    BY <1>35, <2>3, <2>4 DEF SaveVideo, files, youtube, operator
<1>36. CASE PublishLatest
  <2>1. public' \in Folders
    BY <1>36 DEF PublishLatest, UploadsOK, OwnUploads, Versions, Folders
  <2>2. UploadsOK'
    BY <1>36, <2>1 DEF PublishLatest, UploadsOK
  <2>3. op' \in OpType
    BY <1>36, ShownType DEF PublishLatest, Steps
  <2>4. QED
    BY <1>36, <2>2, <2>3 DEF PublishLatest, files, youtube, operator
<1>37. CASE PublishLatestFails
  BY <1>37, GotoType
     DEF PublishLatestFails, Steps, files, uploads, youtube, operator
<1>38. CASE Close
  BY <1>38, IdleType, GateChangeType, NewGateType, TokenType
     DEF Close, files, uploads, youtube, operator
<1>39. CASE Abort
  BY <1>39, IdleType
     DEF Abort, JobsOK, Folders, files, uploads, youtube, operator
<1>40. CASE ExpireSession
  BY <1>40
     DEF ExpireSession, YouTubeOK, VideoType, OpType, Sessions, files, uploads, youtube, operator
<1>41. ASSUME NEW t \in inbox \cup {gate.token}, Approve(t)
      PROVE  TypeOK'
  <2>1. t \in Tokens
    BY DEF OperatorOK, GateType
  <2>2. OperatorOK'
    BY <1>41, <2>1 DEF Approve, OperatorOK
  <2>3. review[current] \in Folders
    BY DEF FilesOK
  <2>4. op' \in OpType
    BY <1>41, <2>3, StartType DEF Approve, StartPublish, Steps
  <2>5. gate' \in GateType
    BY <1>41, GateChangeType DEF Approve
  <2>6. QED
    BY <1>41, <2>2, <2>4, <2>5 DEF Approve, files, uploads, youtube
<1>42. ASSUME NEW t \in inbox \cup {gate.token}, Pause(t)
      PROVE  TypeOK'
  BY <1>42, GateChangeType, StartType
     DEF GateType, Steps, Pause, Hold, JobsOK, OperatorOK, files, uploads, youtube, operator
<1>43. ASSUME NEW t \in inbox \cup {gate.token}, Revise(t)
      PROVE  TypeOK'
  BY <1>43, GateChangeType, StartType
     DEF GateType, Steps, Revise, Hold, JobsOK, OperatorOK, files, uploads, youtube, operator
<1>44. CASE UNCHANGED vars
  BY <1>44 DEF vars
<1>45. QED
  BY <1>1, <1>2, <1>3, <1>4, <1>5, <1>6, <1>7, <1>8, <1>9, <1>10, <1>11, <1>12, <1>13, <1>14, <1>15, <1>16, <1>17, <1>18, <1>19, <1>20, <1>21, <1>22, <1>23, <1>24, <1>25, <1>26, <1>27, <1>28, <1>29, <1>30, <1>31, <1>32, <1>33, <1>34, <1>35, <1>36, <1>37, <1>38, <1>39, <1>40, <1>41, <1>42, <1>43, <1>44
     DEF Next, Produce, Poll, Tick, Command, Edit, Publish

-----------------------------------------------------------------------------
(* Two kinds of steps change none of the day's files: the ones beside the   *)
(* operation together with those that end it, and the inner steps of an     *)
(* upload.                                                                  *)

Calm == UNCHANGED <<files, uploads, live, versions>> /\ (op' = op \/ op'.pc = "idle")

Inner ==
  /\ UNCHANGED <<files, versions>>
  /\ op.pc \in Publishing /\ op'.pc \in Publishing \ {"review"}
  /\ op'.v = op.v /\ op'.gated = op.gated

LEMMA CalmSteps ==
  ASSUME TypeOK,
         \/ AlreadyProduced \/ Register \/ Unqueue
         \/ PollList \/ PollSend \/ PollAck \/ PollFail \/ DeadlinePasses \/ TickHold
         \/ EditNothing \/ EditRegister \/ Refuse \/ TransferRefused \/ Close
         \/ Abort \/ ExpireSession \/ UNCHANGED vars
  PROVE  Calm
<1>1. CASE AlreadyProduced \/ Register \/ Unqueue
  BY <1>1 DEF AlreadyProduced, Register, Unqueue, Calm, uploads, youtube
<1>2. CASE PollList \/ PollSend \/ PollAck \/ PollFail \/ DeadlinePasses \/ TickHold
  BY <1>2 DEF PollList, PollSend, PollAck, PollFail, DeadlinePasses, TickHold, Calm, uploads,
              youtube
<1>3. CASE EditNothing \/ EditRegister \/ Refuse \/ TransferRefused \/ Close \/ Abort
  BY <1>3 DEF EditNothing, EditRegister, Refuse, TransferRefused, Close, Abort, Idle, Calm,
              uploads, youtube
<1>4. CASE ExpireSession \/ UNCHANGED vars
  BY <1>4 DEF ExpireSession, vars, Calm, uploads, youtube
<1>5. QED
  BY <1>1, <1>2, <1>3, <1>4

LEMMA InnerSteps ==
  ASSUME TypeOK,
         \/ AlreadyUploaded \/ ResumeSession \/ OpenSession \/ SaveSession \/ Transfer
         \/ SaveVideo \/ PublishLatest \/ PublishLatestFails
  PROVE  Inner
<1> USE DEF TypeOK, OpType, At, Goto, Inner, Publishing, Uploading
<1>1. CASE AlreadyUploaded \/ PublishLatestFails
  BY <1>1 DEF AlreadyUploaded, PublishLatestFails
<1>2. CASE ResumeSession
  BY <1>2 DEF ResumeSession
<1>3. CASE OpenSession
  BY <1>3 DEF OpenSession
<1>4. CASE SaveSession \/ Transfer \/ SaveVideo
  BY <1>4 DEF SaveSession, Transfer, SaveVideo
<1>5. CASE PublishLatest
  BY <1>5 DEF PublishLatest
<1>6. QED
  BY <1>1, <1>2, <1>3, <1>4, <1>5

-----------------------------------------------------------------------------
(* The version an operation works on exists, and an edit leaves its old     *)
(* version behind.                                                          *)

LEMMA KeepFolders ==
  ASSUME TypeOK, VersionsOK, EditOK, UNCHANGED <<files, versions>>,
         \/ op' = op
         \/ op'.pc \in {"idle", "hold", "holdEdit", "edit", "review"} \cup Publishing,
         op'.pc # "idle" /\ op' # op => op'.v \in Versions \/ op'.pc \notin NamesVersion,
         op'.pc \in Reviews /\ op' # op => status[current] # "none"
  PROVE  VersionsOK' /\ EditOK'
BY DEF VersionsOK, EditOK, files, NamesVersion, Reviews, Publishing, Uploading

LEMMA CalmFolders ==
  ASSUME TypeOK, VersionsOK, EditOK, Calm
  PROVE  VersionsOK' /\ EditOK'
BY KeepFolders DEF Calm, Reviews

LEMMA InnerFolders ==
  ASSUME TypeOK, VersionsOK, EditOK, Inner
  PROVE  VersionsOK' /\ EditOK'
<1>1. op.v \in Versions
  BY DEF Inner, VersionsOK, NamesVersion, Publishing, Uploading, Steps
<1>2. op'.pc \notin Reviews
  BY DEF Inner, Publishing, Uploading, Reviews
<1>3. QED
  BY <1>1, <1>2, KeepFolders DEF Inner

LEMMA FoldersStep ==
  TypeOK /\ VersionsOK /\ EditOK /\ [Next]_vars => VersionsOK' /\ EditOK'
<1> SUFFICES ASSUME TypeOK, VersionsOK, EditOK, [Next]_vars
             PROVE  VersionsOK' /\ EditOK'
  OBVIOUS
<1> USE DEF At, Goto
<1>1. op \in OpType /\ FilesOK /\ versions \in Folders
  BY DEF TypeOK, JobsOK
<1>2. ASSUME \/ AlreadyProduced \/ Register \/ Unqueue
             \/ PollList \/ PollSend \/ PollAck \/ PollFail \/ DeadlinePasses \/ TickHold
             \/ EditNothing \/ EditRegister \/ Refuse \/ TransferRefused \/ Close
             \/ Abort \/ ExpireSession \/ UNCHANGED vars
      PROVE  VersionsOK' /\ EditOK'
  BY <1>2, CalmSteps, CalmFolders
<1>3. ASSUME \/ AlreadyUploaded \/ ResumeSession \/ OpenSession \/ SaveSession \/ Transfer
             \/ SaveVideo \/ PublishLatest \/ PublishLatestFails
      PROVE  VersionsOK' /\ EditOK'
  BY <1>3, InnerSteps, InnerFolders
<1>4. CASE ProduceScenario
  <2>1. op'.pc = "render" /\ op'.v = versions + 1 /\ versions' = versions + 1
    BY <1>4 DEF ProduceScenario, Idle
  <2>0. versions < MaxVersions /\ current \in Folders
    BY <1>1, <1>4 DEF ProduceScenario, FilesOK
  <2>2. versions \in Nat /\ current \in Nat /\ versions + 1 \in Versions
    BY <1>1, <2>0, ShortsAssumption DEF Versions, Folders
  <2>3. UNCHANGED <<review, status, current>>
    BY <1>4 DEF ProduceScenario
  <2>4. VersionsOK'
    BY <2>1, <2>2, <2>3 DEF VersionsOK, Reviews
  <2>5. EditOK'
    BY <2>1, <2>3 DEF EditOK
  <2>6. QED
    BY <2>4, <2>5
<1>5. CASE ProduceVideo \/ ProduceScript
  BY <1>1, <1>5 DEF ProduceVideo, ProduceScript, VersionsOK, EditOK, NamesVersion, Reviews,
                    Steps, OpType
<1>6. CASE ProduceReview
  <2>1. op.v \in Versions /\ op'.v = op.v /\ op'.pc = "mark"
    BY <1>1, <1>6 DEF ProduceReview, VersionsOK, NamesVersion, Steps, OpType
  <2>2. /\ 0 \in Folders
        /\ review' = [review EXCEPT ![0] = op.v]
        /\ status' = [status EXCEPT ![0] = "pending"]
        /\ UNCHANGED <<current, versions>>
    BY <1>6, ZeroFolder DEF ProduceReview
  <2>3. VersionsOK'
    BY <1>1, <2>1, <2>2 DEF FilesOK, VersionsOK, Reviews
  <2>4. EditOK'
    BY <1>1, <2>1, <2>2 DEF FilesOK, EditOK
  <2>5. QED
    BY <2>3, <2>4
<1>7. CASE ProduceMark \/ ProducePoint
  <2>1. CASE ProduceMark
    BY <1>1, <2>1 DEF ProduceMark, VersionsOK, EditOK, NamesVersion, Reviews, Steps, OpType
  <2>2. CASE ProducePoint
    <3>1. op'.pc = "idle" /\ status[0] = "pending" /\ current' = 0
      BY <2>2 DEF ProducePoint, Idle, EditOK
    <3>2. UNCHANGED <<review, status, versions>> /\ 0 <= versions
      BY <1>1, <2>2 DEF ProducePoint, Folders
    <3>3. QED
      BY <3>1, <3>2 DEF VersionsOK, EditOK, NamesVersion, Reviews
  <2>3. QED
    BY <1>7, <2>1, <2>2
<1>8. CASE HoldReview \/ PublishReview
  BY <1>1, <1>8 DEF HoldReview, PublishReview, Idle, FilesOK, VersionsOK, EditOK, NamesVersion,
                    Reviews, Steps, OpType
<1>9. CASE EditBegin
  BY <1>1, <1>9 DEF EditBegin, FilesOK, VersionsOK, EditOK, NamesVersion, Reviews, Steps, OpType
<1>10. CASE EditRender
  <2>0. /\ versions < MaxVersions /\ versions' = versions + 1
        /\ current \in Folders /\ current <= versions
    BY <1>1, <1>10 DEF EditRender, FilesOK, VersionsOK
  <2>1. PICK v \in Versions : v = versions + 1
    BY <1>1, <2>0, ShortsAssumption DEF Versions, Folders
  <2>2. v \in Folders /\ v # current /\ v <= versions' /\ current <= versions' /\ v \in Nat
    BY <1>1, <2>0, <2>1, ShortsAssumption DEF Versions, Folders
  <2>3. op'.pc = "switch" /\ op'.v = v /\ op'.old = current
    BY <1>1, <1>10, <2>1 DEF EditRender, OpType
  <2>4. /\ review' = [review EXCEPT ![v] = v]
        /\ status' = [status EXCEPT ![v] = "pending"]
        /\ current' = current
    BY <1>10, <2>1 DEF EditRender
  <2>5. status[current] # "none"
    BY <1>10 DEF EditRender, VersionsOK, Reviews
  <2>6. VersionsOK'
    BY <1>1, <2>1, <2>2, <2>3, <2>4 DEF FilesOK, VersionsOK, Reviews
  <2>7. EditOK'
    BY <1>1, <2>2, <2>3, <2>4, <2>5 DEF FilesOK, EditOK
  <2>8. QED
    BY <2>6, <2>7
<1>11. CASE EditSwitch \/ EditRetire
  BY <1>1, <1>11 DEF EditSwitch, EditRetire, FilesOK, VersionsOK, EditOK, NamesVersion, Reviews,
                     Steps, OpType
<1>12. CASE Complete
  BY <1>1, <1>12 DEF Complete, LockFree, FilesOK, VersionsOK, EditOK, NamesVersion, Reviews,
                     Steps, OpType
<1>13. ASSUME \/ TickPublish \/ ReviseUngated \/ ManualUpload
              \/ \E t \in inbox \cup {gate.token} : Approve(t) \/ Pause(t) \/ Revise(t)
       PROVE  VersionsOK' /\ EditOK'
  <2>1. UNCHANGED <<files, versions>> /\ status[current] # "none"
    BY <1>13 DEF TickPublish, ReviseUngated, ManualUpload, Approve, Pause, Revise, Hold,
                 Checked, Readable
  <2>2. op'.pc \in {"hold", "holdEdit", "edit"} \/ (op'.pc \in {"review", "check"}
                                                    /\ op'.v = review[current])
    BY <1>13 DEF TickPublish, ReviseUngated, ManualUpload, Approve, Pause, Revise, Hold,
                 StartPublish, Idle
  <2>3. review[current] \in Versions
    BY <1>1, <2>1 DEF FilesOK, VersionsOK
  <2>4. QED
    BY <2>1, <2>2, <2>3, KeepFolders DEF NamesVersion, Publishing
<1>14. QED
  BY <1>2, <1>3, <1>4, <1>5, <1>6, <1>7, <1>8, <1>9, <1>10, <1>11, <1>12, <1>13
     DEF Next, Produce, Poll, Tick, Command, Edit, Publish

-----------------------------------------------------------------------------
(* A version keeps the session it was given, and what is on the channel came*)
(* out of the session on file.                                              *)

LEMMA CalmSessions ==
  ASSUME SessionsOK, Calm
  PROVE  SessionsOK'
BY DEF Calm, SessionsOK, Uploading, files, uploads

LEMMA ElsewhereSessions ==
  ASSUME SessionsOK, UNCHANGED <<upload, live>>,
         op'.pc \notin Uploading \cup {"review", "check"}
  PROVE  SessionsOK'
BY DEF SessionsOK, Uploading

LEMMA SessionsStep == TypeOK /\ VersionsOK /\ SessionsOK /\ [Next]_vars => SessionsOK'
<1> SUFFICES ASSUME TypeOK, VersionsOK, SessionsOK, [Next]_vars
             PROVE  SessionsOK'
  OBVIOUS
<1> USE DEF At, Goto
<1>1. op \in OpType /\ upload \in [Versions -> EntryType]
  BY DEF TypeOK, UploadsOK
<1>2. ASSUME \/ AlreadyProduced \/ Register \/ Unqueue
             \/ PollList \/ PollSend \/ PollAck \/ PollFail \/ DeadlinePasses \/ TickHold
             \/ EditNothing \/ EditRegister \/ Refuse \/ TransferRefused \/ Close
             \/ Abort \/ ExpireSession \/ UNCHANGED vars
      PROVE  SessionsOK'
  BY <1>2, CalmSteps, CalmSessions
<1>3. ASSUME \/ ProduceScenario \/ ProduceVideo \/ ProduceScript \/ ProduceReview
             \/ ProduceMark \/ ProducePoint \/ Complete
      PROVE  SessionsOK'
  <2>1. UNCHANGED <<upload, live>>
    BY <1>3 DEF ProduceScenario, ProduceVideo, ProduceScript, ProduceReview, ProduceMark,
                ProducePoint, Complete, uploads, youtube
  <2>2. CASE ProduceScenario \/ ProducePoint \/ Complete
    <3>1. op'.pc \in {"render", "idle"}
      <4>1. CASE ProduceScenario
        BY <4>1 DEF ProduceScenario, Idle
      <4>2. CASE ProducePoint
        BY <4>2 DEF ProducePoint, Idle
      <4>3. CASE Complete
        BY <4>3 DEF Complete, LockFree
      <4>4. QED
        BY <2>2, <4>1, <4>2, <4>3
    <3>2. QED
      BY <2>1, <3>1, ElsewhereSessions DEF Uploading
  <2>3. CASE ProduceVideo \/ ProduceScript \/ ProduceReview \/ ProduceMark
    <3>1. op'.pc \in {"script", "record", "mark", "point"}
      BY <1>1, <2>3 DEF ProduceVideo, ProduceScript, ProduceReview, ProduceMark, OpType
    <3>2. QED
      BY <2>1, <3>1, ElsewhereSessions DEF Uploading
  <2>4. QED
    BY <1>3, <2>2, <2>3
<1>4. ASSUME \/ HoldReview \/ EditBegin \/ EditRender \/ EditSwitch \/ EditRetire
             \/ ReviseUngated
             \/ \E t \in inbox \cup {gate.token} : Pause(t) \/ Revise(t)
      PROVE  SessionsOK'
  <2>1. UNCHANGED <<upload, live>>
    BY <1>4 DEF HoldReview, EditBegin, EditRender, EditSwitch, EditRetire, ReviseUngated, Pause,
                Revise, Hold, uploads, youtube
  <2>2. CASE HoldReview \/ EditBegin \/ EditRender \/ EditSwitch \/ EditRetire
    <3>1. op'.pc \in {"idle", "edit", "draft", "switch", "retire", "requeue"}
      <4>1. CASE HoldReview
        BY <1>1, <4>1 DEF HoldReview, Idle, OpType
      <4>2. CASE EditBegin \/ EditRender
        BY <1>1, <4>2 DEF EditBegin, EditRender, OpType
      <4>3. CASE EditSwitch \/ EditRetire
        BY <1>1, <4>3 DEF EditSwitch, EditRetire, OpType
      <4>4. QED
        BY <2>2, <4>1, <4>2, <4>3
    <3>2. QED
      BY <2>1, <3>1, ElsewhereSessions DEF Uploading
  <2>3. CASE ReviseUngated \/ \E t \in inbox \cup {gate.token} : Pause(t) \/ Revise(t)
    <3>1. op'.pc \in {"edit", "hold", "holdEdit"}
      BY <2>3 DEF ReviseUngated, Pause, Revise, Hold, Idle
    <3>2. QED
      BY <2>1, <3>1, ElsewhereSessions DEF Uploading
  <2>4. QED
    BY <1>4, <2>2, <2>3
<1>5. ASSUME AlreadyUploaded \/ SaveVideo \/ PublishLatest \/ PublishLatestFails
      PROVE  SessionsOK'
  <2>1. op'.pc \notin Uploading \cup {"review", "check"}
    BY <1>1, <1>5 DEF AlreadyUploaded, SaveVideo, PublishLatest, PublishLatestFails, OpType,
                      Uploading
  <2>2. CASE AlreadyUploaded \/ PublishLatest \/ PublishLatestFails
    BY <2>1, <2>2, ElsewhereSessions
       DEF AlreadyUploaded, PublishLatest, PublishLatestFails, uploads, youtube
  <2>3. CASE SaveVideo
    <3>1. op.v \in Versions /\ upload[op.v].sid = op.sid
      BY <2>3 DEF SaveVideo, VersionsOK, NamesVersion, Steps, SessionsOK
    <3>2. upload' = [upload EXCEPT ![op.v] = [state |-> "video", sid |-> op.sid]]
          /\ live' = live
      BY <2>3 DEF SaveVideo, youtube
    <3>3. QED
      BY <1>1, <2>1, <3>1, <3>2 DEF SessionsOK, Uploading
  <2>4. QED
    BY <1>5, <2>2, <2>3
<1>6. ASSUME TickPublish \/ ManualUpload \/ \E t \in inbox \cup {gate.token} : Approve(t)
      PROVE  SessionsOK'
  <2>1. /\ UNCHANGED <<files, upload, live>>
        /\ op'.pc \in {"review", "check"}
        /\ op'.v = review[current]
    BY <1>6 DEF TickPublish, ManualUpload, Approve, StartPublish, Idle, uploads, youtube
  <2>2. QED
    BY <2>1 DEF SessionsOK, Uploading, files
<1>7. CASE PublishReview
  BY <1>1, <1>7 DEF PublishReview, SessionsOK, Uploading, OpType, uploads, youtube
<1>8. ASSUME OpenSession \/ ResumeSession
      PROVE  SessionsOK'
  <2>1. /\ UNCHANGED <<upload, live, video, current>>
        /\ op'.v = op.v /\ op.v = video[current]
    BY <1>1, <1>8 DEF OpenSession, ResumeSession, Uploadable, SessionsOK, OpType, files,
                      uploads, youtube
  <2>2. op.v \in Versions
    BY <1>8 DEF OpenSession, ResumeSession, VersionsOK, NamesVersion, Steps
  <2>3. \/ op'.pc = "session" /\ upload[op.v].state = "none"
        \/ op'.pc = "send" /\ upload[op.v] = [state |-> "session", sid |-> op'.sid]
    BY <1>1, <1>8, <2>2 DEF OpenSession, ResumeSession, OpType, EntryType
  <2>4. QED
    BY <2>1, <2>3 DEF SessionsOK, Uploading
<1>9. CASE SaveSession
  <2>1. /\ op.v \in Versions /\ upload[op.v].state = "none" /\ op.v = video[current]
        /\ UNCHANGED <<video, current, live>>
        /\ upload' = [upload EXCEPT ![op.v] = [state |-> "session", sid |-> op.sid]]
    BY <1>9 DEF SaveSession, VersionsOK, NamesVersion, Steps, SessionsOK, Uploading, files,
                youtube
  <2>2. op'.pc = "send" /\ op'.v = op.v /\ op'.sid = op.sid
    BY <1>1, <1>9 DEF SaveSession, OpType
  <2>3. QED
    BY <1>1, <2>1, <2>2 DEF SessionsOK, Uploading
<1>10. CASE Transfer
  <2>1. /\ op.v \in Versions /\ op.v = video[current]
        /\ upload[op.v] = [state |-> "session", sid |-> op.sid]
        /\ UNCHANGED <<video, current, upload>>
        /\ live' = live \cup {[version |-> op.v, content |-> op.v, sid |-> op.sid]}
    BY <1>10 DEF Transfer, VersionsOK, NamesVersion, Steps, SessionsOK, Uploading, files,
                 uploads
  <2>2. op'.pc = "confirm" /\ op'.v = op.v /\ op'.sid = op.sid
    BY <1>1, <1>10 DEF Transfer, OpType
  <2>3. QED
    BY <2>1, <2>2 DEF SessionsOK, Uploading
<1>11. QED
  BY <1>2, <1>3, <1>4, <1>5, <1>6, <1>7, <1>8, <1>9, <1>10
     DEF Next, Produce, Poll, Tick, Command, Edit, Publish

-----------------------------------------------------------------------------
(* What is on record was seen at YouTube first.                             *)

LEMMA KeepRecords ==
  ASSUME RecordsOK, UNCHANGED <<uploads, live>>,
         op'.pc \notin Publishing \/ (op' = op /\ gate'.token = gate.token),
         gate'.state = "uploaded" => gate.state = "uploaded" /\ gate'.token = gate.token
  PROVE  RecordsOK'
BY DEF RecordsOK, RecordedIsLive, UploadedIsRecorded, HasVideo, Publishing, Uploading, uploads

LEMMA IdleRecords ==
  ASSUME TypeOK, LockFree
  PROVE  op.pc \notin Publishing
BY DEF LockFree, Publishing, Uploading

LEMMA RecordsStep ==
  TypeOK /\ VersionsOK /\ SessionsOK /\ RecordsOK /\ [Next]_vars => RecordsOK'
<1> SUFFICES ASSUME TypeOK, VersionsOK, SessionsOK, RecordsOK, [Next]_vars
             PROVE  RecordsOK'
  OBVIOUS
<1> USE DEF At, Goto
<1>1. op \in OpType /\ upload \in [Versions -> EntryType] /\ gate \in GateType
  BY DEF TypeOK, UploadsOK
<1>2. ASSUME \/ AlreadyProduced \/ Unqueue \/ PollSend \/ PollFail \/ DeadlinePasses
             \/ ExpireSession \/ UNCHANGED vars
      PROVE  RecordsOK'
  <2>1. UNCHANGED <<uploads, live, op>>
    BY <1>2 DEF AlreadyProduced, Unqueue, PollSend, PollFail, DeadlinePasses, ExpireSession,
                vars, uploads, youtube
  <2>2. gate'.token = gate.token /\ gate'.state = gate.state
    BY <1>1, <1>2 DEF AlreadyProduced, Unqueue, PollSend, PollFail, DeadlinePasses,
                      ExpireSession, vars, GateType
  <2>3. QED
    BY <2>1, <2>2, KeepRecords
<1>3. ASSUME Register \/ PollList \/ PollAck \/ TickHold
      PROVE  RecordsOK'
  <2>1. UNCHANGED <<uploads, live, op>> /\ op'.pc \notin Publishing
    BY <1>3, IdleRecords DEF Register, PollList, PollAck, TickHold, uploads, youtube
  <2>2. gate' = gate \/ gate'.state # "uploaded"
    <3>1. CASE Register \/ PollList
      BY <3>1 DEF Register, PollList, Registered, Repaired, NewGate
    <3>2. CASE PollAck
      BY <1>1, <3>2 DEF PollAck, GateType
    <3>3. CASE TickHold
      BY <1>1, <3>3 DEF TickHold, GateType
    <3>4. QED
      BY <1>3, <3>1, <3>2, <3>3
  <2>3. QED
    BY <2>1, <2>2, KeepRecords
<1>4. ASSUME EditNothing \/ EditRegister \/ Refuse \/ TransferRefused \/ Abort \/ ProducePoint
      PROVE  RecordsOK'
  <2>1. UNCHANGED <<uploads, live>> /\ op'.pc \notin Publishing
    BY <1>4 DEF EditNothing, EditRegister, Refuse, TransferRefused, Abort, ProducePoint, Idle,
                Publishing, Uploading, uploads, youtube
  <2>2. gate' = gate \/ gate'.state # "uploaded"
    BY <1>4 DEF EditNothing, EditRegister, Refuse, TransferRefused, Abort, ProducePoint,
                Registered, NewGate
  <2>3. QED
    BY <2>1, <2>2, KeepRecords
<1>5. ASSUME \/ ProduceVideo \/ ProduceScript \/ ProduceReview \/ ProduceMark
             \/ EditBegin \/ EditRender \/ EditSwitch \/ EditRetire
      PROVE  RecordsOK'
  <2>1. UNCHANGED <<uploads, live, gate>>
    BY <1>5 DEF ProduceVideo, ProduceScript, ProduceReview, ProduceMark, EditBegin, EditRender,
                EditSwitch, EditRetire, uploads, youtube
  <2>2. op'.pc \in {"script", "record", "mark", "point", "draft", "switch", "retire", "requeue"}
    <3>1. CASE ProduceVideo \/ ProduceScript \/ ProduceReview \/ ProduceMark
      BY <1>1, <3>1 DEF ProduceVideo, ProduceScript, ProduceReview, ProduceMark, OpType
    <3>2. CASE EditBegin \/ EditRender
      BY <1>1, <3>2 DEF EditBegin, EditRender, OpType
    <3>3. CASE EditSwitch \/ EditRetire
      BY <1>1, <3>3 DEF EditSwitch, EditRetire, OpType
    <3>4. QED
      BY <1>5, <3>1, <3>2, <3>3
  <2>3. QED
    BY <2>1, <2>2, KeepRecords DEF Publishing, Uploading
<1>6. ASSUME \/ ProduceScenario \/ HoldReview \/ ReviseUngated \/ Complete
             \/ \E t \in inbox \cup {gate.token} : Pause(t) \/ Revise(t)
      PROVE  RecordsOK'
  <2>1. UNCHANGED <<uploads, live>>
    BY <1>6 DEF ProduceScenario, HoldReview, ReviseUngated, Complete, Pause, Revise, Hold,
                uploads, youtube
  <2>2. op'.pc \in {"render", "idle", "edit", "hold", "holdEdit"}
    <3>1. CASE ProduceScenario \/ ReviseUngated
      BY <3>1 DEF ProduceScenario, ReviseUngated, Idle
    <3>2. CASE HoldReview
      BY <1>1, <3>2 DEF HoldReview, Idle, OpType
    <3>3. CASE Complete
      BY <3>3 DEF Complete, LockFree
    <3>4. CASE \E t \in inbox \cup {gate.token} : Pause(t) \/ Revise(t)
      BY <3>4 DEF Pause, Revise, Hold, Idle
    <3>5. QED
      BY <1>6, <3>1, <3>2, <3>3, <3>4
  <2>3. gate' = gate \/ gate'.state # "uploaded"
    BY <1>1, <1>6 DEF ProduceScenario, HoldReview, ReviseUngated, Complete, Pause, Revise,
                      Hold, GateType
  <2>4. QED
    BY <2>1, <2>2, <2>3, KeepRecords DEF Publishing, Uploading
<1>7. ASSUME TickPublish \/ \E t \in inbox \cup {gate.token} : Approve(t)
      PROVE  RecordsOK'
  <2>1. /\ UNCHANGED <<uploads, live>>
        /\ op'.pc = "review" /\ op'.v = review[current]
    BY <1>7 DEF TickPublish, Approve, StartPublish, Idle, uploads, youtube
  <2>2. gate.token.review = review[current]
    BY <1>7 DEF TickPublish, Approve, Checked, CurrentToken, Fingerprint
  <2>3. gate'.token = gate.token /\ (gate'.state = "uploaded" => gate.state = "uploaded")
    BY <1>1, <1>7 DEF TickPublish, Approve, ApprovedGate, GateType
  <2>4. QED
    BY <2>1, <2>2, <2>3
       DEF RecordsOK, RecordedIsLive, UploadedIsRecorded, HasVideo, uploads
<1>8. CASE ManualUpload
  <2>1. UNCHANGED <<uploads, live, gate>> /\ op'.pc = "check" /\ ~op'.gated
    BY <1>8 DEF ManualUpload, Idle, uploads, youtube
  <2>2. QED
    BY <2>1 DEF RecordsOK, RecordedIsLive, UploadedIsRecorded, HasVideo, uploads
<1>9. ASSUME \/ PublishReview \/ OpenSession \/ ResumeSession \/ AlreadyUploaded
             \/ PublishLatestFails
      PROVE  RecordsOK'
  <2>1. /\ UNCHANGED <<uploads, live, gate>>
        /\ op.pc \in Publishing /\ op'.pc # "confirm"
        /\ op'.v = op.v /\ op'.gated = op.gated
    BY <1>1, <1>9 DEF PublishReview, OpenSession, ResumeSession, AlreadyUploaded,
                      PublishLatestFails, OpType, Publishing, Uploading, uploads, youtube
  <2>2. op'.pc \in {"latest", "close"} => HasVideo(op.v)
    <3>1. op.v \in Versions
      BY <1>9 DEF PublishReview, OpenSession, ResumeSession, AlreadyUploaded,
                  PublishLatestFails, VersionsOK, NamesVersion, Steps
    <3>2. CASE AlreadyUploaded
      BY <3>1, <3>2 DEF AlreadyUploaded, HasVideo
    <3>3. CASE PublishLatestFails
      BY <3>3 DEF PublishLatestFails, RecordsOK
    <3>4. CASE PublishReview \/ OpenSession \/ ResumeSession
      BY <1>1, <3>4 DEF PublishReview, OpenSession, ResumeSession, OpType
    <3>5. QED
      BY <1>9, <3>2, <3>3, <3>4
  <2>3. QED
    BY <2>1, <2>2 DEF RecordsOK, RecordedIsLive, UploadedIsRecorded, HasVideo, uploads
<1>10. CASE SaveSession
  <2>1. /\ op.v \in Versions /\ upload[op.v].state = "none"
        /\ upload' = [upload EXCEPT ![op.v] = [state |-> "session", sid |-> op.sid]]
        /\ UNCHANGED <<recorded, public, live, gate>>
    BY <1>10 DEF SaveSession, VersionsOK, NamesVersion, Steps, SessionsOK, youtube
  <2>2. ASSUME NEW w
        PROVE  HasVideo(w)' <=> HasVideo(w)
    BY <1>1, <2>1 DEF HasVideo
  <2>3. \A w \in Versions : HasVideo(w) => upload'[w] = upload[w]
    BY <1>1, <2>1 DEF HasVideo
  <2>4. op.pc \in Publishing /\ op'.pc = "send" /\ op'.v = op.v /\ op'.gated = op.gated
    BY <1>1, <1>10 DEF SaveSession, OpType, Publishing, Uploading
  <2>5. RecordedIsLive'
    BY <2>1, <2>2, <2>3 DEF RecordsOK, RecordedIsLive
  <2>6. UploadedIsRecorded'
    BY <2>1, <2>2 DEF RecordsOK, UploadedIsRecorded
  <2>7. (\A i \in DOMAIN recorded : HasVideo(recorded[i]))'
    BY <2>1, <2>2 DEF RecordsOK
  <2>8. QED
    BY <2>1, <2>4, <2>5, <2>6, <2>7 DEF RecordsOK
<1>11. CASE Transfer
  <2>1. /\ UNCHANGED <<uploads, gate>>
        /\ live' = live \cup {[version |-> op.v, content |-> video[current], sid |-> op.sid]}
    BY <1>11 DEF Transfer
  <2>2. /\ op.pc \in Publishing /\ op'.pc = "confirm"
        /\ op'.v = op.v /\ op'.gated = op.gated /\ op'.sid = op.sid
    BY <1>1, <1>11 DEF Transfer, OpType, Publishing, Uploading
  <2>3. (\E a \in live : a.version = op.v /\ a.sid = op.sid)'
    <3>1. PICK a \in live' : a = [version |-> op.v, content |-> video[current], sid |-> op.sid]
      BY <2>1
    <3>2. QED
      BY <2>2, <3>1
  <2>4. RecordedIsLive' /\ UploadedIsRecorded'
    BY <2>1 DEF RecordsOK, RecordedIsLive, UploadedIsRecorded, HasVideo, uploads
  <2>5. QED
    BY <2>1, <2>2, <2>3, <2>4 DEF RecordsOK, HasVideo, uploads
<1>12. CASE SaveVideo
  <2>1. /\ op.v \in Versions
        /\ upload' = [upload EXCEPT ![op.v] = [state |-> "video", sid |-> op.sid]]
        /\ recorded' = Append(recorded, op.v)
        /\ UNCHANGED <<public, live, gate>>
    BY <1>12 DEF SaveVideo, VersionsOK, NamesVersion, Steps, youtube
  <2>2. ASSUME NEW w, HasVideo(w) \/ w = op.v
        PROVE  HasVideo(w)'
    BY <1>1, <2>1, <2>2 DEF HasVideo
  <2>3. /\ op.pc \in Publishing /\ op'.pc = "latest"
        /\ op'.v = op.v /\ op'.gated = op.gated
    BY <1>1, <1>12 DEF SaveVideo, OpType, Publishing, Uploading
  <2>4. \E a \in live : a.version = op.v /\ a.sid = op.sid
    BY <1>12 DEF SaveVideo, RecordsOK
  <2>5. RecordedIsLive'
    BY <1>1, <2>1, <2>2, <2>4 DEF RecordsOK, RecordedIsLive, HasVideo
  <2>6. UploadedIsRecorded'
    BY <2>1, <2>2 DEF RecordsOK, UploadedIsRecorded
  <2>7. (\A i \in DOMAIN recorded : HasVideo(recorded[i]))'
    <3>1. recorded \in Seq(Folders)
      BY DEF TypeOK, UploadsOK
    <3>2. \A i \in DOMAIN recorded' : i \in DOMAIN recorded \/ recorded'[i] = op.v
      BY <2>1, <3>1
    <3>3. \A i \in DOMAIN recorded : recorded'[i] = recorded[i]
      BY <2>1, <3>1
    <3>4. QED
      BY <2>2, <3>2, <3>3 DEF RecordsOK
  <2>8. QED
    BY <2>1, <2>2, <2>3, <2>5, <2>6, <2>7 DEF RecordsOK
<1>13. CASE PublishLatest
  <2>1. UNCHANGED <<upload, recorded, live, gate>>
    BY <1>13 DEF PublishLatest, youtube
  <2>2. op'.pc = "close" /\ op'.v = op.v /\ op'.gated = op.gated /\ op.pc = "latest"
    BY <1>1, <1>13 DEF PublishLatest, OpType
  <2>3. public' = public \/ HasVideo(public')
    BY <1>13 DEF PublishLatest, OwnUploads, RecordsOK
  <2>4. QED
    BY <2>1, <2>2, <2>3
       DEF RecordsOK, RecordedIsLive, UploadedIsRecorded, HasVideo, Publishing
<1>14. CASE Close
  <2>1. UNCHANGED <<uploads, live>> /\ op'.pc \notin Publishing
    BY <1>14 DEF Close, Idle, Publishing, Uploading, uploads, youtube
  <2>2. gate'.token = gate.token
        /\ (gate'.state = "uploaded" => gate.state = "uploaded" \/ op.gated)
    BY <1>1, <1>14 DEF Close, GateType
  <2>3. op.gated => HasVideo(gate.token.review)
    BY <1>14 DEF Close, RecordsOK, Publishing
  <2>4. QED
    BY <2>1, <2>2, <2>3
       DEF RecordsOK, RecordedIsLive, UploadedIsRecorded, HasVideo, Publishing, Uploading, uploads
<1>15. QED
  BY <1>2, <1>3, <1>4, <1>5, <1>6, <1>7, <1>8, <1>9, <1>10, <1>11, <1>12, <1>13, <1>14
     DEF Next, Produce, Poll, Tick, Command, Edit, Publish

-----------------------------------------------------------------------------
LEMMA InitInvariant == Init => GateInvariant
<1> SUFFICES ASSUME Init
             PROVE  GateInvariant
  OBVIOUS
<1>1. TypeOK
  BY InitType
<1>2. op.pc = "idle"
  BY DEF Init, Idle
<1>3. VersionsOK /\ EditOK
  BY <1>2, ZeroFolder, ShortsAssumption
     DEF Init, VersionsOK, EditOK, NamesVersion, Reviews, Steps
<1>4. SessionsOK
  BY <1>2 DEF Init, SessionsOK, Uploading
<1>5. RecordsOK
  BY <1>2 DEF Init, RecordsOK, RecordedIsLive, UploadedIsRecorded, HasVideo, Publishing,
              Uploading
<1>6. QED
  BY <1>1, <1>3, <1>4, <1>5 DEF GateInvariant

LEMMA NextInvariant == GateInvariant /\ [Next]_vars => GateInvariant'
BY NextType, FoldersStep, SessionsStep, RecordsStep DEF GateInvariant

(* The invariant the safety properties rest on, for every number of versions, *)
(* sessions and interrupted operations.                                     *)
THEOREM InvariantHolds == Spec => []GateInvariant
BY InitInvariant, NextInvariant, PTL DEF Spec

(* approval.json, review.json, upload.json and the processes keep their shape *)
(* whatever is interrupted.                                                 *)
THEOREM TypeCorrect == Spec => []TypeOK
<1>1. GateInvariant => TypeOK
  BY DEF GateInvariant
<1>2. QED
  BY <1>1, InvariantHolds, PTL

(* A version is never on the channel twice: its two videos would come from one *)
(* session, and a session makes one video.                                  *)
THEOREM NeverTwice == Spec => []OneVideoPerVersion
<1>1. GateInvariant => OneVideoPerVersion
  <2> SUFFICES ASSUME GateInvariant, NEW a \in live, NEW b \in live, a.version = b.version
               PROVE  a = b
    BY DEF OneVideoPerVersion
  <2>1. a \in VideoType /\ b \in VideoType
    BY DEF GateInvariant, TypeOK, YouTubeOK
  <2>2. a.content = b.content /\ a.sid = b.sid
    BY DEF GateInvariant, SessionsOK
  <2>3. QED
    BY <2>1, <2>2 DEF VideoType
<1>2. QED
  BY <1>1, InvariantHolds, PTL

(* A video_id in an upload.json and the public page speak of a video that is *)
(* on the channel.                                                          *)
THEOREM RecordsAreTrue == Spec => []RecordedIsLive
<1>1. GateInvariant => RecordedIsLive
  BY DEF GateInvariant, RecordsOK
<1>2. QED
  BY <1>1, InvariantHolds, PTL

(* approval.json is "uploaded" only when the version it names has its video_id *)
(* on file, so no interrupted or repeated tick ends a day without its video.  *)
THEOREM UploadsAreRecorded == Spec => []UploadedIsRecorded
<1>1. GateInvariant => UploadedIsRecorded
  BY DEF GateInvariant, RecordsOK
<1>2. QED
  BY <1>1, InvariantHolds, PTL

(* An edit that stops half way never leaves the day on a replaced version.  *)
THEOREM DayStaysReviewable == Spec => []CurrentNeverSuperseded
<1>1. GateInvariant => CurrentNeverSuperseded
  BY DEF GateInvariant, EditOK, CurrentNeverSuperseded
<1>2. QED
  BY <1>1, InvariantHolds, PTL
-----------------------------------------------------------------------------
(* The promise of Publication, and what is put on the channel.               *)
(*                                                                           *)
(* Two orders carry the argument.  The files of a day are written one after  *)
(* the other, so a video that is the one of review.json has the script of    *)
(* that review.json (WrittenInOrder).  And a fingerprint that was left does  *)
(* not come back (TokensOK), so a token on hold stays on hold until it is    *)
(* approved, whatever is registered in between.                              *)

Producing == {"render", "script", "record", "mark", "point"}

(* scenario, video, script and review.json of a folder follow each other.   *)
InOrder(f) ==
  /\ review[f] <= script[f] /\ script[f] <= video[f]
  /\ video[f] <= scenario[f] /\ scenario[f] <= versions
  /\ f > 0 => scenario[f] \in {0, f}

WrittenInOrder ==
  /\ \A f \in Folders : InOrder(f)
  /\ current > 0 => review[current] = current

(* How far a production or an edit has come.                                *)
ProductionOK ==
  /\ op.pc \in Producing => op.v = versions /\ scenario[0] = op.v /\ current < op.v
  /\ op.pc \in {"render", "script", "record"} => review[0] < op.v
  /\ op.pc \in {"script", "record", "mark", "point"} => video[0] = op.v
  /\ op.pc \in {"record", "mark", "point"} => script[0] = op.v
  /\ op.pc \in {"mark", "point"} => review[0] = op.v
  /\ op.pc = "switch" => op.v = versions /\ review[op.v] = op.v /\ scenario[current] < op.v

(* Every change of the day's fingerprint makes it larger.                   *)
Rank(t) == t.scenario + t.script + t.review

Left(t, u) == t = u \/ Rank(t) < Rank(u)

TokensOK ==
  /\ Left(gate.token, CurrentToken)
  /\ \A t \in held : Left(t, gate.token)
  /\ ~GateExists => held = {}

(* What an approval, a delivery and a hold mean for the gate's token.       *)
OperatorKnows ==
  /\ gate.delivered => gate.token \in inbox
  /\ poll.pc = "ack" => poll.token \in inbox
  /\ gate.token \in held => gate.state = "paused"

Open == gate.state \in {"approved", "uploaded"}

(* Why a gate is open.                                                      *)
Warranted ==
  Open => \/ gate.token \in consent
          \/ /\ gate.token \in inbox /\ AutoPublish
             /\ gate.timer = "expired" /\ gate.reason = "timeout"

(* The operator's word at the console, where no gate exists.                *)
Told ==
  ~GateExists /\ status[current] = "reviewed" /\ video[current] = review[current] =>
    \E t \in consent : t.review = review[current] /\ t.script = script[current]

(* An operation that publishes does so for the gate and the day it found.   *)
Launched ==
  /\ op.pc \in Publishing /\ GateExists => gate.token = CurrentToken /\ Open
  /\ op.pc \in Publishing /\ op.gated => GateExists
  /\ op.pc \in Publishing => op.v = review[current]
  /\ op.pc = "review" => op.gated
  /\ op.pc \in Uploading => status[current] = "reviewed" /\ op.sid > 0

SessionsNumbered == \A v \in Versions : upload[v].state # "none" => upload[v].sid > 0

(* A timer published nothing beside a recorded video.                       *)
TimedOK ==
  Open /\ gate.token \notin consent /\ gate.token = CurrentToken =>
    \A w \in Versions \ {gate.token.review} : ~HasVideo(w)

PromiseInvariant ==
  /\ GateInvariant
  /\ WrittenInOrder /\ ProductionOK
  /\ TokensOK /\ OperatorKnows /\ Warranted /\ Told
  /\ Launched /\ SessionsNumbered /\ TimedOK

-----------------------------------------------------------------------------
(* Files                                                                   *)

LEMMA FoldersAreNumbers == Folders \subseteq Nat
BY ShortsAssumption DEF Folders

Written == <<scenario, video, script, review, current, versions>>

LEMMA Rest ==
  ASSUME WrittenInOrder, ProductionOK, UNCHANGED Written,
         op' = op \/ op'.pc \notin Producing \cup {"switch"}
  PROVE  WrittenInOrder' /\ ProductionOK'
<1>1. WrittenInOrder'
  BY DEF WrittenInOrder, InOrder, Written
<1>2. ProductionOK'
  BY DEF ProductionOK, Written, Producing
<1> QED
  BY <1>1, <1>2

LEMMA WritingSteps ==
  ASSUME TypeOK, [Next]_vars
  PROVE  \/ UNCHANGED Written /\ (op' = op \/ op'.pc \notin Producing \cup {"switch"})
         \/ ProduceScenario \/ ProduceVideo \/ ProduceScript \/ ProduceReview \/ ProduceMark
         \/ ProducePoint \/ EditRender \/ EditSwitch
<1> DEFINE Quiet == UNCHANGED Written /\ (op' = op \/ op'.pc \notin Producing \cup {"switch"})
<1>1. ASSUME Calm PROVE Quiet
  BY <1>1 DEF Calm, files, Written, Producing
<1>2. ASSUME Inner PROVE Quiet
  BY <1>2 DEF Inner, files, Written, Producing, Publishing, Uploading
<1>3. CASE HoldReview \/ EditBegin \/ EditRetire \/ PublishReview
  BY <1>3 DEF HoldReview, EditBegin, EditRetire, PublishReview, At, Goto, Idle, TypeOK, OpType,
              Written, Producing
<1>4. CASE ReviseUngated \/ Complete \/ ManualUpload \/ TickPublish
  BY <1>4 DEF ReviseUngated, Complete, ManualUpload, TickPublish, StartPublish, Idle, files,
              Written, Producing
<1>5. CASE \E t \in inbox \cup {gate.token} : Approve(t) \/ Pause(t) \/ Revise(t)
  BY <1>5 DEF Approve, Pause, Revise, Hold, StartPublish, Idle, files, Written, Producing
<1> QED
  BY <1>1, <1>2, <1>3, <1>4, <1>5, CalmSteps, InnerSteps
     DEF Next, Produce, Poll, Tick, Command, Edit, Publish

(* A write in one folder leaves the others in order.                        *)
LEMMA OtherFolders ==
  ASSUME NEW g \in Folders, \A f \in Folders : InOrder(f), InOrder(g)',
         \A f \in Folders \ {g} : /\ scenario'[f] = scenario[f] /\ video'[f] = video[f]
                                 /\ script'[f] = script[f] /\ review'[f] = review[f],
         TypeOK, versions' = versions \/ versions' = versions + 1
  PROVE  \A f \in Folders : InOrder(f)'
<1> SUFFICES ASSUME NEW f \in Folders, f # g PROVE InOrder(f)'
  OBVIOUS
<1>1. /\ scenario'[f] = scenario[f] /\ video'[f] = video[f]
      /\ script'[f] = script[f] /\ review'[f] = review[f]
  OBVIOUS
<1>2. versions \in Nat /\ scenario[f] \in Nat
  BY FoldersAreNumbers DEF TypeOK, JobsOK, FilesOK
<1> QED
  BY <1>1, <1>2 DEF InOrder

LEMMA FilesStep ==
  ASSUME GateInvariant, WrittenInOrder, ProductionOK, [Next]_vars
  PROVE  WrittenInOrder' /\ ProductionOK'
<1> USE ShortsAssumption, ZeroFolder DEF At, Goto
<1>0. /\ TypeOK /\ FilesOK /\ op \in OpType /\ versions \in Folders /\ current \in Folders
      /\ current <= versions
  BY DEF GateInvariant, TypeOK, VersionsOK, JobsOK, FilesOK
<1>a. /\ scenario[0] \in Nat /\ video[0] \in Nat /\ script[0] \in Nat /\ review[0] \in Nat
      /\ versions \in Nat /\ current \in Nat /\ scenario[current] \in Nat /\ op.v \in Nat
  BY <1>0, OpFields, FoldersAreNumbers DEF FilesOK
<1>b. InOrder(0) /\ InOrder(current)
  BY <1>0 DEF WrittenInOrder
<1>1. CASE ProduceScenario
  <2>1. /\ scenario' = [scenario EXCEPT ![0] = versions + 1] /\ versions' = versions + 1
        /\ UNCHANGED <<video, script, review, current>>
        /\ op'.pc = "render" /\ op'.v = versions + 1
    BY <1>1 DEF ProduceScenario, Idle
  <2>2. scenario'[0] = versions + 1
    BY <1>0, <2>1 DEF FilesOK
  <2>3. InOrder(0)'
    BY <1>a, <1>b, <2>1, <2>2 DEF InOrder
  <2>4. \A f \in Folders : InOrder(f)'
    BY <1>0, <2>1, <2>3, OtherFolders DEF FilesOK, WrittenInOrder
  <2>5. ProductionOK'
    BY <1>0, <1>a, <1>b, <2>1, <2>2 DEF InOrder, ProductionOK, Producing
  <2> QED
    BY <2>1, <2>4, <2>5 DEF WrittenInOrder
<1>2. CASE ProduceVideo
  <2>1. /\ video' = [video EXCEPT ![0] = op.v]
        /\ UNCHANGED <<scenario, script, review, current, versions>>
        /\ op.pc = "render" /\ op'.pc = "script" /\ op'.v = op.v
    BY <1>0, <1>2 DEF ProduceVideo, OpType
  <2>2. op.v = scenario[0] /\ op.v = versions /\ video'[0] = op.v
    BY <1>0, <2>1 DEF ProductionOK, Producing, FilesOK
  <2>3. InOrder(0)'
    BY <1>a, <1>b, <2>1, <2>2 DEF InOrder
  <2>4. \A f \in Folders : InOrder(f)'
    BY <1>0, <2>1, <2>3, OtherFolders DEF FilesOK, WrittenInOrder
  <2>5. ProductionOK'
    BY <2>1, <2>2 DEF ProductionOK, Producing
  <2> QED
    BY <2>1, <2>4, <2>5 DEF WrittenInOrder
<1>3. CASE ProduceScript
  <2>1. /\ script' = [script EXCEPT ![0] = op.v]
        /\ UNCHANGED <<scenario, video, review, current, versions>>
        /\ op.pc = "script" /\ op'.pc = "record" /\ op'.v = op.v
    BY <1>0, <1>3 DEF ProduceScript, OpType
  <2>2. op.v = scenario[0] /\ op.v = versions /\ op.v = video[0] /\ script'[0] = op.v
    BY <1>0, <2>1 DEF ProductionOK, Producing, FilesOK
  <2>3. InOrder(0)'
    BY <1>a, <1>b, <2>1, <2>2 DEF InOrder
  <2>4. \A f \in Folders : InOrder(f)'
    BY <1>0, <2>1, <2>3, OtherFolders DEF FilesOK, WrittenInOrder
  <2>5. ProductionOK'
    BY <2>1, <2>2 DEF ProductionOK, Producing
  <2> QED
    BY <2>1, <2>4, <2>5 DEF WrittenInOrder
<1>4. CASE ProduceReview
  <2>1. /\ review' = [review EXCEPT ![0] = op.v]
        /\ UNCHANGED <<scenario, video, script, current, versions>>
        /\ op.pc = "record" /\ op'.pc = "mark" /\ op'.v = op.v
    BY <1>0, <1>4 DEF ProduceReview, OpType
  <2>2. /\ op.v = scenario[0] /\ op.v = versions /\ op.v = video[0] /\ op.v = script[0]
        /\ review'[0] = op.v
    BY <1>0, <2>1 DEF ProductionOK, Producing, FilesOK
  <2>3. InOrder(0)'
    BY <1>a, <1>b, <2>1, <2>2 DEF InOrder
  <2>4. \A f \in Folders : InOrder(f)'
    BY <1>0, <2>1, <2>3, OtherFolders DEF FilesOK, WrittenInOrder
  <2>5. current > 0 => review'[current] = review[current]
    BY <1>0, <1>a, <2>1 DEF FilesOK
  <2>6. ProductionOK'
    BY <2>1, <2>2 DEF ProductionOK, Producing
  <2> QED
    BY <2>1, <2>4, <2>5, <2>6 DEF WrittenInOrder
<1>5. CASE ProduceMark
  <2>1. UNCHANGED Written /\ op.pc = "mark" /\ op'.pc = "point" /\ op'.v = op.v
    BY <1>0, <1>5 DEF ProduceMark, OpType, Written
  <2>2. ProductionOK'
    BY <2>1 DEF ProductionOK, Written, Producing
  <2> QED
    BY <2>1, <2>2 DEF WrittenInOrder, InOrder, Written
<1>6. CASE ProducePoint
  <2>1. current' = 0 /\ UNCHANGED <<scenario, video, script, review, versions>> /\ op'.pc = "idle"
    BY <1>6 DEF ProducePoint, Idle
  <2>2. ProductionOK'
    BY <2>1 DEF ProductionOK, Producing
  <2> QED
    BY <2>1, <2>2 DEF WrittenInOrder, InOrder
<1>7. CASE EditRender
  <2>1. PICK v \in Folders : v = versions + 1
    BY <1>0, <1>7 DEF EditRender, Folders
  <2>2. /\ versions' = v
        /\ scenario' = [scenario EXCEPT ![v] = v] /\ video' = [video EXCEPT ![v] = v]
        /\ script' = [script EXCEPT ![v] = v] /\ review' = [review EXCEPT ![v] = v]
        /\ op'.pc = "switch" /\ op'.v = v
        /\ UNCHANGED current
    BY <1>0, <1>7, <2>1 DEF EditRender, OpType
  <2>3. scenario'[v] = v /\ video'[v] = v /\ script'[v] = v /\ review'[v] = v
    BY <1>0, <2>1, <2>2 DEF FilesOK
  <2>4. InOrder(v)'
    BY <1>a, <2>1, <2>2, <2>3 DEF InOrder
  <2>5. \A f \in Folders : InOrder(f)'
    BY <1>0, <2>1, <2>2, <2>4, OtherFolders DEF FilesOK, WrittenInOrder
  <2>6. review'[current] = review[current] /\ scenario'[current] = scenario[current]
    BY <1>0, <1>a, <2>1, <2>2 DEF FilesOK
  <2>7. scenario[current] < v
    BY <1>a, <1>b, <2>1 DEF InOrder
  <2>8. ProductionOK'
    BY <2>2, <2>3, <2>6, <2>7 DEF ProductionOK, Producing
  <2> QED
    BY <2>2, <2>5, <2>6, <2>8 DEF WrittenInOrder
<1>8. CASE EditSwitch
  <2>1. /\ current' = op.v /\ UNCHANGED <<scenario, video, script, review, versions>>
        /\ op.pc = "switch" /\ op'.pc = "retire"
    BY <1>0, <1>8 DEF EditSwitch, OpType
  <2>2. ProductionOK'
    BY <2>1 DEF ProductionOK, Producing
  <2>3. review[op.v] = op.v
    BY <2>1 DEF ProductionOK
  <2> QED
    BY <2>1, <2>2, <2>3 DEF WrittenInOrder, InOrder
<1> QED
  BY <1>0, <1>1, <1>2, <1>3, <1>4, <1>5, <1>6, <1>7, <1>8, WritingSteps, Rest

(* A video that is the one of review.json was made with the script on file. *)
LEMMA OneVersion ==
  ASSUME TypeOK, WrittenInOrder, NEW f \in Folders, video[f] = review[f]
  PROVE  script[f] = video[f]
BY ShortsAssumption DEF TypeOK, FilesOK, Folders, WrittenInOrder, InOrder

-----------------------------------------------------------------------------
(* Fingerprints                                                            *)

LEMMA RankType ==
  ASSUME NEW t \in Tokens
  PROVE  Rank(t) \in Nat
BY ShortsAssumption DEF Tokens, Folders, Rank

LEMMA RankOfCurrent ==
  /\ Rank(CurrentToken) = scenario[current] + script[current] + review[current]
  /\ Rank(CurrentToken') = scenario'[current'] + script'[current'] + review'[current']
BY DEF CurrentToken, Fingerprint, Rank

LEMMA SameToken ==
  ASSUME current' = current, scenario'[current] = scenario[current],
         script'[current] = script[current], review'[current] = review[current]
  PROVE  CurrentToken' = CurrentToken
BY DEF CurrentToken, Fingerprint

LEMMA TokenMoves ==
  ASSUME GateInvariant, WrittenInOrder, ProductionOK, [Next]_vars
  PROVE  Left(CurrentToken, CurrentToken')
<1> USE ShortsAssumption, ZeroFolder, RankOfCurrent DEF At, Goto, Left
<1>0. /\ TypeOK /\ FilesOK /\ op \in OpType /\ versions \in Folders /\ current \in Folders
      /\ current <= versions
  BY DEF GateInvariant, TypeOK, VersionsOK, JobsOK, FilesOK
<1>a. /\ scenario[current] \in Nat /\ video[current] \in Nat
      /\ script[current] \in Nat /\ review[current] \in Nat
      /\ versions \in Nat /\ current \in Nat /\ op.v \in Nat
  BY <1>0, OpFields, FoldersAreNumbers DEF FilesOK
<1>b. InOrder(current)
  BY <1>0 DEF WrittenInOrder
<1>1. CASE UNCHANGED Written \/ ProduceVideo \/ ProduceMark
  BY <1>1, SameToken DEF ProduceVideo, ProduceMark, Written
<1>2. CASE ProduceScenario
  <2>1. /\ scenario' = [scenario EXCEPT ![0] = versions + 1]
        /\ UNCHANGED <<script, review, current>>
    BY <1>2 DEF ProduceScenario
  <2>2. CASE current = 0
    <3>1. scenario'[current'] = versions + 1 /\ scenario[current] <= versions
      BY <1>0, <1>b, <2>1, <2>2 DEF FilesOK, InOrder
    <3> QED
      BY <1>a, <2>1, <3>1
  <2>3. CASE current # 0
    BY <1>0, <2>1, <2>3, SameToken DEF FilesOK
  <2> QED
    BY <2>2, <2>3
<1>3. CASE ProduceScript
  <2>1. /\ script' = [script EXCEPT ![0] = op.v]
        /\ UNCHANGED <<scenario, review, current>> /\ op.v = scenario[0]
    BY <1>3 DEF ProduceScript, ProductionOK, Producing
  <2>2. CASE current = 0 /\ script[0] # op.v
    <3>1. script'[current'] = op.v /\ script[current] < op.v
      BY <1>0, <1>a, <1>b, <2>1, <2>2 DEF FilesOK, InOrder
    <3> QED
      BY <1>a, <2>1, <3>1
  <2>3. CASE current # 0 \/ script[0] = op.v
    BY <1>0, <2>1, <2>3, SameToken DEF FilesOK
  <2> QED
    BY <2>2, <2>3
<1>4. CASE ProduceReview
  <2>1. /\ review' = [review EXCEPT ![0] = op.v]
        /\ UNCHANGED <<scenario, script, current>> /\ op.v = scenario[0]
    BY <1>4 DEF ProduceReview, ProductionOK, Producing
  <2>2. CASE current = 0 /\ review[0] # op.v
    <3>1. review'[current'] = op.v /\ review[current] < op.v
      BY <1>0, <1>a, <1>b, <2>1, <2>2 DEF FilesOK, InOrder
    <3> QED
      BY <1>a, <2>1, <3>1
  <2>3. CASE current # 0 \/ review[0] = op.v
    BY <1>0, <2>1, <2>3, SameToken DEF FilesOK
  <2> QED
    BY <2>2, <2>3
<1>5. CASE ProducePoint
  <2>1. /\ current' = 0 /\ UNCHANGED <<scenario, script, review>>
        /\ scenario[0] = op.v /\ script[0] = op.v /\ review[0] = op.v /\ current < op.v
    BY <1>5 DEF ProducePoint, ProductionOK, Producing
  <2>2. CASE current = 0
    BY <2>1, <2>2, SameToken
  <2>3. CASE current # 0
    <3>1. scenario[current] = current /\ script[current] <= current /\ review[current] <= current
      BY <1>a, <1>b, <2>3 DEF WrittenInOrder, InOrder
    <3> QED
      BY <1>a, <2>1, <3>1
  <2> QED
    BY <2>2, <2>3
<1>6. CASE EditRender
  <2>1. /\ scenario' = [scenario EXCEPT ![versions + 1] = versions + 1]
        /\ script' = [script EXCEPT ![versions + 1] = versions + 1]
        /\ review' = [review EXCEPT ![versions + 1] = versions + 1]
        /\ UNCHANGED current
    BY <1>6 DEF EditRender
  <2>2. current # versions + 1
    BY <1>0, <1>a
  <2> QED
    BY <1>0, <2>1, <2>2, SameToken DEF FilesOK
<1>7. CASE EditSwitch
  <2>1. /\ current' = op.v /\ UNCHANGED <<scenario, script, review>>
        /\ review[op.v] = op.v /\ scenario[current] < op.v
    BY <1>7 DEF EditSwitch, ProductionOK
  <2>2. op.v \in Folders
    BY <1>0, OpFields
  <2>3. scenario[op.v] \in Nat /\ script[op.v] \in Nat /\ video[op.v] \in Nat
    BY <1>0, <2>2 DEF FilesOK, Folders
  <2>4. op.v <= script[op.v] /\ op.v <= scenario[op.v]
    BY <1>a, <2>1, <2>2, <2>3 DEF WrittenInOrder, InOrder
  <2> QED
    BY <1>a, <1>b, <2>1, <2>3, <2>4 DEF InOrder
<1> QED
  BY <1>0, <1>1, <1>2, <1>3, <1>4, <1>5, <1>6, <1>7, WritingSteps

(* A fingerprint that was left does not come back.                          *)
LEMMA NoReturn ==
  ASSUME GateInvariant, GateInvariant', WrittenInOrder, ProductionOK, TokensOK, [Next]_vars
  PROVE  /\ Left(gate.token, CurrentToken')
         /\ gate.token = CurrentToken' => gate.token = CurrentToken
<1>1. /\ CurrentToken \in Tokens /\ CurrentToken' \in Tokens /\ gate.token \in Tokens
  BY TokenType, TypeCorrect DEF GateInvariant, TypeOK, GateType, FilesOK, CurrentToken, Fingerprint,
     Tokens
<1>2. Left(gate.token, CurrentToken) /\ Left(CurrentToken, CurrentToken')
  BY TokenMoves DEF TokensOK
<1>3. /\ Rank(CurrentToken) \in Nat /\ Rank(CurrentToken') \in Nat /\ Rank(gate.token) \in Nat
  BY <1>1, RankType
<1> QED
  BY <1>2, <1>3 DEF Left

-----------------------------------------------------------------------------
(* The gate and the operator                                               *)

(* Most steps leave the gate and the operator alone.                        *)
LEMMA GateSteps ==
  ASSUME TypeOK, [Next]_vars
  PROVE  \/ UNCHANGED <<gate, operator>> /\ (poll' = poll \/ poll'.pc = "idle")
         \/ Register \/ PollList \/ PollSend \/ PollAck \/ DeadlinePasses \/ Tick
         \/ EditRegister \/ Complete \/ Close
         \/ \E t \in inbox \cup {gate.token} : Approve(t) \/ Pause(t) \/ Revise(t)
<1> DEFINE Quiet == UNCHANGED <<gate, operator>> /\ (poll' = poll \/ poll'.pc = "idle")
<1>1. ASSUME \/ ProduceScenario \/ ProduceVideo \/ ProduceScript \/ ProduceReview
             \/ ProduceMark \/ ProducePoint \/ AlreadyProduced \/ Unqueue
      PROVE  Quiet
  BY <1>1 DEF ProduceScenario, ProduceVideo, ProduceScript, ProduceReview, ProduceMark,
              ProducePoint, AlreadyProduced, Unqueue
<1>2. ASSUME PollFail \/ ReviseUngated \/ ManualUpload
             \/ HoldReview \/ EditNothing \/ EditBegin \/ EditRender \/ EditSwitch \/ EditRetire
      PROVE  Quiet
  BY <1>2 DEF PollFail, ReviseUngated, ManualUpload, HoldReview, EditNothing, EditBegin,
              EditRender, EditSwitch, EditRetire
<1>3. ASSUME \/ PublishReview \/ Refuse \/ AlreadyUploaded \/ ResumeSession \/ OpenSession
             \/ SaveSession \/ Transfer \/ TransferRefused \/ SaveVideo \/ PublishLatest
             \/ PublishLatestFails
      PROVE  Quiet
  BY <1>3 DEF PublishReview, Refuse, AlreadyUploaded, ResumeSession, OpenSession, SaveSession,
              Transfer, TransferRefused, SaveVideo, PublishLatest, PublishLatestFails
<1>4. ASSUME Abort \/ ExpireSession \/ UNCHANGED vars
      PROVE  Quiet
  BY <1>4 DEF Abort, ExpireSession, vars
<1> QED
  BY <1>1, <1>2, <1>3, <1>4 DEF Next, Produce, Poll, Command, Edit, Publish

(* A gate is replaced only by one for a fingerprint it was not made for.    *)
Renewed ==
  /\ gate' = NewGate(CurrentToken) /\ UNCHANGED <<files, operator>>
  /\ gate.token # CurrentToken \/ ~GateExists

(* What a step does to the gate's token and to the tokens on hold.          *)
LEMMA HoldSteps ==
  ASSUME TypeOK, Launched, [Next]_vars
  PROVE  \/ gate'.token = gate.token /\ (GateExists <=> GateExists') /\ held' \subseteq held
         \/ gate'.token = gate.token /\ GateExists' /\ held' = held \cup {gate.token}
         \/ held' = held /\ Renewed
<1>0. gate \in GateType
  BY DEF TypeOK
<1>1. CASE UNCHANGED <<gate, operator>>
  BY <1>1 DEF operator, GateExists
<1>2. CASE Register \/ EditRegister
  BY <1>2 DEF Register, EditRegister, Registered, operator, GateExists, Renewed
<1>3. CASE PollList
  <2>1. gate' = Repaired /\ GateExists /\ UNCHANGED <<files, operator>>
    BY <1>3 DEF PollList
  <2> QED
    BY <2>1 DEF Repaired, GateExists, Renewed, operator
<1>4. CASE PollSend \/ Complete
  BY <1>4 DEF PollSend, Complete, GateExists
<1>5. CASE PollAck \/ DeadlinePasses
  BY <1>0, <1>5 DEF PollAck, DeadlinePasses, GateExists, GateType, operator
<1>6. CASE Tick
  BY <1>0, <1>6
     DEF Tick, TickPublish, TickHold, ApprovedGate, Checked, GateExists, GateType, operator
<1>7. CASE Close
  BY <1>0, <1>7 DEF Close, At, Launched, Publishing, GateExists, GateType, operator
<1>8. ASSUME NEW t \in inbox \cup {gate.token}, Approve(t) \/ Pause(t) \/ Revise(t)
      PROVE  \/ gate'.token = gate.token /\ (GateExists <=> GateExists') /\ held' \subseteq held
             \/ gate'.token = gate.token /\ GateExists' /\ held' = held \cup {gate.token}
  BY <1>0, <1>8 DEF Approve, Pause, Revise, Hold, Checked, ApprovedGate, GateExists, GateType
<1> QED
  BY <1>1, <1>2, <1>3, <1>4, <1>5, <1>6, <1>7, <1>8, GateSteps

LEMMA TokensStep ==
  ASSUME PromiseInvariant, GateInvariant', [Next]_vars
  PROVE  TokensOK'
<1>1. /\ TypeOK /\ Launched /\ TokensOK
      /\ Left(gate.token, CurrentToken')
  BY NoReturn DEF PromiseInvariant, GateInvariant
<1>2. CASE /\ gate'.token = gate.token /\ (GateExists <=> GateExists')
           /\ held' \subseteq held
  BY <1>1, <1>2 DEF TokensOK
<1>3. CASE gate'.token = gate.token /\ GateExists' /\ held' = held \cup {gate.token}
  BY <1>1, <1>3 DEF TokensOK, Left
<1>4. CASE held' = held /\ Renewed
  <2>1. gate'.token = CurrentToken /\ GateExists' /\ CurrentToken' = CurrentToken
    BY <1>4 DEF Renewed, NewGate, GateExists, CurrentToken, Fingerprint, files
  <2>2. /\ CurrentToken \in Tokens /\ gate.token \in Tokens /\ held \subseteq Tokens
    BY <1>1, TokenType DEF TypeOK, GateType, OperatorOK
  <2>3. ASSUME NEW t \in held PROVE Left(t, CurrentToken)
    BY <1>1, <2>2, RankType DEF TokensOK, Left
  <2> QED
    BY <1>4, <2>1, <2>3 DEF TokensOK, Left
<1> QED
  BY <1>1, <1>2, <1>3, <1>4, HoldSteps

(* The token of a renewed gate was never put on hold.                       *)
LEMMA FreshToken ==
  ASSUME TypeOK, TokensOK, Renewed
  PROVE  CurrentToken \notin held
<1>1. /\ CurrentToken \in Tokens /\ gate.token \in Tokens /\ held \subseteq Tokens
  BY TokenType DEF TypeOK, GateType, OperatorOK
<1>2. Rank(CurrentToken) \in Nat /\ Rank(gate.token) \in Nat
  BY <1>1, RankType
<1> QED
  BY <1>1, <1>2 DEF TokensOK, Left, Renewed

LEMMA OperatorStep ==
  ASSUME PromiseInvariant, [Next]_vars
  PROVE  OperatorKnows'
<1>1. /\ TypeOK /\ TokensOK /\ OperatorKnows /\ Launched
      /\ gate \in GateType /\ poll \in PollType
  BY DEF PromiseInvariant, GateInvariant, TypeOK
<1>2. CASE UNCHANGED <<gate, operator>> /\ (poll' = poll \/ poll'.pc = "idle")
  BY <1>1, <1>2 DEF OperatorKnows, operator
<1>3. ASSUME Renewed, poll' = poll \/ poll'.pc # "ack"
      PROVE  OperatorKnows'
  BY <1>1, <1>3, FreshToken DEF OperatorKnows, Renewed, NewGate, operator
<1>4. CASE Register \/ EditRegister
  <2>1. (gate' = gate \/ Renewed) /\ UNCHANGED <<operator, poll>>
    BY <1>4 DEF Register, EditRegister, Registered, Renewed, operator
  <2> QED
    BY <1>1, <1>3, <2>1 DEF OperatorKnows, operator
<1>5. CASE PollList
  <2>1. (gate' = gate \/ Renewed) /\ UNCHANGED operator /\ poll'.pc = "send"
    BY <1>5 DEF PollList, Repaired, Renewed, operator
  <2> QED
    BY <1>1, <1>3, <2>1 DEF OperatorKnows, operator
<1>6. CASE PollSend
  <2>1. gate' = gate /\ held' = held /\ inbox' = inbox \cup {poll.token} /\ poll'.token = poll.token
    BY <1>1, <1>6 DEF PollSend, PollType
  <2> QED
    BY <1>1, <2>1 DEF OperatorKnows
<1>7. CASE PollAck
  <2>1. UNCHANGED operator /\ poll.pc = "ack" /\ poll'.pc = "idle"
    BY <1>7 DEF PollAck, operator
  <2>2. \/ gate' = gate
        \/ gate.token = poll.token /\ gate'.token = gate.token /\ gate'.state = gate.state
    BY <1>1, <1>7 DEF PollAck, Checked, GateType
  <2> QED
    BY <1>1, <2>1, <2>2 DEF OperatorKnows, operator
<1>8. CASE DeadlinePasses
  <2>1. /\ UNCHANGED <<operator, poll>> /\ gate'.token = gate.token
        /\ gate'.state = gate.state /\ gate'.delivered = gate.delivered
    BY <1>1, <1>8 DEF DeadlinePasses, GateType, operator
  <2> QED
    BY <1>1, <2>1 DEF OperatorKnows, operator
<1>9. CASE Tick
  <2>1. /\ UNCHANGED <<operator, poll>> /\ gate'.token = gate.token
        /\ gate'.delivered = gate.delivered
        /\ gate.state # "paused" \/ gate'.state = "paused"
    BY <1>1, <1>9 DEF Tick, TickPublish, TickHold, Ripe, Due, ApprovedGate, GateType, operator
  <2> QED
    BY <1>1, <2>1 DEF OperatorKnows, operator
<1>10. CASE Complete
  BY <1>1, <1>10 DEF Complete, OperatorKnows
<1>11. CASE Close
  <2>1. /\ UNCHANGED <<operator, poll>> /\ gate'.token = gate.token
        /\ gate'.delivered = gate.delivered
        /\ gate' = gate \/ gate.state # "paused"
    BY <1>1, <1>11 DEF Close, At, Launched, Publishing, Open, GateType, operator
  <2> QED
    BY <1>1, <2>1 DEF OperatorKnows, operator
<1>12. ASSUME NEW t \in inbox \cup {gate.token}, Approve(t) \/ Pause(t) \/ Revise(t)
       PROVE  OperatorKnows'
  <2>1. /\ UNCHANGED <<inbox, poll>> /\ gate'.token = gate.token
        /\ gate'.delivered = gate.delivered
        /\ \/ held' = held \ {gate.token}
           \/ gate'.state = "paused"
    BY <1>1, <1>12 DEF Approve, Pause, Revise, Hold, Checked, ApprovedGate, GateType
  <2> QED
    BY <1>1, <2>1 DEF OperatorKnows
<1> QED
  BY <1>1, <1>2, <1>4, <1>5, <1>6, <1>7, <1>8, <1>9, <1>10, <1>11, <1>12, GateSteps

-----------------------------------------------------------------------------
(* Clearance                                                               *)

LEMMA ToldStep ==
  ASSUME PromiseInvariant, GateInvariant', [Next]_vars, GateExists => GateExists',
         consent \subseteq consent'
  PROVE  Told'
<1> USE ZeroFolder DEF At, Goto
<1>1. /\ TypeOK /\ FilesOK /\ op \in OpType /\ current \in Folders /\ Told
      /\ ProductionOK /\ Launched /\ EditOK
      /\ op.v \in Nat /\ review[0] \in Nat
  BY OpFields, FoldersAreNumbers
     DEF PromiseInvariant, GateInvariant, TypeOK, FilesOK, Told
<1>2. ASSUME UNCHANGED <<status, video, script, review, current>>
      PROVE  Told'
  BY <1>1, <1>2 DEF Told
<1>3. CASE Calm \/ Inner \/ ReviseUngated \/ ManualUpload \/ TickPublish
  BY <1>2, <1>3 DEF Calm, Inner, ReviseUngated, ManualUpload, TickPublish, files
<1>4. CASE \E t \in inbox \cup {gate.token} : Approve(t) \/ Pause(t) \/ Revise(t)
  BY <1>2, <1>4 DEF Approve, Pause, Revise, Hold, files
<1>5. CASE ProduceScenario \/ ProduceMark
  BY <1>2, <1>5 DEF ProduceScenario, ProduceMark
<1>6. CASE ProduceVideo
  <2>1. /\ video' = [video EXCEPT ![0] = op.v] /\ review[0] < op.v
        /\ UNCHANGED <<status, script, review, current>>
    BY <1>1, <1>6 DEF ProduceVideo, ProductionOK
  <2>2. current = 0 => video'[current'] # review'[current']
    BY <1>1, <2>1 DEF FilesOK
  <2>3. current # 0 => video'[current'] = video[current]
    BY <1>1, <2>1 DEF FilesOK
  <2> QED
    BY <1>1, <2>1, <2>2, <2>3 DEF Told
<1>7. CASE ProduceScript
  <2>1. /\ script' = [script EXCEPT ![0] = op.v] /\ review[0] < op.v /\ video[0] = op.v
        /\ UNCHANGED <<status, video, review, current>>
    BY <1>1, <1>7 DEF ProduceScript, ProductionOK
  <2>2. current = 0 => video'[current'] # review'[current']
    BY <1>1, <2>1
  <2>3. current # 0 => script'[current'] = script[current]
    BY <1>1, <2>1 DEF FilesOK
  <2> QED
    BY <1>1, <2>1, <2>2, <2>3 DEF Told
<1>8. CASE ProduceReview
  <2>1. /\ review' = [review EXCEPT ![0] = op.v] /\ status' = [status EXCEPT ![0] = "pending"]
        /\ UNCHANGED <<script, video, current>>
    BY <1>8 DEF ProduceReview
  <2>2. current = 0 => status'[current'] # "reviewed"
    BY <1>1, <2>1 DEF FilesOK
  <2>3. current # 0 => review'[current'] = review[current] /\ status'[current'] = status[current]
    BY <1>1, <2>1 DEF FilesOK
  <2> QED
    BY <1>1, <2>1, <2>2, <2>3 DEF Told
<1>9. CASE ProducePoint
  <2>1. status'[current'] = "pending"
    BY <1>1, <1>9 DEF ProducePoint, EditOK
  <2> QED
    BY <2>1 DEF Told
<1>10. CASE HoldReview \/ EditBegin
  <2>1. status'[current'] = "pending"
    BY <1>1, <1>10 DEF HoldReview, EditBegin, FilesOK
  <2> QED
    BY <2>1 DEF Told
<1>11. CASE EditRender
  <2>1. /\ current # versions + 1 /\ current' = current
        /\ video' = [video EXCEPT ![versions + 1] = versions + 1]
        /\ script' = [script EXCEPT ![versions + 1] = versions + 1]
        /\ review' = [review EXCEPT ![versions + 1] = versions + 1]
        /\ status' = [status EXCEPT ![versions + 1] = "pending"]
    <3>1. current <= versions /\ current \in Nat /\ versions \in Nat
      BY <1>1, FoldersAreNumbers DEF PromiseInvariant, GateInvariant, VersionsOK, TypeOK, JobsOK
    <3> QED
      BY <1>11, <3>1 DEF EditRender
  <2>2. UNCHANGED <<status[current], video[current], script[current], review[current]>>
    BY <1>1, <2>1 DEF FilesOK
  <2> QED
    BY <1>1, <2>1, <2>2 DEF Told
<1>12. CASE EditSwitch
  <2>1. status'[current'] = "pending"
    BY <1>1, <1>12 DEF EditSwitch, EditOK
  <2> QED
    BY <2>1 DEF Told
<1>13. CASE EditRetire
  <2>1. /\ status' = [status EXCEPT ![op.old] = "superseded"] /\ op.old # current
        /\ UNCHANGED <<video, script, review, current>>
    BY <1>1, <1>13 DEF EditRetire, EditOK
  <2>2. status'[current'] = status[current]
    BY <1>1, <2>1 DEF FilesOK
  <2> QED
    BY <1>1, <2>1, <2>2 DEF Told
<1>14. CASE Complete
  <2>1. /\ UNCHANGED <<video, script, review, current>>
        /\ GateExists \/ CurrentToken \in consent'
        /\ gate' = gate
    BY <1>14 DEF Complete
  <2> QED
    BY <2>1 DEF Told, CurrentToken, Fingerprint, GateExists
<1>15. CASE PublishReview
  <2>1. GateExists'
    BY <1>1, <1>15 DEF PublishReview, Launched, Publishing
  <2> QED
    BY <2>1 DEF Told
<1> QED
  BY <1>1, <1>3, <1>4, <1>5, <1>6, <1>7, <1>8, <1>9, <1>10, <1>11, <1>12, <1>13, <1>14, <1>15,
     CalmSteps, InnerSteps DEF Next, Produce, Poll, Tick, Command, Edit, Publish

LEMMA WarrantedStep ==
  ASSUME PromiseInvariant, [Next]_vars
  PROVE  Warranted' /\ (GateExists => GateExists') /\ consent \subseteq consent'
<1> DEFINE Goal == Warranted' /\ (GateExists => GateExists') /\ consent \subseteq consent'
<1>1. /\ TypeOK /\ OperatorKnows /\ Launched /\ Warranted /\ gate \in GateType
  BY DEF PromiseInvariant, GateInvariant, TypeOK, Warranted
<1> USE DEF Warranted, Open, GateExists
<1>2. CASE UNCHANGED <<gate, operator>>
  BY <1>1, <1>2 DEF operator
<1>3. CASE Register \/ EditRegister \/ PollList
  <2>1. (gate' = gate \/ gate' = NewGate(CurrentToken)) /\ UNCHANGED operator
    BY <1>3 DEF Register, EditRegister, PollList, Registered, Repaired, operator
  <2> QED
    BY <1>1, <2>1 DEF NewGate, operator
<1>4. CASE PollSend \/ Complete
  <2>1. gate' = gate /\ inbox \subseteq inbox' /\ consent \subseteq consent'
    BY <1>4 DEF PollSend, Complete
  <2> QED
    BY <1>1, <2>1
<1>5. CASE PollAck
  <2>1. (gate' = gate \/ gate'.state = "pending") /\ UNCHANGED operator
    BY <1>1, <1>5 DEF PollAck, GateType
  <2> QED
    BY <1>1, <2>1 DEF operator
<1>6. CASE DeadlinePasses
  <2>1. /\ gate'.token = gate.token /\ gate'.state = gate.state /\ gate.timer = "running"
        /\ UNCHANGED operator
    BY <1>1, <1>6 DEF DeadlinePasses, GateType, operator
  <2> QED
    BY <1>1, <2>1 DEF operator
<1>7. CASE TickPublish
  <2>1. CASE gate.state = "approved"
    BY <1>1, <1>7, <2>1 DEF TickPublish, ApprovedGate, operator
  <2>2. CASE gate.state # "approved"
    <3>1. /\ Due /\ UNCHANGED operator
          /\ gate' = [gate EXCEPT !.state = "approved", !.reason = "timeout"]
      BY <1>7, <2>2 DEF TickPublish, Ripe, ApprovedGate
    <3> QED
      BY <1>1, <3>1 DEF Due, OperatorKnows, GateType, operator
  <2> QED
    BY <2>1, <2>2
<1>8. CASE TickHold
  BY <1>1, <1>8 DEF TickHold, GateType, operator
<1>9. CASE Close
  <2>1. /\ gate' = gate \/ Open
        /\ gate'.token = gate.token /\ gate'.timer = gate.timer /\ gate'.reason = gate.reason
        /\ GateExists => GateExists'
        /\ UNCHANGED operator
    BY <1>1, <1>9 DEF Close, At, Launched, Publishing, GateType, operator
  <2> QED
    BY <1>1, <2>1 DEF operator
<1>10. ASSUME NEW t \in inbox \cup {gate.token}, Approve(t)
       PROVE  Goal
  <2>1. gate'.token = t /\ consent' = consent \cup {t} /\ gate'.state = "approved"
    BY <1>1, <1>10 DEF Approve, Checked, ApprovedGate, GateType
  <2> QED
    BY <2>1
<1>11. ASSUME NEW t \in inbox \cup {gate.token}, Pause(t) \/ Revise(t)
       PROVE  Goal
  BY <1>1, <1>11 DEF Pause, Revise, Hold, GateType
<1> QED
  BY <1>1, <1>2, <1>3, <1>4, <1>5, <1>6, <1>7, <1>8, <1>9, <1>10, <1>11, GateSteps DEF Tick

-----------------------------------------------------------------------------
(* Publishing                                                              *)

(* While a process holds the lock the gate changes only by its own steps.   *)
LEMMA GateUnderLock ==
  ASSUME TypeOK, [Next]_vars, op.pc \in Publishing, ~Close
  PROVE  gate'.token = gate.token /\ gate'.state = gate.state
<1> USE DEF LockFree, At, Publishing, Uploading
<1>1. gate \in GateType
  BY DEF TypeOK
<1>2. ~(Register \/ PollList \/ PollAck \/ Tick \/ EditRegister \/ Complete)
  BY DEF Register, PollList, PollAck, Tick, TickPublish, TickHold, EditRegister, Complete
<1>3. ~\E t \in inbox \cup {gate.token} : Approve(t) \/ Pause(t) \/ Revise(t)
  BY DEF Approve, Pause, Revise, Hold
<1>4. CASE UNCHANGED gate \/ PollSend
  BY <1>4 DEF PollSend
<1>5. CASE DeadlinePasses
  BY <1>1, <1>5 DEF DeadlinePasses, GateType
<1> QED
  BY <1>2, <1>3, <1>4, <1>5, GateSteps

LEMMA LaunchedStep ==
  ASSUME PromiseInvariant, [Next]_vars
  PROVE  Launched'
<1>1. /\ TypeOK /\ Launched /\ SessionsNumbered /\ op \in OpType /\ gate \in GateType
      /\ sessions \in Nat /\ upload \in [Versions -> EntryType]
  BY DEF PromiseInvariant, GateInvariant, TypeOK, YouTubeOK, UploadsOK
<1>2. ASSUME op'.pc \notin Publishing
      PROVE  Launched'
  BY <1>2 DEF Launched, Publishing, Uploading
<1>3. ASSUME UNCHANGED files PROVE CurrentToken' = CurrentToken
  BY <1>3 DEF files, CurrentToken, Fingerprint
<1>4. CASE Close
  BY <1>2, <1>4 DEF Close, Idle, Publishing, Uploading
<1>5. ASSUME Calm, ~Close
      PROVE  Launched'
  <2>1. CASE op'.pc = "idle"
    BY <1>2, <2>1 DEF Publishing, Uploading
  <2>2. CASE op' = op /\ op.pc \in Publishing
    <3>1. gate'.token = gate.token /\ gate'.state = gate.state
      BY <1>1, <1>5, <2>2, GateUnderLock
    <3> QED
      BY <1>1, <1>3, <1>5, <2>2, <3>1 DEF Launched, Calm, files, GateExists, Open
  <2>3. CASE op' = op /\ op.pc \notin Publishing
    BY <1>2, <2>3
  <2> QED
    BY <1>5, <2>1, <2>2, <2>3 DEF Calm
<1>6. ASSUME Inner, ~Close,
             op'.pc \in Uploading => op'.sid > 0 /\ status[current] = "reviewed"
      PROVE  Launched'
  <2>1. gate'.token = gate.token /\ gate'.state = gate.state
    BY <1>1, <1>6, GateUnderLock DEF Inner
  <2> QED
    BY <1>1, <1>3, <1>6, <2>1 DEF Launched, Inner, files, GateExists, Open
<1>7. ASSUME \/ AlreadyUploaded \/ ResumeSession \/ OpenSession \/ SaveSession \/ Transfer
             \/ SaveVideo \/ PublishLatest \/ PublishLatestFails
      PROVE  Launched'
  <2>1. Inner
    BY <1>1, <1>7, InnerSteps
  <2>2. ~Close
    BY <1>7 DEF AlreadyUploaded, ResumeSession, OpenSession, SaveSession, Transfer, SaveVideo,
                PublishLatest, PublishLatestFails, Close, At
  <2>3. CASE AlreadyUploaded \/ SaveVideo \/ PublishLatest \/ PublishLatestFails
    <3>1. op'.pc \notin Uploading
      BY <1>1, <2>3 DEF AlreadyUploaded, SaveVideo, PublishLatest, PublishLatestFails, Goto,
                        OpType, Uploading
    <3> QED
      BY <1>6, <2>1, <2>2, <3>1
  <2>4. CASE ResumeSession
    <3>1. /\ upload[op.v].state = "session" /\ op'.sid = upload[op.v].sid
          /\ status[current] = "reviewed"
      BY <1>1, <2>4 DEF ResumeSession, Uploadable, OpType
    <3>2. op.v \in Versions
      BY <2>4 DEF ResumeSession, At, PromiseInvariant, GateInvariant, VersionsOK, NamesVersion,
                  Steps
    <3>3. op'.sid > 0
      BY <1>1, <3>1, <3>2 DEF SessionsNumbered
    <3> QED
      BY <1>6, <2>1, <2>2, <3>1, <3>3
  <2>5. CASE OpenSession
    <3>1. op'.sid = sessions + 1 /\ status[current] = "reviewed"
      BY <1>1, <2>5 DEF OpenSession, Uploadable, OpType
    <3> QED
      BY <1>1, <1>6, <2>1, <2>2, <3>1
  <2>6. CASE SaveSession \/ Transfer
    <3>1. op'.sid = op.sid /\ op.pc \in Uploading
      BY <1>1, <2>6 DEF SaveSession, Transfer, Goto, At, OpType, Uploading
    <3> QED
      BY <1>1, <1>6, <2>1, <2>2, <3>1 DEF Launched
  <2> QED
    BY <1>7, <2>3, <2>4, <2>5, <2>6
<1>8. ASSUME \/ ProduceScenario \/ ProduceVideo \/ ProduceScript \/ ProduceReview
             \/ ProduceMark \/ ProducePoint
      PROVE  Launched'
  <2>1. CASE ProduceScenario \/ ProducePoint
    <3>1. CASE ProduceScenario
      <4>1. op'.pc = "render"
        BY <3>1 DEF ProduceScenario, Idle
      <4> QED
        BY <1>2, <4>1 DEF Publishing, Uploading
    <3>2. CASE ProducePoint
      <4>1. op'.pc = "idle"
        BY <3>2 DEF ProducePoint, Idle
      <4> QED
        BY <1>2, <4>1 DEF Publishing, Uploading
    <3> QED
      BY <2>1, <3>1, <3>2
  <2>2. CASE ProduceVideo \/ ProduceScript \/ ProduceReview \/ ProduceMark
    <3>1. op'.pc \in {"script", "record", "mark", "point"}
      BY <1>1, <2>2 DEF ProduceVideo, ProduceScript, ProduceReview, ProduceMark, Goto, OpType
    <3> QED
      BY <1>2, <3>1 DEF Publishing, Uploading
  <2> QED
    BY <1>8, <2>1, <2>2
<1>9. ASSUME \/ HoldReview \/ EditBegin \/ EditRender \/ EditSwitch \/ EditRetire
             \/ ReviseUngated \/ \E t \in inbox \cup {gate.token} : Pause(t) \/ Revise(t)
      PROVE  Launched'
  <2>1. CASE ReviseUngated \/ \E t \in inbox \cup {gate.token} : Pause(t) \/ Revise(t)
    <3>1. op'.pc \in {"edit", "hold", "holdEdit"}
      BY <2>1 DEF ReviseUngated, Pause, Revise, Hold, Idle
    <3> QED
      BY <1>2, <3>1 DEF Publishing, Uploading
  <2>2. CASE HoldReview
    <3>1. op'.pc \in {"idle", "edit"}
      BY <1>1, <2>2 DEF HoldReview, Idle, OpType
    <3> QED
      BY <1>2, <3>1 DEF Publishing, Uploading
  <2>3. CASE EditBegin \/ EditRender \/ EditSwitch \/ EditRetire
    <3>1. op'.pc \in {"draft", "switch", "retire", "requeue"}
      BY <1>1, <2>3 DEF EditBegin, EditRender, EditSwitch, EditRetire, Goto, OpType
    <3> QED
      BY <1>2, <3>1 DEF Publishing, Uploading
  <2> QED
    BY <1>9, <2>1, <2>2, <2>3
<1>10. CASE Complete
  BY <1>2, <1>10 DEF Complete, LockFree, Publishing, Uploading
<1>11. CASE TickPublish
  <2>1. /\ gate.token = CurrentToken /\ UNCHANGED files
        /\ gate'.token = gate.token /\ gate'.state = "approved"
        /\ op'.pc = "review" /\ op'.gated = TRUE /\ op'.v = review[current]
    BY <1>1, <1>11 DEF TickPublish, Checked, ApprovedGate, StartPublish, Idle, GateType
  <2> QED
    BY <1>3, <2>1 DEF Launched, Open, GateExists, Uploading, files
<1>12. ASSUME NEW t \in inbox \cup {gate.token}, Approve(t)
       PROVE  Launched'
  <2>1. /\ gate.token = CurrentToken /\ UNCHANGED files
        /\ gate'.token = gate.token /\ gate'.state = "approved"
        /\ op'.pc = "review" /\ op'.gated = TRUE /\ op'.v = review[current]
    BY <1>1, <1>12 DEF Approve, Checked, ApprovedGate, StartPublish, Idle, GateType
  <2> QED
    BY <1>3, <2>1 DEF Launched, Open, GateExists, Uploading, files
<1>13. CASE ManualUpload
  <2>1. /\ GateExists => gate.token = CurrentToken /\ Open
        /\ UNCHANGED <<files, gate>>
        /\ op'.pc = "check" /\ op'.gated = FALSE /\ op'.v = review[current]
    BY <1>13 DEF ManualUpload, Checked, Idle, Open
  <2> QED
    BY <1>3, <2>1 DEF Launched, Open, GateExists, Uploading, files
<1>14. CASE PublishReview
  <2>1. /\ UNCHANGED <<gate, scenario, script, review, current>>
        /\ op.pc = "review" /\ op'.pc = "check" /\ op'.v = op.v /\ op'.gated = op.gated
    BY <1>1, <1>14 DEF PublishReview, At, Goto, OpType
  <2>2. CurrentToken' = CurrentToken
    BY <2>1 DEF CurrentToken, Fingerprint
  <2> QED
    BY <1>1, <2>1, <2>2 DEF Launched, Publishing, Uploading, Open, GateExists
<1> QED
  BY <1>1, <1>4, <1>5, <1>7, <1>8, <1>9, <1>10, <1>11, <1>12, <1>13, <1>14, CalmSteps
     DEF Next, Produce, Poll, Tick, Command, Edit, Publish

(* upload.json is written by the two steps of an upload.                    *)
LEMMA UploadSteps ==
  ASSUME TypeOK, [Next]_vars
  PROVE  \/ upload' = upload
         \/ SaveSession \/ SaveVideo
<1>1. ASSUME \/ ProduceScenario \/ ProduceVideo \/ ProduceScript \/ ProduceReview
             \/ ProduceMark \/ ProducePoint \/ TickPublish
             \/ HoldReview \/ EditBegin \/ EditRender \/ EditSwitch \/ EditRetire
      PROVE  upload' = upload
  BY <1>1 DEF ProduceScenario, ProduceVideo, ProduceScript, ProduceReview, ProduceMark,
              ProducePoint, TickPublish, HoldReview, EditBegin, EditRender, EditSwitch,
              EditRetire, uploads
<1>2. ASSUME \/ ReviseUngated \/ Complete \/ ManualUpload \/ PublishReview
             \/ AlreadyUploaded \/ ResumeSession \/ OpenSession \/ Transfer
             \/ PublishLatest \/ PublishLatestFails
             \/ \E t \in inbox \cup {gate.token} : Approve(t) \/ Pause(t) \/ Revise(t)
      PROVE  upload' = upload
  BY <1>2 DEF ReviseUngated, Complete, ManualUpload, PublishReview, AlreadyUploaded,
              ResumeSession, OpenSession, Transfer, PublishLatest, PublishLatestFails,
              Approve, Pause, Revise, Hold, uploads
<1>3. ASSUME Calm PROVE upload' = upload
  BY <1>3 DEF Calm, uploads
<1> QED
  BY <1>1, <1>2, <1>3, CalmSteps DEF Next, Produce, Poll, Tick, Command, Edit, Publish

LEMMA SessionsNumberedStep ==
  ASSUME PromiseInvariant, [Next]_vars
  PROVE  SessionsNumbered'
<1>1. TypeOK /\ Launched /\ SessionsNumbered /\ upload \in [Versions -> EntryType]
  BY DEF PromiseInvariant, GateInvariant, TypeOK, UploadsOK
<1>2. CASE upload' = upload
  BY <1>1, <1>2 DEF SessionsNumbered
<1>3. CASE SaveSession \/ SaveVideo
  <2>1. /\ op.sid > 0
        /\ \E s \in {"session", "video"} :
             upload' = [upload EXCEPT ![op.v] = [state |-> s, sid |-> op.sid]]
    BY <1>1, <1>3 DEF SaveSession, SaveVideo, At, Launched, Uploading
  <2> QED
    BY <1>1, <2>1 DEF SessionsNumbered
<1> QED
  BY <1>1, <1>2, <1>3, UploadSteps

-----------------------------------------------------------------------------
(* The timer                                                               *)

(* Without the operator's word a gate opens by the timer alone.             *)
LEMMA OpeningSteps ==
  ASSUME TypeOK, Launched, [Next]_vars, Open', gate'.token \notin consent'
  PROVE  gate'.token = gate.token /\ gate.token \notin consent /\ (Open \/ TickPublish)
<1> USE DEF Open
<1>1. gate \in GateType
  BY DEF TypeOK
<1>2. CASE UNCHANGED <<gate, operator>>
  BY <1>2 DEF operator
<1>3. CASE Register \/ EditRegister \/ PollList
  <2>1. (gate' = gate \/ gate' = NewGate(CurrentToken)) /\ UNCHANGED operator
    BY <1>3 DEF Register, EditRegister, PollList, Registered, Repaired, operator
  <2> QED
    BY <2>1 DEF NewGate, operator
<1>4. CASE PollSend \/ Complete
  BY <1>4 DEF PollSend, Complete
<1>5. CASE PollAck \/ DeadlinePasses
  BY <1>1, <1>5 DEF PollAck, DeadlinePasses, GateType, operator
<1>6. CASE Tick
  BY <1>1, <1>6 DEF Tick, TickPublish, TickHold, ApprovedGate, GateType, operator
<1>7. CASE Close
  BY <1>1, <1>7 DEF Close, At, Launched, Publishing, GateType, operator
<1>8. ASSUME NEW t \in inbox \cup {gate.token}, Approve(t)
      PROVE  FALSE
  BY <1>1, <1>8 DEF Approve, Checked, ApprovedGate, GateType
<1>9. ASSUME NEW t \in inbox \cup {gate.token}, Pause(t) \/ Revise(t)
      PROVE  FALSE
  BY <1>1, <1>9 DEF Pause, Revise, Hold, GateType
<1> QED
  BY <1>2, <1>3, <1>4, <1>5, <1>6, <1>7, <1>8, <1>9, GateSteps

LEMMA TimedStep ==
  ASSUME PromiseInvariant, GateInvariant', [Next]_vars
  PROVE  TimedOK'
<1> SUFFICES ASSUME Open', gate'.token \notin consent', gate'.token = CurrentToken',
                    NEW w \in Versions, w # gate'.token.review
             PROVE  ~HasVideo(w)'
  BY DEF TimedOK
<1>1. /\ TypeOK /\ Launched /\ TimedOK /\ upload \in [Versions -> EntryType]
  BY DEF PromiseInvariant, GateInvariant, TypeOK, UploadsOK
<1>2. gate'.token = gate.token /\ gate.token \notin consent /\ (Open \/ TickPublish)
  BY <1>1, OpeningSteps
<1>3. gate.token = CurrentToken
  BY <1>2, NoReturn DEF PromiseInvariant
<1>4. gate.token.review = review[current]
  BY <1>3 DEF CurrentToken, Fingerprint
<1>5. ~HasVideo(w)
  <2>1. CASE Open
    BY <1>1, <1>2, <1>3, <2>1 DEF TimedOK
  <2>2. CASE TickPublish /\ ~Open
    <3>1. Timed
      BY <2>2 DEF TickPublish, Ripe, Timed, Open
    <3> QED
      BY <1>2, <1>4, <2>2, <3>1 DEF TickPublish, OtherUploaded
  <2> QED
    BY <1>2, <2>1, <2>2
<1>6. CASE upload' = upload
  BY <1>5, <1>6 DEF HasVideo
<1>7. CASE SaveSession
  BY <1>1, <1>5, <1>7 DEF SaveSession, HasVideo
<1>8. CASE SaveVideo
  <2>1. /\ op.v = review[current]
        /\ upload' = [upload EXCEPT ![op.v] = [state |-> "video", sid |-> op.sid]]
    BY <1>1, <1>8 DEF SaveVideo, At, Launched, Publishing, Uploading
  <2> QED
    BY <1>1, <1>2, <1>4, <1>5, <2>1 DEF HasVideo
<1> QED
  BY <1>1, <1>6, <1>7, <1>8, UploadSteps

-----------------------------------------------------------------------------
(* The invariant                                                           *)

LEMMA InitPromise == Init => PromiseInvariant
<1> SUFFICES ASSUME Init PROVE PromiseInvariant
  OBVIOUS
<1> USE ShortsAssumption, ZeroFolder DEF Init
<1>1. GateInvariant
  BY InitInvariant
<1>2. WrittenInOrder /\ ProductionOK
  BY DEF WrittenInOrder, InOrder, ProductionOK, Producing, Idle
<1>3. TokensOK
  BY DEF TokensOK, Left, NoToken, CurrentToken, Fingerprint
<1>4. OperatorKnows /\ Warranted /\ Told /\ TimedOK
  BY DEF OperatorKnows, Warranted, Told, TimedOK, Open
<1>5. Launched /\ SessionsNumbered
  BY DEF Launched, SessionsNumbered, Publishing, Uploading, Idle
<1> QED
  BY <1>1, <1>2, <1>3, <1>4, <1>5 DEF PromiseInvariant

LEMMA NextPromise == PromiseInvariant /\ [Next]_vars => PromiseInvariant'
<1> SUFFICES ASSUME PromiseInvariant, [Next]_vars PROVE PromiseInvariant'
  OBVIOUS
<1>1. GateInvariant'
  BY NextInvariant DEF PromiseInvariant
<1>2. WrittenInOrder' /\ ProductionOK'
  BY FilesStep DEF PromiseInvariant
<1>3. Warranted' /\ Told'
  BY <1>1, WarrantedStep, ToldStep
<1> QED
  BY <1>1, <1>2, <1>3, TokensStep, OperatorStep, LaunchedStep, SessionsNumberedStep, TimedStep
     DEF PromiseInvariant

LEMMA PromiseInvariantHolds == Spec => []PromiseInvariant
BY InitPromise, NextPromise, PTL DEF Spec

-----------------------------------------------------------------------------
(* The theorems                                                            *)

(* What a transfer puts on the channel was cleared.                         *)
LEMMA TransferCleared ==
  ASSUME PromiseInvariant, Transfer
  PROVE  \E t \in Tokens \ held :
           /\ t.review = op.v /\ t.script = video[current]
           /\ \/ t \in consent
              \/ t \in inbox /\ AutoPublish /\ gate.token = t /\ gate.timer = "expired"
<1>1. /\ TypeOK /\ FilesOK /\ current \in Folders
      /\ gate.token \in Tokens /\ consent \subseteq Tokens
  BY DEF PromiseInvariant, GateInvariant, TypeOK, FilesOK, GateType, OperatorOK
<1>2. /\ op.v = video[current] /\ op.v = review[current] /\ status[current] = "reviewed"
      /\ GateExists => gate.token = CurrentToken /\ Open
  BY DEF Transfer, At, PromiseInvariant, GateInvariant, SessionsOK, Launched, Publishing, Uploading
<1>3. script[current] = video[current]
  BY <1>1, <1>2, OneVersion DEF PromiseInvariant
<1>4. CASE GateExists
  <2>1. gate.token.review = op.v /\ gate.token.script = video[current]
    <3>1. CurrentToken.review = review[current] /\ CurrentToken.script = script[current]
      BY DEF CurrentToken, Fingerprint
    <3> QED
      BY <1>2, <1>3, <1>4, <3>1
  <2>2. gate.token \notin held
    BY <1>2, <1>4 DEF PromiseInvariant, OperatorKnows, Open
  <2> QED
    BY <1>1, <1>2, <1>4, <2>1, <2>2 DEF PromiseInvariant, Warranted, Told
<1>5. CASE ~GateExists
  <2>1. PICK t \in consent : t.review = review[current] /\ t.script = script[current]
    BY <1>2, <1>5 DEF PromiseInvariant, Warranted, Told
  <2>2. held = {}
    BY <1>5 DEF PromiseInvariant, TokensOK
  <2> QED
    BY <1>1, <1>2, <1>3, <2>1, <2>2
<1> QED
  BY <1>4, <1>5

(* Videos come onto the channel by a transfer.                              *)
LEMMA LiveSteps ==
  ASSUME TypeOK, [Next]_vars
  PROVE  live' = live \/ Transfer
<1>1. ASSUME \/ ProduceScenario \/ ProduceVideo \/ ProduceScript \/ ProduceReview
             \/ ProduceMark \/ ProducePoint \/ TickPublish
             \/ HoldReview \/ EditBegin \/ EditRender \/ EditSwitch \/ EditRetire
      PROVE  live' = live
  BY <1>1 DEF ProduceScenario, ProduceVideo, ProduceScript, ProduceReview, ProduceMark,
              ProducePoint, TickPublish, HoldReview, EditBegin, EditRender, EditSwitch,
              EditRetire, youtube
<1>2. ASSUME \/ ReviseUngated \/ Complete \/ ManualUpload \/ PublishReview
             \/ AlreadyUploaded \/ ResumeSession \/ OpenSession \/ SaveSession \/ SaveVideo
             \/ PublishLatest \/ PublishLatestFails
             \/ \E t \in inbox \cup {gate.token} : Approve(t) \/ Pause(t) \/ Revise(t)
      PROVE  live' = live
  BY <1>2 DEF ReviseUngated, Complete, ManualUpload, PublishReview, AlreadyUploaded,
              ResumeSession, OpenSession, SaveSession, SaveVideo, PublishLatest,
              PublishLatestFails, Approve, Pause, Revise, Hold, youtube
<1>3. ASSUME Calm PROVE live' = live
  BY <1>3 DEF Calm
<1> QED
  BY <1>1, <1>2, <1>3, CalmSteps DEF Next, Produce, Poll, Tick, Command, Edit, Publish

(* No stale button, interrupted edit or half-written production puts another *)
(* video on the channel than the one the operator approved, or saw and left  *)
(* alone until its deadline.                                                *)
LEMMA ClearedGoesLive == Spec => OnlyClearedGoesLive
<1> DEFINE Cleared == \A a \in live' \ live :
       \/ \E t \in consent \ held : Names(t, a)
       \/ \E t \in inbox \ held :
            Names(t, a) /\ AutoPublish /\ gate.token = t /\ gate.timer = "expired"
<1>1. ASSUME PromiseInvariant, [Next]_vars PROVE Cleared
  <2>1. TypeOK
    BY <1>1 DEF PromiseInvariant, GateInvariant
  <2>2. CASE live' = live
    BY <2>2
  <2>3. CASE Transfer
    BY <1>1, <2>3, TransferCleared DEF Transfer, Names
  <2> QED
    BY <1>1, <2>1, <2>2, <2>3, LiveSteps
<1>2. Spec => [][Cleared]_vars
  BY <1>1, PromiseInvariantHolds, PTL DEF Spec
<1> QED
  BY <1>2 DEF OnlyClearedGoesLive

(* The timer adds no video to a day that has one on record.                 *)
LEMMA TimerRespectsTheDay == Spec => NoTimedVideoAfterRecorded
<1> DEFINE Alone == \A v \in Versions : HasVideo(v)' /\ ~HasVideo(v) /\ ~Consented(v)
                      => \A w \in Versions \ {v} : ~HasVideo(w)
<1>1. ASSUME PromiseInvariant, [Next]_vars PROVE Alone
  <2> SUFFICES ASSUME NEW v \in Versions, HasVideo(v)', ~HasVideo(v), ~Consented(v)
               PROVE  \A w \in Versions \ {v} : ~HasVideo(w)
    OBVIOUS
  <2>1. TypeOK /\ upload \in [Versions -> EntryType]
    BY <1>1 DEF PromiseInvariant, GateInvariant, TypeOK, UploadsOK
  <2>2. SaveVideo /\ v = op.v
    BY <1>1, <2>1, UploadSteps DEF HasVideo, SaveSession, SaveVideo
  <2>3. /\ op.v = video[current] /\ op.v = review[current] /\ status[current] = "reviewed"
        /\ GateExists => gate.token = CurrentToken /\ Open
    BY <1>1, <2>2 DEF SaveVideo, At, PromiseInvariant, GateInvariant, SessionsOK, Launched,
                      Publishing, Uploading
  <2>4. CASE GateExists
    <3>1. gate.token = CurrentToken /\ Open /\ gate.token.review = v /\ gate.token \notin held
      BY <1>1, <2>2, <2>3, <2>4 DEF CurrentToken, Fingerprint, PromiseInvariant, OperatorKnows, Open
    <3>2. gate.token \notin consent
      BY <3>1 DEF Consented
    <3> QED
      BY <1>1, <3>1, <3>2 DEF PromiseInvariant, TimedOK
  <2>5. CASE ~GateExists
    <3>1. \E t \in consent : t.review = v
      BY <1>1, <2>2, <2>3, <2>5 DEF PromiseInvariant, Warranted, Told
    <3> QED
      BY <1>1, <2>5, <3>1 DEF PromiseInvariant, TokensOK, Consented
  <2> QED
    BY <2>4, <2>5
<1>2. Spec => [][Alone]_vars
  BY <1>1, PromiseInvariantHolds, PTL DEF Spec
<1> QED
  BY <1>2 DEF NoTimedVideoAfterRecorded

(* approval.py and youtube.py: a video goes live only when the operator       *)
(* approved exactly that script, or it was delivered and its hour passed on a *)
(* day without a recorded video, whatever is interrupted or pressed late.     *)
THEOREM OnlyClearedVideos == Spec => VideosAreCleared
BY ClearedGoesLive, TimerRespectsTheDay DEF VideosAreCleared

(* Each step of the gate is a step of Publication or changes nothing of what *)
(* the operator sees.                                                       *)
LEMMA StepKeepsPromise ==
  ASSUME PromiseInvariant, [Next]_vars
  PROVE  [Promise!Next]_Promise!vars
<1> USE DEF Promise!vars
<1>1. /\ TypeOK /\ gate.token \in Tokens /\ poll.token \in Tokens /\ inbox \subseteq Tokens
      /\ CurrentToken \in Tokens
  BY TokenType DEF PromiseInvariant, GateInvariant, TypeOK, GateType, PollType, OperatorOK
<1>2. CASE UNCHANGED operator /\ live' = live
  BY <1>2 DEF operator
<1>3. CASE Transfer
  <2>1. /\ UNCHANGED operator
        /\ live' = live \cup {[version |-> op.v, content |-> video[current], sid |-> op.sid]}
    BY <1>3 DEF Transfer
  <2>2. CASE \A a \in live : a.version # op.v
    <3>1. PICK t \in Tokens \ held : /\ t.review = op.v /\ t.script = video[current]
                                     /\ t \in consent \/ t \in inbox
      BY <1>3, TransferCleared
    <3>2. op.sid \in Sessions
      BY <1>1, <1>3, OpFields, ShortsAssumption
         DEF Transfer, At, PromiseInvariant, Launched, Uploading, Sessions
    <3>3. Promise!Air(t, op.sid)
      BY <2>1, <2>2, <3>1 DEF Promise!Air, operator
    <3> QED
      BY <3>1, <3>2, <3>3 DEF Promise!Next
  <2>3. CASE \E a \in live : a.version = op.v
    <3>1. PICK a \in live : a.version = op.v
      BY <2>3
    <3>2. a = [version |-> op.v, content |-> video[current], sid |-> op.sid]
      BY <1>1, <1>3, <3>1 DEF Transfer, At, PromiseInvariant, GateInvariant, SessionsOK, Uploading,
                              TypeOK, YouTubeOK, VideoType
    <3> QED
      BY <2>1, <3>1, <3>2 DEF operator
  <2> QED
    BY <2>2, <2>3
<1>4. CASE PollSend
  <2>1. Promise!Show(poll.token)
    BY <1>4 DEF PollSend, Promise!Show, youtube
  <2> QED
    BY <1>1, <2>1 DEF Promise!Next
<1>5. CASE Complete
  <2>1. CASE GateExists
    BY <1>5, <2>1 DEF Complete, youtube
  <2>2. CASE ~GateExists
    <3>1. held = {}
      BY <2>2 DEF PromiseInvariant, TokensOK
    <3>2. Promise!Approve(CurrentToken)
      BY <1>5, <2>2, <3>1 DEF Complete, Promise!Approve, youtube
    <3> QED
      BY <1>1, <3>2 DEF Promise!Next
  <2> QED
    BY <2>1, <2>2
<1>6. ASSUME NEW t \in inbox \cup {gate.token}, Approve(t)
      PROVE  Promise!Next
  <2>1. Promise!Approve(t)
    BY <1>6 DEF Approve, Promise!Approve, youtube
  <2> QED
    BY <1>1, <2>1 DEF Promise!Next
<1>7. ASSUME NEW t \in inbox \cup {gate.token}, Pause(t) \/ Revise(t)
      PROVE  Promise!Next
  <2>1. Promise!Withhold(t)
    BY <1>7 DEF Pause, Revise, Hold, Promise!Withhold, youtube
  <2> QED
    BY <1>1, <2>1 DEF Promise!Next
<1>8. CASE Register \/ PollList \/ PollAck \/ DeadlinePasses \/ Tick \/ EditRegister \/ Close
  BY <1>8 DEF Register, PollList, PollAck, DeadlinePasses, Tick, TickPublish, TickHold,
              EditRegister, Close, youtube, operator
<1> QED
  BY <1>1, <1>2, <1>3, <1>4, <1>5, <1>6, <1>7, <1>8, GateSteps, LiveSteps

(* The gate implements Publication: a video goes on the air once, for a      *)
(* request the operator saw or approved and that is not on hold, however     *)
(* many files and processes it takes and wherever they are cut short.        *)
THEOREM PromiseIsKept == Spec => KeepsPromise
<1>1. Init => Promise!Init
  BY DEF Init, Promise!Init
<1>2. PromiseInvariant /\ [Next]_vars => [Promise!Next]_Promise!vars
  BY StepKeepsPromise
<1> QED
  BY <1>1, <1>2, PromiseInvariantHolds, PTL DEF Spec, KeepsPromise, Promise!Spec
=============================================================================

---------------------------- MODULE Publication ----------------------------
(***************************************************************************)
(* What the shorts program promises the operator about the channel, with   *)
(* no files, locks, retries or crashes: a video goes on the air once, for a*)
(* review request that was shown to the operator or approved by them and   *)
(* that is not on hold.                                                    *)
(***************************************************************************)
CONSTANTS
  Requests,     \* review requests; each names a version and its content
  Uploads       \* identities YouTube may give an upload

VARIABLES
  shown,        \* requests the operator has seen in full
  approved,     \* requests the operator said yes to
  withheld,     \* requests the operator put on hold and did not approve since
  aired         \* videos on the channel

vars == <<shown, approved, withheld, aired>>

Init ==
  /\ shown = {}
  /\ approved = {}
  /\ withheld = {}
  /\ aired = {}

Show(r) ==
  /\ shown' = shown \cup {r}
  /\ UNCHANGED <<approved, withheld, aired>>

Approve(r) ==
  /\ approved' = approved \cup {r}
  /\ withheld' = withheld \ {r}
  /\ UNCHANGED <<shown, aired>>

Withhold(r) ==
  /\ withheld' = withheld \cup {r}
  /\ UNCHANGED <<shown, approved, aired>>

Air(r, u) ==
  /\ r \in (shown \cup approved) \ withheld
  /\ \A a \in aired : a.version # r.review
  /\ aired' = aired \cup {[version |-> r.review, content |-> r.script, sid |-> u]}
  /\ UNCHANGED <<shown, approved, withheld>>

Next == \E r \in Requests : \/ Show(r) \/ Approve(r) \/ Withhold(r)
                            \/ \E u \in Uploads : Air(r, u)

Spec == Init /\ [][Next]_vars
=============================================================================

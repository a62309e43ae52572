---------------------------- MODULE MCShortsGate ----------------------------
(* The gate on two versions of a day, three upload sessions and one operation *)
(* that is cut short; with the promise of a decision that one run states.     *)
EXTENDS ShortsGate

(* A finished version reaches the operator and is decided: the poll of every  *)
(* minute repairs what an interrupted production, edit or upload left.        *)
DayIsDecided == PendingIsDelivered /\ DeliveredIsDecided
=============================================================================

----------------------------- MODULE MCAccounts -----------------------------
EXTENDS Accounts, TLC

MCProcs == Requests \cup Senders \cup Threads
(* An account that receives letters and may start research *)
MCSettled ==
  [sub |-> [email |-> "e1", status |-> "active", code |-> "none", tries |-> 0, codes |-> 0,
            last |-> "before", personal |-> TRUE, alerts |-> {}],
   topic |-> "x", consent |-> TRUE, past |-> {}, used |-> 0, run |-> None, latest |-> None,
   assets |-> {"a1"}, watch |-> {}, advice |-> 0]

MCSymmetry == Permutations(Requests) \cup Permutations(Senders) \cup Permutations(Threads)
=============================================================================

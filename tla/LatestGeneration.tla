-------------------------- MODULE LatestGeneration --------------------------
(***************************************************************************)
(* What the Polymarket pages promise a visitor, with no files, caches or   *)
(* locks: generations are published one after the other, and a request is  *)
(* answered from one that was the latest when it came in or later, so that *)
(* nobody who asks twice sees the pages go back in time.                   *)
(***************************************************************************)
EXTENDS Naturals

CONSTANT Requests

VARIABLES
  latest,    \* the generation on the site, 0 for none
  open,      \* requests that wait for their answer
  asked,     \* asked[r]: the latest generation when r came in, 0 if it is not open
  answer     \* answer[r]: the generation r was answered from, 0 while it is open

vars == <<latest, open, asked, answer>>

Init ==
  /\ latest = 0
  /\ open = {}
  /\ asked = [r \in Requests |-> 0]
  /\ answer = [r \in Requests |-> 0]

Publish ==
  /\ latest' \in Nat
  /\ latest' > latest
  /\ UNCHANGED <<open, asked, answer>>

Ask(r) ==
  /\ r \notin open
  /\ open' = open \cup {r}
  /\ asked' = [asked EXCEPT ![r] = latest]
  /\ answer' = [answer EXCEPT ![r] = 0]
  /\ UNCHANGED latest

Answer(r) ==
  /\ r \in open
  /\ open' = open \ {r}
  /\ \E g \in asked[r]..latest : answer' = [answer EXCEPT ![r] = g]
  /\ asked' = [asked EXCEPT ![r] = 0]
  /\ UNCHANGED latest

(* The server ends and its requests with it *)
Lose ==
  /\ open' = {}
  /\ asked' = [r \in Requests |-> 0]
  /\ answer' = [r \in Requests |-> 0]
  /\ UNCHANGED latest

Next == Publish \/ Lose \/ \E r \in Requests : Ask(r) \/ Answer(r)

Spec == Init /\ [][Next]_vars
=============================================================================

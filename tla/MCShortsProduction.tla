------------------------- MODULE MCShortsProduction -------------------------
(* Three events, the second a variant of the first in another sector        *)
EXTENDS ShortsProduction

MCSector == [rates |-> "macro", banks |-> "equities", war |-> "geopolitics"]
MCTopic == [rates |-> "fed", banks |-> "fed", war |-> "hormuz"]
MCIssues == DOMAIN MCSector
=============================================================================

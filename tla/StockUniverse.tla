---------------------------- MODULE StockUniverse ----------------------------
(***************************************************************************)
(* The list of stocks the bot knows (stocks/database.py): a build collects *)
(* four markets, each of which may fail; what a market had before is kept  *)
(* when it does; the file is replaced first and the memory afterwards.  A  *)
(* user names a stock by a bare code or by market, exchange and code.      *)
(*                                                                         *)
(* A key is [scope, exchange, code]; Chinese and Hong Kong keys are the    *)
(* bare code and have no exchange in them, so their scope is not part of   *)
(* what the user types either.                                             *)
(***************************************************************************)
EXTENDS Integers, Sequences, FiniteSets

CONSTANTS Listings,     \* Listings[m]: the universes market m may be collected as
          Codes,        \* bare codes a user may type
          MaxBuilds, MaxDamage  \* bounds of the model

VARIABLES cache,    \* the file: a database, Missing or Damaged
          memory,   \* _db
          written,  \* a build has replaced the file and not yet the memory
          listed,   \* what each market was when a build last collected it
          builds, damage

vars == <<cache, memory, written, listed, builds, damage>>

MarketsOf == {"CN", "HK", "KR", "US"}
Missing == [file |-> "missing", db |-> <<>>]
Damaged == [file |-> "damaged", db |-> <<>>]
Whole(db) == [file |-> "whole", db |-> db]

-----------------------------------------------------------------------------
(* Keys and the markets of entries.  A database maps a key to the market   *)
(* of its entry (the boards of Shanghai and Shenzhen are one market, CN);  *)
(* stock_key writes no market into Chinese and Hong Kong keys.             *)

Bare == {"CN", "HK"}
Key(market, exchange, code) ==
    IF market \in Bare THEN [scope |-> "", exchange |-> "", code |-> code]
    ELSE [scope |-> market, exchange |-> exchange, code |-> code]

(* What fetch_* and the loops of build make of a collected market. *)
Keys(market, rows) == {Key(market, r.exchange, r.code) : r \in rows}
Entries(market, rows) == [k \in Keys(market, rows) |-> market]

(* _load_existing_cache *)
OldDb == IF cache.file = "whole" THEN cache.db ELSE <<>>

Over(f, g) == [k \in DOMAIN f \cup DOMAIN g |-> IF k \in DOMAIN g THEN g[k] ELSE f[k]]

PreserveMarkets(db, old, market) ==
    Over([k \in {o \in DOMAIN old : old[o] = market} |-> market], db)

(* No rows: the request failed, or the market answered with none. *)
Failed == {}

(* The four markets in the order of build. *)
Built(old, collected) ==
    LET With(db, m) == IF collected[m] = Failed THEN PreserveMarkets(db, old, m)
                       ELSE Over(db, Entries(m, collected[m]))
    IN  With(With(With(With(<<>>, "CN"), "HK"), "KR"), "US")

Collections ==
    [CN : {Failed} \cup Listings.CN, HK : {Failed} \cup Listings.HK,
     KR : {Failed} \cup Listings.KR, US : {Failed} \cup Listings.US]

Init ==
    /\ cache = Missing
    /\ memory = <<>>
    /\ written = FALSE
    /\ listed = [m \in MarketsOf |-> {}]
    /\ builds = 0 /\ damage = 0

(* build, up to the replacement of the file; when nothing at all is known  *)
(* it raises and leaves everything.                                        *)
Build(collected) ==
    LET db == Built(OldDb, collected) IN
    /\ ~written
    /\ builds < MaxBuilds
    /\ builds' = builds + 1
    /\ db # <<>>
    /\ cache' = Whole(db)
    /\ written' = TRUE
    /\ listed' = [m \in MarketsOf |->
                    IF collected[m] = Failed THEN listed[m]
                    ELSE Keys(m, collected[m])]
    /\ UNCHANGED <<memory, damage>>

Adopt ==
    /\ written
    /\ memory' = cache.db
    /\ written' = FALSE
    /\ UNCHANGED <<cache, listed, builds, damage>>

(* The process starts again: load_or_build. *)
Restart ==
    /\ cache.file = "whole"
    /\ memory' = cache.db
    /\ written' = FALSE
    /\ UNCHANGED <<cache, listed, builds, damage>>

RestartUnreadable ==
    /\ cache.file # "whole"
    /\ memory' = <<>>
    /\ written' = FALSE
    /\ UNCHANGED <<cache, listed, builds, damage>>

(* The file becomes unreadable, but not between the two halves of a build. *)
Damage ==
    /\ damage < MaxDamage
    /\ ~written
    /\ cache.file = "whole"
    /\ cache' = Damaged
    /\ damage' = damage + 1
    /\ listed' = [m \in MarketsOf |-> {}]
    /\ UNCHANGED <<memory, written, builds>>

Next ==
    \/ \E collected \in Collections : Build(collected)
    \/ Adopt \/ Restart \/ RestartUnreadable \/ Damage

Spec == Init /\ [][Next]_vars

-----------------------------------------------------------------------------
(* resolve_code.  The alias index joins a bare code to the only key that   *)
(* ends in it, and a scope with a code to the only key of that scope.      *)

Alias(db, market, code) ==
    LET keys == {k \in DOMAIN db : k.code = code /\ db[k] = market}
    IN  IF Cardinality(keys) = 1 THEN keys ELSE {}

BareAlias(db, code) ==
    LET keys == {k \in DOMAIN db : k.scope # "" /\ k.code = code}
    IN  IF Cardinality(keys) = 1 THEN keys ELSE {}

(* An empty set stands for None. *)
ResolveBare(db, code) ==
    LET exact == Key("CN", "", code)
    IN  IF exact \in DOMAIN db THEN {exact} ELSE BareAlias(db, code)

ResolveScoped(db, market, exchange, code) ==
    LET exact == [scope |-> market, exchange |-> exchange, code |-> code]
    IN  IF exact \in DOMAIN db THEN {exact} ELSE Alias(db, market, code)

-----------------------------------------------------------------------------
(* A stock once collected stays known through failing markets, restarts    *)
(* and a build cut off between the file and the memory, until its market   *)
(* is collected again without it; and nothing is known that no collection  *)
(* brought.                                                                *)
KnownUntilCollectedAnew ==
    cache.file = "whole" =>
        /\ DOMAIN cache.db = UNION {listed[m] : m \in MarketsOf}
        /\ (~written /\ damage = 0) => memory = cache.db

(* A code with its market never names a stock of another market, and a     *)
(* bare code never one of two that share it.                               *)
CodeNamesOneStock ==
    \A code \in Codes :
        /\ \A m \in MarketsOf : \A k \in ResolveScoped(memory, m, "", code) : memory[k] = m
        /\ ResolveBare(memory, code) # {} =>
             \/ Key("CN", "", code) \in DOMAIN memory
             \/ Cardinality({k \in DOMAIN memory : k.code = code}) = 1
=============================================================================

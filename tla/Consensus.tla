------------------------------ MODULE Consensus ------------------------------
(***************************************************************************)
(* How the dashboard reads a question (polymarket/dashboard/models.py and  *)
(* taxonomy.py) and how trending.py measures and ranks what moved.  All of *)
(* it is computed from one generation of events and two older snapshots.   *)
(*                                                                         *)
(* A probability is an integer between 0 and One; where the code rounds to *)
(* eight digits, Share rounds down.  Titles, questions and labels other    *)
(* than Yes and No are names.                                              *)
(***************************************************************************)
EXTENDS Integers, Sequences, FiniteSets, SequencesExt

CONSTANTS
  One, Tolerance,                 \* 1.0 and PRICE_SUM_TOLERANCE on the same scale
  LowLiquidity,                   \* POLYMARKET_WEB_LOW_LIQUIDITY
  CategoryTags,                   \* CATEGORY_TAGS: a set of tags for each category
  Excluded,                       \* POLYMARKET_TRENDING_EXCLUDED_CATEGORIES
  MinVolume, MinLiquidity, MoveFloor,
  CandidateLimit, SpotlightLimit,
  NoValue                         \* Python's None

ASSUME ConsensusAssumption ==
  /\ One \in Nat \ {0} /\ Tolerance \in 0..(One - 1)
  /\ MoveFloor \in 1..One
  /\ CandidateLimit \in Nat /\ SpotlightLimit \in Nat \ {0}
  /\ NoValue \notin Int

-----------------------------------------------------------------------------
(* A market as the source gives it: its two outcomes, "?" when they are     *)
(* missing, and their prices                                                *)

Share(v, sum) == (v * One) \div sum
Abs(x) == IF x < 0 THEN -x ELSE x
Near(sum) == sum > 0 /\ Abs(sum - One) <= Tolerance

(* The place of Yes when both names are there, else the first outcome *)
YesSide(labels) == IF labels = <<"No", "Yes">> THEN 2 ELSE 1

Prices(market) ==
  LET sum == market.prices[1] + market.prices[2]
      yes == YesSide(market.labels)
  IN IF /\ market.labels[1] # "?" /\ market.labels[1] # market.labels[2]
        /\ market.prices[1] \in 0..One /\ market.prices[2] \in 0..One
        /\ Near(sum)
     THEN [valid |-> TRUE, yes |-> Share(market.prices[yes], sum), no |-> Share(market.prices[3 - yes], sum),
           yesLabel |-> market.labels[yes], noLabel |-> market.labels[3 - yes]]
     ELSE [valid |-> FALSE, yes |-> NoValue, no |-> NoValue, yesLabel |-> NoValue, noLabel |-> NoValue]

(* A finished child has a result, not a forecast *)
OpenChild(market) == market.open

EventType(event) ==
  IF Len(event.markets) = 1 THEN "binary"
  ELSE CASE event.negRisk = "true" -> "exclusive"
         [] event.negRisk = "false" -> "independent"
         [] OTHER -> "unknown"

NoConsensus == [priced |-> FALSE, leader |-> NoValue, p |-> NoValue]

BinaryConsensus(market) ==
  LET price == Prices(market)
  IN IF ~price.valid THEN NoConsensus
     ELSE IF price.yes >= price.no THEN [priced |-> TRUE, leader |-> price.yesLabel, p |-> price.yes]
          ELSE [priced |-> TRUE, leader |-> price.noLabel, p |-> price.no]

PricedChildren(markets) == SelectSeq(markets, LAMBDA m : OpenChild(m) /\ Prices(m).valid)

SumYes(markets) == FoldSeq(LAMBDA m, sum : sum + Prices(m).yes, 0, markets)

(* The first of the most probable children *)
Leading(markets) ==
  LET top == {i \in DOMAIN markets : \A j \in DOMAIN markets : Prices(markets[j]).yes <= Prices(markets[i]).yes}
  IN markets[CHOOSE i \in top : \A j \in top : i <= j]

(* Shares of what is left must add up to One, or there is no ranking *)
ExclusiveConsensus(markets) ==
  LET priced == PricedChildren(markets)
      sum == SumYes(priced)
  IN IF priced = <<>> \/ ~Near(sum) THEN NoConsensus
     ELSE [priced |-> TRUE, leader |-> Leading(priced).name, p |-> Share(Prices(Leading(priced)).yes, sum)]

ConsensusOf(event) ==
  CASE EventType(event) = "binary" -> BinaryConsensus(event.markets[1])
    [] EventType(event) = "exclusive" -> ExclusiveConsensus(event.markets)
    [] EventType(event) = "independent" -> [NoConsensus EXCEPT !.priced = PricedChildren(event.markets) # <<>>]
    [] OTHER -> NoConsensus

(* The event's own amount, else the sum of its markets', else none *)
Liquidity(event) ==
  LET active == SelectSeq(event.markets, LAMBDA m : m.open)
  IN IF event.liquidity # NoValue /\ event.liquidity >= 0 THEN event.liquidity
     ELSE IF active # <<>> /\ \A i \in DOMAIN active : active[i].liquidity # NoValue /\ active[i].liquidity >= 0
     THEN FoldSeq(LAMBDA m, sum : sum + m.liquidity, 0, active)
     ELSE NoValue

DataStatus(consensus, liquidity) ==
  CASE ~consensus.priced -> "unavailable"
    [] consensus.priced /\ liquidity = NoValue -> "liquidity_missing"
    [] consensus.priced /\ liquidity # NoValue /\ liquidity = 0 -> "no_liquidity"
    [] consensus.priced /\ liquidity # NoValue /\ liquidity \in 1..(LowLiquidity - 1) -> "low_liquidity"
    [] OTHER -> "ok"

(* One category, "composite" for several, "other" for none *)
Matching(tags) == {c \in DOMAIN CategoryTags : CategoryTags[c] \cap tags # {}}
Classify(tags) ==
  CASE Matching(tags) = {} -> "other"
    [] \E c \in DOMAIN CategoryTags : Matching(tags) = {c} -> CHOOSE c \in DOMAIN CategoryTags : Matching(tags) = {c}
    [] OTHER -> "composite"

(* The compact event of the manifest *)
Normalized(event) ==
  LET consensus == ConsensusOf(event)
      liquidity == Liquidity(event)
  IN [id |-> event.id, type |-> EventType(event), status |-> DataStatus(consensus, liquidity), liquidity |-> liquidity,
      leader |-> consensus.leader, p |-> consensus.p, volume |-> event.volume, tags |-> event.tags,
      category |-> Classify(event.tags), title |-> event.title, soon |-> event.soon]

(* The probability that the title comes true; named outcomes have no such thing *)
TitleProbability(event) ==
  CASE event.p = NoValue -> NoValue
    [] event.p # NoValue /\ event.leader = "No" -> One - event.p
    [] event.p # NoValue /\ event.type = "binary" /\ event.leader \notin {"Yes", "No"} -> NoValue
    [] OTHER -> event.p

-----------------------------------------------------------------------------
(* The groups of the sector brief *)

CONSTANTS EconTags, GeoTags, BriefGroups  \* BriefGroups: <<key, tags>> in order of priority

BriefGroup(tags) ==
  CASE tags \cap EconTags # {} /\ tags \cap GeoTags # {} -> "composite"
    [] tags \cap EconTags = {} /\ tags \cap GeoTags # {} -> "geopolitics"
    [] tags \cap EconTags = {} /\ tags \cap GeoTags = {} -> NoValue
    [] OTHER -> LET first == {i \in DOMAIN BriefGroups : tags \cap BriefGroups[i][2] # {}}
                IN IF first = {} THEN NoValue
                   ELSE BriefGroups[CHOOSE i \in first : \A j \in first : i <= j][1]

-----------------------------------------------------------------------------
(* What moved *)

Amount(v) == IF v = NoValue THEN 0 ELSE v

(* The chosen rows, sorted: Before(a, b) puts a in front, ties keep their order; *)
(* a row's place is how many come first                                          *)
Ranked(rows, Chosen(_), Before(_, _)) ==
  LET kept == {i \in DOMAIN rows : Chosen(rows[i])}
      First(i, j) == Before(rows[i], rows[j]) \/ (~Before(rows[j], rows[i]) /\ i < j)
      place(i) == Cardinality({j \in kept : First(j, i)}) + 1
  IN [n \in 1..Cardinality(kept) |-> rows[CHOOSE i \in kept : place(i) = n]]

Prefix(rows, n) == SubSeq(rows, 1, IF n < Len(rows) THEN n ELSE Len(rows))

ExcludedCategory(event) ==
  \/ event.category \in Excluded
  \/ event.category = "composite" /\ \E c \in Excluded : event.tags \cap CategoryTags[c] # {}

Eligible(e) ==
  /\ e.status = "ok" /\ ~e.soon /\ ~ExcludedCategory(e)
  /\ Amount(e.volume) >= MinVolume /\ Amount(e.liquidity) >= MinLiquidity

(* events: a sequence of compact events *)
Candidates(events) ==
  Prefix(Ranked(events, Eligible, LAMBDA a, b : Amount(a.volume) > Amount(b.volume)), CandidateLimit)

(* What the next run subtracts: for each id the title's probability, the leader, the volume *)
Snapshot(events) ==
  [id \in {events[i].id : i \in DOMAIN events} |->
     LET e == events[CHOOSE i \in DOMAIN events : events[i].id = id]
     IN [p |-> TitleProbability(e), leader |-> e.leader, volume |-> e.volume]]

Still == [change |-> NoValue, flipped |-> FALSE, volume |-> NoValue]

(* Another leader of a question with several answers is an event by itself *)
Movement(event, snapshot) ==
  IF event.id \notin DOMAIN snapshot THEN Still
  ELSE LET before == snapshot[event.id]
           current == TitleProbability(event)
           flipped == event.type # "binary" /\ before.leader # event.leader
       IN [change |-> IF flipped \/ current = NoValue \/ before.p = NoValue THEN NoValue ELSE current - before.p,
           flipped |-> flipped,
           volume |-> IF event.volume = NoValue \/ before.volume = NoValue THEN NoValue
                      ELSE event.volume - before.volume]

BuildRows(events, base, previous) ==
  [i \in DOMAIN events |->
     [id |-> events[i].id, volume |-> Amount(events[i].volume),
      day |-> Movement(events[i], base).change, previous |-> Movement(events[i], previous).change,
      flipped |-> Movement(events[i], base).flipped, grown |-> Movement(events[i], base).volume,
      new |-> events[i].id \notin DOMAIN base]]

Change(row, basis) == IF basis = "day" THEN row.day ELSE row.previous

(* New leaders by volume, then movements by size and volume *)
Spotlight(rows, basis) ==
  LET size(row) == Abs(Change(row, basis))
      flips == Ranked(rows, LAMBDA r : r.flipped, LAMBDA a, b : a.volume > b.volume)
      moves == Ranked(rows, LAMBDA r : ~r.flipped /\ Change(r, basis) # NoValue /\ size(r) >= MoveFloor,
                      LAMBDA a, b : size(a) > size(b) \/ (size(a) = size(b) /\ a.volume > b.volume))
  IN Prefix(flips \o moves, SpotlightLimit)

-----------------------------------------------------------------------------
(* The sign of a movement is that of the title's price: whichever outcome the *)
(* source lists first, whichever leads before and after, a dearer Yes is a    *)
(* positive change and an equal one no change.                                *)
MovementHasTheSignOfYes(before, after, id) ==
  LET price(market) == market.prices[IF market.labels[1] = "Yes" THEN 1 ELSE 2]
      reading(market) == [Normalized([id |-> id, markets |-> <<market>>, negRisk |-> "none", liquidity |-> 1,
                                      volume |-> 1, tags |-> {}, title |-> id, soon |-> FALSE]) EXCEPT !.type = "binary"]
      change == Movement(reading(after), Snapshot(<<reading(before)>>)).change
  IN {before.labels[1], before.labels[2]} = {"Yes", "No"} /\ {after.labels[1], after.labels[2]} = {"Yes", "No"}
     /\ Prices(before).valid /\ Prices(after).valid
     => /\ change # NoValue
        /\ price(after) > price(before) => change > 0
        /\ price(after) = price(before) => change = 0
        /\ price(after) < price(before) => change < 0

(* A child that ended, or that has no price, changes nothing about the others. *)
OnlyOpenChildrenCount(markets) ==
  markets # <<>> /\ Len(PricedChildren(markets)) > 1
    => ConsensusOf([markets |-> markets, negRisk |-> "true"])
         = ConsensusOf([markets |-> SelectSeq(markets, LAMBDA m : m.open /\ Prices(m).valid), negRisk |-> "true"])

(* The spotlight is the best of what there is: as many as fit, new leaders    *)
(* first, and no movement is left out for a smaller one.                      *)
SpotlightIsTheTop(rows, basis) ==
  LET chosen == Spotlight(rows, basis)
      moved == {i \in DOMAIN rows : ~rows[i].flipped /\ Change(rows[i], basis) # NoValue
                                     /\ (Change(rows[i], basis) >= MoveFloor \/ -Change(rows[i], basis) >= MoveFloor)}
      flips == {i \in DOMAIN rows : rows[i].flipped}
      size(row) == IF Change(row, basis) < 0 THEN -Change(row, basis) ELSE Change(row, basis)
      picked == {chosen[i].id : i \in DOMAIN chosen}
      all == Cardinality(flips) + Cardinality(moved)
  IN /\ Len(chosen) = IF all < SpotlightLimit THEN all ELSE SpotlightLimit
     /\ \A i \in flips, k \in moved : rows[k].id \in picked => rows[i].id \in picked
     /\ \A i, k \in flips : rows[i].id \in picked /\ rows[k].id \notin picked => rows[i].volume >= rows[k].volume
     /\ \A i, k \in moved : rows[i].id \in picked /\ rows[k].id \notin picked => size(rows[i]) >= size(rows[k])
     /\ \A i, j \in DOMAIN chosen : i < j => ~(~chosen[i].flipped /\ chosen[j].flipped)
=============================================================================

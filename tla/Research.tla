------------------------------ MODULE Research ------------------------------
(***************************************************************************)
(* What one research looks at and what it may change: the articles of the  *)
(* markets in turn (research/news.py), the stocks the news                 *)
(* name (research/candidates.py), those each market's prices bring up      *)
(* (research/discovery.py), what is believed of the model's answer         *)
(* (llm/market_view.py, the web has its copy), and what is done to the     *)
(* watchlist (research/results.py, research/job.py, personal_research.py). *)
(* Functions of the material: a stock of the database is [code, names,     *)
(* tokens], a name found as a whole and tokens that count together.        *)
(***************************************************************************)
EXTENDS Integers, Sequences, FiniteSets, SequencesExt, FiniteSetsExt

CONSTANTS Markets,                   \* RESEARCH_NEWS_MARKETS, in order
          MaxCandidates, Reserved,   \* RESEARCH_MAX_CANDIDATES, RESEARCH_DISCOVERY_RESERVED_SLOTS
          MaxTokenFrequency,         \* STOCK_NAME_TOKEN_MAX_FREQUENCY
          GroupLimit, MinAmount,     \* candidates a market brings up, trading value
          MaxNew, MaxEvidence,       \* new proposals, articles of one
          MaxWatchlist               \* PORTFOLIO_MAX_WATCHLIST

Cut(s, n) == SubSeq(s, 1, Min({Len(s), n}))

\* Every element at its first place only.
Distinct(s) == FoldLeft(LAMBDA kept, x : IF Contains(kept, x) THEN kept ELSE Append(kept, x), <<>>, s)

-----------------------------------------------------------------------------
(* select_balanced_articles: one article of each market in turn, the       *)
(* markets of the configuration first and then those it does not name, in  *)
(* the order they came up; items is a sequence of [market, ...].           *)
MarketOrder(items) ==
    LET present == ToSet([i \in DOMAIN items |-> items[i].market])
        named == SelectSeq(Markets, LAMBDA m : m \in present)
        Other(ms, item) == IF item.market \in ToSet(ms) THEN ms ELSE Append(ms, item.market)
    IN  FoldLeft(Other, named, items)

SelectBalanced(items, max) ==
    LET order == MarketOrder(items)
        Place(i) == CHOOSE n \in DOMAIN order : order[n] = items[i].market
        Round(i) == Cardinality({j \in 1..i : items[j].market = items[i].market})
        Before(i, j) == Round(i) < Round(j) \/ (Round(i) = Round(j) /\ Place(i) < Place(j))
        all == SetToSortSeq(DOMAIN items, Before)
    IN  SubSeq(all, 1, IF Len(all) < max THEN Len(all) ELSE max)

-----------------------------------------------------------------------------
(* Names in the news: an article is the set of the words in it. *)

Frequency(token, stocks) == Cardinality({i \in DOMAIN stocks : token \in stocks[i].tokens})

(* Whole names, and the tokens not too many stocks share. *)
MatchTerms(stock, stocks) ==
    [names |-> stock.names, tokens |-> {t \in stock.tokens : Frequency(t, stocks) <= MaxTokenFrequency}]

(* One whole name, or two tokens (the one there is). *)
Named(terms, article) ==
    \/ terms.names \cap article # {}
    \/ terms.tokens # {} /\ Cardinality(terms.tokens \cap article) >= Min({2, Cardinality(terms.tokens)})

(* The candidates: the watchlist, then the stocks some article names. *)
Universe(stocks, watchlist, news) ==
    LET found == SelectSeq(stocks, LAMBDA s : \E i \in DOMAIN news : Named(MatchTerms(s, stocks), news[i]))
        codes == [i \in DOMAIN found |-> found[i].code]
    IN  Cut(Distinct(watchlist \o codes), MaxCandidates)

-----------------------------------------------------------------------------
(* What prices bring up.  Rows of a source are [code, known, share,        *)
(* amount, pct]: whether the database knows the code, whether it is a      *)
(* share, its trading value and change.                                    *)

(* The constituents of the strongest boards. *)
SectorCandidates(boards, watchlist) ==
    LET rows == SelectSeq(FlattenSeq(Cut(boards, 3)), LAMBDA r : r.known /\ ~Contains(watchlist, r.code))
    IN  Cut([i \in DOMAIN rows |-> rows[i].code], GroupLimit)

(* The screeners' shares; one that fails is skipped. *)
UsCandidates(screens, watchlist) ==
    LET rows == SelectSeq(FlattenSeq(screens), LAMBDA r : r.share /\ r.known /\ ~Contains(watchlist, r.code))
    IN  Cut(Distinct([i \in DOMAIN rows |-> rows[i].code]), GroupLimit)

(* The largest changes among those traded enough. *)
KrCandidates(rows, watchlist) ==
    LET Higher(r, s) == r.pct > s.pct
        order == SortSeq(SelectSeq(rows, LAMBDA r : r.amount >= MinAmount), Higher)
        kept == SelectSeq(order, LAMBDA r : r.known /\ ~Contains(watchlist, r.code))
    IN  Cut([i \in DOMAIN kept |-> kept[i].code], GroupLimit)

(* The first of each market, then the second of each... *)
InterleaveByMarket(groups) ==
    LET longest == Max({0} \cup {Len(groups[g]) : g \in DOMAIN groups})
        Row(i) == SelectSeq([g \in DOMAIN groups |-> IF i <= Len(groups[g]) THEN <<groups[g][i]>> ELSE <<>>],
                            LAMBDA x : x # <<>>)
    IN  Distinct(FlattenSeq(FlattenSeq([i \in 1..longest |-> Row(i)])))

(* The candidates with places kept for what prices bring up. *)
Candidates(universe, groups) ==
    LET new == SelectSeq(InterleaveByMarket(groups), LAMBDA c : ~Contains(universe, c))
        kept == MaxCandidates - Min({Reserved, Len(new)})
    IN  IF new = <<>> THEN universe ELSE Cut(Cut(universe, kept) \o new, MaxCandidates)

(* An account's: its watchlist, then the bundle the bot made without one. *)
PersonalCandidates(watchlist, bundle) == Cut(Distinct(watchlist \o bundle), MaxCandidates)

-----------------------------------------------------------------------------
(* The answer: rows [ticker, action, fine, refs], "fine" when its scores   *)
(* are numbers and its evidence a list; refs the articles it points at.    *)

Actions == {"add", "watch", "remove"}
New == {"add", "watch"}

(* References to articles that were shown; the others are dropped. *)
Evidence(refs, shown) == Cut(SelectSeq(refs, LAMBDA r : r \in 0..(shown - 1)), MaxEvidence)

\* defect: every proposal is looked for among the candidates
WithinCandidates(row, watchlist, candidates) ==
    Contains(candidates, row.ticker) /\ (row.action \in New => ~Contains(watchlist, row.ticker))

(* A proposal is about a candidate not yet watched, a removal about a      *)
(* stock that is.                                                          *)
InScope(row, watchlist, candidates) ==
    IF row.action \in New THEN Contains(candidates, row.ticker) /\ ~Contains(watchlist, row.ticker)
    ELSE Contains(watchlist, row.ticker)

Failed == [ok |-> FALSE, rows |-> <<>>]

(* Of the rows, the first of each stock in scope, MaxNew of them new; one  *)
(* that is not fine fails the whole answer.                                *)
NormalizedActions(rows, watchlist, candidates, shown) ==
    LET Full(m, row) == row.action \in New /\ Cardinality({i \in DOMAIN m.rows : m.rows[i].action \in New}) >= MaxNew
        Seen(m, row) == \E i \in DOMAIN m.rows : m.rows[i].ticker = row.ticker
        step(m, row) ==
            IF ~m.ok \/ row.action \notin Actions \/ ~InScope(row, watchlist, candidates) \/ Full(m, row) \/ Seen(m, row)
            THEN m
            ELSE IF ~row.fine THEN Failed
            ELSE [m EXCEPT !.rows = Append(@, [ticker |-> row.ticker, action |-> row.action,
                                               refs |-> Evidence(row.refs, shown)])]
        all == FoldLeft(step, [ok |-> TRUE, rows |-> <<>>], rows)
    IN  [all EXCEPT !.rows = Cut(@, Max({4, MaxNew + 4}))]

(* The operator's research... *)
Analysis(answer, watchlist, candidates, shown) ==
    IF answer.form = "object" THEN NormalizedActions(answer.rows, watchlist, candidates, shown) ELSE Failed

(* ... and an account's, by the web's copy of the same code. *)
PersonalAnalysis(answer, watchlist, bundle, shown) ==
    IF answer.form # "object" THEN Failed
    ELSE NormalizedActions(answer.rows, watchlist, PersonalCandidates(watchlist, bundle), shown)

(* At most five objections; one without a point is dropped. *)
Critique(rows, shown) ==
    Cut(SelectSeq([i \in DOMAIN rows |-> [point |-> rows[i].point, refs |-> Cut(Evidence(rows[i].refs, shown), 1)]],
                  LAMBDA r : r.point), 5)

-----------------------------------------------------------------------------
(* The watchlist *)

(* What is to be added and removed of a result; a proposal to watch is     *)
(* only shown.                                                             *)
Collected(rows, watchlist) ==
    LET Of(action) == SelectSeq(rows, LAMBDA r : r.action = action)
        Codes(s) == Distinct([i \in DOMAIN s |-> s[i].ticker])
    IN  [add |-> SelectSeq(Codes(Of("add")), LAMBDA c : ~Contains(watchlist, c)),
         remove |-> SelectSeq(Codes(Of("remove")), LAMBDA c : Contains(watchlist, c))]

(* Removals and then additions, each only if the file still wants it. *)
Applied(collected, file) ==
    LET gone == SelectSeq(collected.remove, LAMBDA c : Contains(file, c))
        left == SelectSeq(file, LAMBDA c : ~Contains(gone, c))
        new == SelectSeq(collected.add, LAMBDA c : ~Contains(left, c))
    IN  [watchlist |-> left \o new, add |-> new, remove |-> gone]

(* An account applies one proposal of its last result at a time. *)
PersonalApplied(result, ticker, action, watchlist) ==
    LET proposed == \E i \in DOMAIN result.rows : result.rows[i].ticker = ticker /\ result.rows[i].action = action
        full == Len(watchlist) >= MaxWatchlist /\ ~Contains(watchlist, ticker)
    IN  IF ~proposed \/ action \notin {"add", "remove"} \/ (action = "add" /\ full) THEN watchlist
        ELSE IF action = "add" THEN Distinct(Append(watchlist, ticker))
        ELSE SelectSeq(watchlist, LAMBDA c : c # ticker)

-----------------------------------------------------------------------------
(* The analysis hears every market: while a market has an article left,    *)
(* no other one has two more than it among those selected.                 *)
NoMarketIsDrowned(items, max) ==
    LET chosen == SelectBalanced(items, max)
        Of(S, m) == Cardinality({i \in S : items[i].market = m})
        markets == {items[i].market : i \in DOMAIN items}
    IN  /\ Len(chosen) = (IF Len(items) < max THEN Len(items) ELSE max)
        /\ \A m, n \in markets : \/ Of(ToSet(chosen), n) = Of(DOMAIN items, n)
                                 \/ Of(ToSet(chosen), m) <= Of(ToSet(chosen), n) + 1

(* A market with many candidates takes no place of another: of what prices *)
(* bring up, a market left out has no fewer places than any other market   *)
(* whose candidates are its own; what they bring up has the places kept    *)
(* for it, and the watchlist the others.                                   *)
EveryMarketIsHeard(universe, groups) ==
    LET all == Candidates(universe, groups)
        Own(g) == {c \in ToSet(groups[g]) : ~Contains(universe, c) /\ \A h \in DOMAIN groups \ {g} : ~Contains(groups[h], c)}
        Places(g) == Cardinality(Own(g) \cap ToSet(all))
        new == UNION {ToSet(groups[g]) : g \in DOMAIN groups} \ ToSet(universe)
        Apart == \A g, h \in DOMAIN groups : g # h => ToSet(groups[g]) \cap (ToSet(groups[h]) \cup ToSet(universe)) = {}
    IN  /\ Len(all) <= MaxCandidates /\ IsInjective(all)
        /\ Cardinality(ToSet(all) \cap new) >= Min({Reserved, Cardinality(new)})
        /\ \A i \in DOMAIN universe : i <= MaxCandidates - Reserved => Contains(all, universe[i])
        /\ Apart => \A g, h \in DOMAIN groups : Own(g) \subseteq ToSet(all) \/ Places(g) + 1 >= Places(h)

(* Nothing the model says reaches the watchlist unless the research showed *)
(* it: what is added was a candidate and is no stock the list had when the *)
(* research began, what is removed was on it then and is now; no stock is  *)
(* both; MaxNew bounds the additions, and every shown reference exists.  A *)
(* removal is not lost because the list was longer than the candidates.    *)
OnlyWhatWasShown(answer, watchlist, candidates, shown, file) ==
    LET result == Analysis(answer, watchlist, candidates, shown)
        done == Applied(Collected(result.rows, watchlist), file)
        Wanted == {r \in ToSet(answer.rows) : r.action = "remove" /\ r.fine /\ Contains(watchlist, r.ticker) /\ Contains(file, r.ticker)}
    IN  /\ ToSet(done.add) \subseteq ToSet(candidates) \ ToSet(watchlist)
        /\ ToSet(done.remove) \subseteq ToSet(watchlist) \cap ToSet(file)
        /\ Len(done.add) <= MaxNew /\ ToSet(done.add) \cap ToSet(done.remove) = {}
        /\ \A i \in DOMAIN result.rows : ToSet(result.rows[i].refs) \subseteq 0..(shown - 1)
        /\ result.ok /\ Len(answer.rows) <= 4 => \A r \in Wanted : Contains(done.remove, r.ticker)
=============================================================================

--------------------------- MODULE MCPolymarketDay ---------------------------
(* Two questions: who wins, with several answers, and whether a rate falls.  *)
EXTENDS PolymarketDay

MCCategoryTags == [economy |-> {"fed"}, geopolitics |-> {"war"}, sports |-> {"nfl"}]
MCBriefGroups == <<<<"macro", {"fed"}>>>>
MCMinEvents == [macro |-> 1]

YesNo(yes) == [labels |-> <<"Yes", "No">>, prices |-> <<yes, One - yes>>, open |-> TRUE, liquidity |-> 5, name |-> "it"]
Child(name, yes) == [YesNo(yes) EXCEPT !.name = name]
Question(id, markets, title, tags, volume) ==
  Normalized([id |-> id, markets |-> markets, negRisk |-> "true", liquidity |-> 5, volume |-> volume, tags |-> tags,
              title |-> title, soon |-> FALSE])

Race(a, title) == Question("race", <<Child("a", a), Child("b", One - a)>>, title, {"fed"}, 9)
Rate(yes) == Question("rate", <<YesNo(yes)>>, "rate", {"fed", "war"}, 8)

MCContents == {("race" :> Race(12, "t1")) @@ ("rate" :> Rate(12)),
               ("race" :> Race(6, "t2")) @@ ("rate" :> Rate(4)),
               ("rate" :> Rate(14))}

MCOldBrief == [gen |-> 0, rows |-> [g \in {"macro"} |->
                [status |-> "ok", text |-> [by |-> "model", gen |-> 0, made |-> -1, format |-> "old"],
                 at |-> -1, stale |-> FALSE, factsOnly |-> FALSE]]]
-----------------------------------------------------------------------------
(* The rules of Consensus that the day relies on, for every input of a small *)
(* space; TLC evaluates them before it starts.                               *)

Outcomes == {<<"Yes", "No">>, <<"No", "Yes">>}
Quoted(labels, first) == [YesNo(first) EXCEPT !.labels = labels]
QuotedMarkets == {Quoted(labels, first) : labels \in Outcomes, first \in {4, 8, 10, 12, 16}}

(* A movement of the title's price keeps its sign, whatever order the source  *)
(* lists the outcomes in and whoever leads (models.py and trending.py).       *)
ASSUME SignAssumption == \A before, after \in QuotedMarkets : MovementHasTheSignOfYes(before, after, "rate")

(* Children that ended or have no price weigh nothing (taxonomy.py's shares). *)
Children == {Child("a", 12), Child("b", 8), [Child("c", 8) EXCEPT !.open = FALSE],
             [Child("d", 8) EXCEPT !.labels = <<"?", "?">>]}
ASSUME ChildrenAssumption == \A n \in 1..4 : \A markets \in [1..n -> Children] : OnlyOpenChildrenCount(markets)

(* What is put in front is the best of what moved (trending.py's ranking).    *)
MovedRows(id) == {[id |-> id, volume |-> volume, day |-> day, previous |-> NoValue, flipped |-> FALSE,
                   grown |-> NoValue, new |-> FALSE] :
                    volume \in {1, 2}, day \in {-3, 0, 2}}
                 \cup {[id |-> id, volume |-> volume, day |-> NoValue, previous |-> NoValue, flipped |-> TRUE,
                        grown |-> NoValue, new |-> FALSE] : volume \in {1, 2}}
ASSUME SpotlightAssumption ==
  \A r1 \in MovedRows("x"), r2 \in MovedRows("y"), r3 \in MovedRows("z") : SpotlightIsTheTop(<<r1, r2, r3>>, "day")
=============================================================================

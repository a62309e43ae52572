------------------------------- MODULE MCPure -------------------------------
(***************************************************************************)
(* The functions of the program over small inputs: every input is a state  *)
(* behind the first one, and each property reads the inputs of its kind.   *)
(***************************************************************************)
EXTENDS Integers, Sequences, FiniteSets, SequencesExt, TLC

VARIABLE input

Study == INSTANCE Research WITH
    Markets <- <<"US", "KR">>,
    MaxCandidates <- 4, Reserved <- 2, MaxTokenFrequency <- 1, GroupLimit <- 2, MinAmount <- 5,
    MaxNew <- 1, MaxEvidence <- 1, MaxWatchlist <- 2

Page == INSTANCE Diagnosis

News == INSTANCE Headlines WITH
    Limit <- 4, MaxAgeHours <- 3, SpamPublishers <- {"spam"}, Indexes <- <<"KR", "US">>

Script == INSTANCE ShortsScript WITH
    PerTopic <- 1, PerSector <- 2, MaxShown <- 3, RequiredLabels <- 2, MaxNews <- 2

Speech == INSTANCE ShortsVoice WITH
    OpeningPause <- 5, TopicPause <- 7, ClosingPause <- 8, SentencePause <- 4, OpenerPause <- 6,
    Guard <- 2, Fade <- 1, Stops <- {"."}

-----------------------------------------------------------------------------
(* A research *)

Seqs(s, n) == UNION {{f \in [1..k -> s] : \A i, j \in 1..k : i # j => f[i] # f[j]} : k \in 0..n}
Universes == Seqs({"a", "b", "x", "y"}, 4)
GroupSets == {<<g, h>> : g \in Seqs({"a", "x", "y"}, 2), h \in Seqs({"x", "u", "v"}, 2)}
Proposals == {[ticker |-> t, action |-> a, fine |-> TRUE, refs |-> <<0, 1>>] :
                t \in {"a", "x", "z"}, a \in {"add", "remove", "watch"}}
             \cup {[ticker |-> "a", action |-> "add", fine |-> FALSE, refs |-> <<>>]}

Selections == UNION {[1..n -> [market : {"US", "KR", "JP"}]] : n \in 0..5}

PickStudy ==
    \/ /\ input.kind = "none"
       /\ \/ \E s \in Selections : input' = [kind |-> "selection", items |-> s]
          \/ \E u \in Universes : input' = [kind |-> "universe", universe |-> u]
          \/ \E w \in {<<>>, <<"a">>, <<"a", "z">>}, c \in {<<"x">>, <<"a", "x">>}, f \in {<<"a">>, <<"x", "z">>} :
               input' = [kind |-> "question", watchlist |-> w, candidates |-> c, file |-> f]
    \/ /\ input.kind = "universe"
       /\ \E g \in GroupSets : input' = [kind |-> "places", universe |-> input.universe, groups |-> g]
    \/ /\ input.kind = "question"
       /\ \E n \in 0..3 : \E rows \in [1..n -> Proposals] :
            input' = [input EXCEPT !.kind = "answer"] @@ [answer |-> [form |-> "object", rows |-> rows]]

(* No market drowns another in what is read, every market is heard among   *)
(* the candidates, and a change names only what the model was shown        *)
(* (Research).                                                             *)
ResearchIsFair ==
    /\ input.kind = "selection" => Study!NoMarketIsDrowned(input.items, 3)
    /\ input.kind = "places" => Study!EveryMarketIsHeard(input.universe, input.groups)
    /\ input.kind = "answer" =>
         Study!OnlyWhatWasShown(input.answer, input.watchlist, input.candidates, 1, input.file)

-----------------------------------------------------------------------------
(* Headlines and messages *)

Entry(title, source, url, at, marks) ==
    [id |-> "", title |-> title, content |-> FALSE, url |-> url, source |-> source, at |-> at,
     zoned |-> at = 0, marks |-> marks]
Titles == {<<>>, <<"one">>, <<"one", "pub">>, <<"one", "pub", "pub">>, <<"pub", "pub">>, <<"spam">>}
Entries == {Entry(t, "pub", u, a, m) : t \in Titles, u \in {"", "u"}, a \in {-3, 0},
                                       m \in {{}, {"flash"}, {"hangul", "gambling term", "game guide"}}}
           \cup {Entry(<<"two", "spam">>, "spam", "v", 1, {}), Entry(<<"two">>, "", "w", -4, {}),
                 Entry(<<"two">>, "", "", News!Undated, {"picks"})}
Addresses == {Entry(<<"one", "pub">>, "pub", u, 0, {}) : u \in {"u", "v", "w", "x", "y"}}
Asked(es) == [ok |-> TRUE, entries |-> es]
Outcomes == {[ok |-> FALSE, entries |-> <<>>]} \cup {Asked(es) : es \in BoundedSeq(Addresses, 2)}
Numbers == {[digits |-> d, letters |-> l, first |-> f] :
              d \in {<<>>, <<7>>, <<0, 0, 0, 0, 7>>, <<7, 2, 0, 3, 0, 1>>, <<1, 2, 3, 4, 5, 6, 7>>},
              l \in {"", ".T"}, f \in BOOLEAN}

(* An account, its shares just below, at and just above the limits, its    *)
(* terms at and around each stage.                                         *)
Asset(id, kind, value, loan, left) == [id |-> id, kind |-> kind, value |-> value, loan |-> loan, left |-> left]
Accounts ==
    {{Asset(1, kind, value, 0, left), Asset(2, "real_estate", 10000 - value, loan, Page!NoTerm)} :
       kind \in Page!Kinds \ {"real_estate"}, loan \in {0, 6002},
       value \in {0, 500, 1000, 3003, 3004, 3006, 5994, 5996, 6004, 6006},
       left \in {-1, 0, 1, 7, 8, 30, 31, 90, 91, Page!NoTerm}}

PickNews ==
    \/ /\ input.kind = "none"
       /\ \/ \E a \in Accounts : input' = [kind |-> "account", assets |-> a]
          \/ \E e \in Entries : input' = [kind |-> "entry", entry |-> e]
          \/ \E x \in Outcomes : input' = [kind |-> "query", outcome |-> x]
          \/ \E n \in 0..4 : \E l \in [1..n -> 1..5] :
               input' = [kind |-> "sections", lengths |-> l, most |-> 6, between |-> 2]
          \/ \E r, s \in Numbers : input' = [kind |-> "codes", raws |-> <<r, s>>]
    \/ /\ input.kind = "entry"
       /\ \E e \in Entries, n \in {0, 1} :
            input' = [kind |-> "feed", outcomes |-> <<Asked(<<input.entry, e>>)>>, now |-> n]
    \/ /\ input.kind = "query"
       /\ \E x, y \in Outcomes : input' = [kind |-> "queries", outcomes |-> <<input.outcome, x, y>>]

(* Feeds, queries, messages and codes are read and put together right, and *)
(* an account's alarms agree with what they say (Headlines, Diagnosis).    *)
NewsIsReadRight ==
    /\ input.kind = "account" => Page!AlarmSaysWhatItShows(input.assets)
    /\ input.kind = "feed" => News!ArticlesSaySomething(input.outcomes, input.now)
    /\ input.kind = "queries" => News!EveryQueryIsHeard(input.outcomes)
    /\ input.kind = "sections" => News!MessagesAreFull(input.lengths, input.most, input.between)
    /\ input.kind = "codes" => News!CodesSettle(input.raws)

-----------------------------------------------------------------------------
(* A video's script *)

Choice(id, yes, volume, group) ==
    [id |-> id, yes |-> yes, volume |-> volume, rung |-> [group |-> group, value |-> id],
     other |-> FALSE, sound |-> TRUE]
Event(id, topic, score, days) ==
    [id |-> id, sector |-> "macro", sound |-> TRUE, days |-> days, leader |-> 500, topic |-> topic, score |-> score]
Piece(title, days, hits) == [title |-> title, days |-> days, hits |-> hits]

Asks(groups, due, way) == [groups |-> groups, due |-> due, way |-> way]
Questions == {Asks(<<>>, <<>>, ""), Asks(<<{3}, {2026}>>, <<3>>, ""), Asks(<<{3}, {2027}>>, <<3>>, ""),
              Asks(<<{2026}>>, <<>>, ""), Asks(<<{10}, {2026}>>, <<>>, "high"),
              Asks(<<{11}, {2026}>>, <<>>, "low"), Asks(<<{100, 1}, {3}, {31}>>, <<3, 31>>, "")}
LabelTexts == {[numbers |-> n, way |-> w] :
                 n \in {{}, {3}, {10}, {11}, {1}, {2026}, {3, 31}, {10, 2026}, {99}}, w \in {"", "high"}}

Plain == [numbers |-> {}, way |-> ""]
Named(id) == [id |-> id, text |-> Plain]
Wrongly(id) == [id |-> id, text |-> [numbers |-> {99}, way |-> ""]]
Issue(id, n) == [id |-> id, choices |-> [i \in 1..n |-> [id |-> i, yes |-> 600 - 100 * i, question |-> Asks(<<>>, <<>>, "")]]]
ScriptRows(id) == {[id |-> id, sound |-> s, opener |-> <<>>, labels |-> l] : s \in BOOLEAN,
                     l \in {<<Named(1), Named(2), Named(3)>>, <<Named(1), Named(2)>>, <<Named(1)>>,
                           <<Named(2), Named(1)>>, <<Named(1), Wrongly(1), Named(2)>>,
                           <<Named(1), Wrongly(2)>>, <<Named(1), Named(2), Wrongly(3)>>}}
Pairs(x, y) == {<<a, b>> : a \in ScriptRows(x), b \in ScriptRows(y)}
Words == {<<>>, <<"next", "rates">>, <<"last", "rates">>, <<"last">>, <<"first", "oil", "and", "gas">>,
          <<"first", "gold", "and", "coal">>}

PickScript ==
    \/ /\ input.kind = "none"
       /\ \/ \E n \in 1..4 : \E y \in [1..n -> {995, 900, 500, 300, 20}] :
               input' = [kind |-> "chances", yes |-> y]
          \/ \E n \in 1..4 : \E e \in [1..n -> {"a", "b"} \X {1, 2} \X {1, 2}] :
               input' = [kind |-> "events", events |-> [i \in 1..n |-> Event(i, e[i][1], e[i][2], e[i][3])]]
          \/ \E n \in 1..4 : \E r \in [1..n -> {"a", "b", "c"} \X {-1, 0} \X {0, 1, 3}] :
               input' = [kind |-> "articles", pool |-> [i \in 1..n |-> Piece(r[i][1], r[i][2], r[i][3])]]
          \/ \E q, r \in Questions : input' = [kind |-> "asked", questions |-> <<q, r>>]
          \/ \E n \in {1, 3} : \E x \in Pairs("i", "j") :
               input' = [kind |-> "issues", issues |-> <<Issue("i", 3), Issue("j", n)>>, first |-> x]
          \/ \E n \in 1..3 : \E w \in [1..n -> Words] :
               input' = [kind |-> "openers", scripts |-> [i \in 1..n |-> [opener |-> w[i]]]]
    \/ /\ input.kind = "chances"
       /\ \E v \in [DOMAIN input.yes -> {1, 2}], g \in {<<"date", "date">>, <<"up", "down">>} :
            input' = [kind |-> "ladder",
                      choices |-> [i \in DOMAIN input.yes |-> Choice(i, input.yes[i], v[i], g[1 + (i % 2)])]]
    \/ /\ input.kind = "asked"
       /\ \E l, m \in LabelTexts : input' = [input EXCEPT !.kind = "labels"] @@ [labels |-> <<l, m>>]
    \/ /\ input.kind = "issues"
       /\ \E x \in Pairs("i", "j") \cup {<<r>> : r \in ScriptRows("i")} :
            input' = [kind |-> "scripts", issues |-> input.issues, answers |-> <<input.first, x>>]

-----------------------------------------------------------------------------
(* A video's voice: a text is a sequence of words, each written and spoken *)
(* alike or not, with a bracket or the end of a sentence after it.         *)

Alike(c) == [form |-> <<c>>, said |-> <<c>>]
Foreign == [form |-> <<"X">>, said |-> <<"e", "s">>]
Bracket == [form |-> <<"(", "X", ")">>, said |-> <<>>]
WordForms == {[pieces |-> <<p>>, stop |-> s] : p \in {Alike("a"), Foreign}, s \in BOOLEAN}
             \cup {[pieces |-> <<Alike("a"), Bracket>>, stop |-> FALSE]}
Narrated(ws) ==
    FlattenSeq([k \in DOMAIN ws |-> ws[k].pieces \o <<Alike(" ")>> \o (IF ws[k].stop THEN <<Alike(".")>> ELSE <<>>)])
SaidAs(w) == Speech!Spoken(w.pieces)
Timed(all, gaps) ==
    LET step(m, k) == LET start == IF k = 1 THEN 1 ELSE m[k - 1].end + gaps[k - 1]
                      IN  Append(m, [text |-> SaidAs(all[k]), start |-> start, end |-> start + 2])
    IN  FoldLeft(step, <<>>, [k \in DOMAIN all |-> k])

PickVoice ==
    \/ /\ input.kind = "none"
       /\ \E n \in 1..3 : \E c \in [1..n -> 1..2] : input' = [kind |-> "scenes", counts |-> c]
    \/ /\ input.kind = "scenes"
       /\ LET total == FoldLeft(+, 0, input.counts)
          IN  total <= 4 /\ \E ws \in [1..total -> WordForms] :
                input' = [input EXCEPT !.kind = "text"] @@ [forms |-> ws]
    \/ /\ input.kind = "text"
       /\ \E g \in [1..(Len(input.forms) - 1) -> {2, 5, 9}] :
            input' = [input EXCEPT !.kind = "voice"] @@ [gaps |-> g]

Spoken(forms, gaps, counts) ==
    LET First(i) == FoldLeft(+, 0, SubSeq(counts, 1, i - 1)) + 1
        Scene(i) == SubSeq(forms, First(i), First(i) + counts[i] - 1)
        words == Timed(forms, gaps)
        all == Len(words)
    IN  Speech!SpeechStaysInStep([i \in DOMAIN counts |-> Narrated(Scene(i))], words, words[all].end + 3, counts,
            {First(i) - 1 : i \in 2..Len(counts)} \cup {k \in 1..(all - 1) : forms[k].stop})

(* A video tells the right events, choices and labels, its scenes follow   *)
(* on one another, and its voice keeps step (ShortsScript, ShortsVoice).   *)
VideoIsSound ==
    /\ input.kind = "events" => Script!ShortlistIsFair(input.events, <<"macro">>)
    /\ input.kind = "articles" => Script!NewsIsRelated(input.pool)
    /\ input.kind = "ladder" => Script!LadderReads(input.choices)
    /\ input.kind = "labels" => Script!LabelsTellApart(input.questions, input.labels)
    /\ input.kind = "scripts" => Script!ScriptsFitIssues(input.answers, input.issues)
    /\ input.kind = "openers" => Script!OpenersFit(input.scripts)
    /\ input.kind = "voice" => Spoken(input.forms, input.gaps, input.counts)

-----------------------------------------------------------------------------
Init == input = [kind |-> "none"]
Next == PickStudy \/ PickNews \/ PickScript \/ PickVoice
Spec == Init /\ [][Next]_input
=============================================================================

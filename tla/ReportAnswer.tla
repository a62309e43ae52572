---------------------------- MODULE ReportAnswer ----------------------------
(***************************************************************************)
(* What the report does with one market: which articles it shows the       *)
(* model, what it believes of the answers, whether it asks again, and      *)
(* whether it publishes or holds (news/report.py, llm/news_report.py).     *)
(* An article is [id, title, publisher, korean, exploring] and is known by *)
(* its place in the queue; a title is its text followed by the publisher's *)
(* names a feed appended; an answer is described where it is parsed.       *)
(* What is kept of a list is a function on the places that are kept.       *)
(***************************************************************************)
EXTENDS Integers, Sequences, FiniteSets, SequencesExt, FiniteSetsExt

CONSTANTS MaxHighlights, MinHighlights, OneIn,   \* highlights: one in OneIn articles
          MaxHeadlines, MinArticles,             \* the most shown, the fewest worth a call
          MaxHeldHours, AlwaysPublish,           \* when a market is not held any longer
          FallbackHeadlines,                     \* titles made public without a report
          RowsRead, SampleSize, SampleExploring, \* rows of evaluations
          Alike,                                 \* pairs of sentences as good as the same
          Queues, Situations, Earlier, AnswerPairs  \* what a market may have queued, its name and
                                                 \* the hours it was held, its last text, and
                                                 \* what the model may answer twice

VARIABLES stage, report, replies, outcome

vars == <<stage, report, replies, outcome>>

-----------------------------------------------------------------------------
(* The articles *)

(* The articles with a title, the first of each id. *)
Reportable(queued) ==
    LET titled == {i \in DOMAIN queued : queued[i].title # <<>> /\ queued[i].id # ""}
    IN  {i \in titled : \A j \in titled : j < i => queued[j].id # queued[i].id}

FirstOf(places, n) == {i \in places : Cardinality({j \in places : j <= i}) <= n}

Shown(queued) == [i \in FirstOf(Reportable(queued), MaxHeadlines) |-> queued[i]]

RoundHalfEven(a, b) ==
    LET q == a \div b
        r == 2 * (a % b)
    IN  IF r > b \/ (r = b /\ q % 2 = 1) THEN q + 1 ELSE q

HighlightLimit(n) == Max({MinHighlights, Min({MaxHighlights, RoundHalfEven(n, OneIn)})})

(* The articles whose importance the model is asked for besides: half of   *)
(* the sample, where there are so many, from those tried out.              *)
Samples(items) ==
    LET Of(pool, n) == {s \in SUBSET pool : Cardinality(s) = Min({n, Cardinality(pool)})}
        tried == {i \in DOMAIN items : items[i].exploring}
    IN  UNION {{e \cup r : r \in Of(DOMAIN items \ e, SampleSize - Cardinality(e))} :
                 e \in Of(tried, SampleExploring)}

-----------------------------------------------------------------------------
(* The answer: [form, publish, text, highlights, evaluations].  The form   *)
(* is "fails" (no answer), "nothing" (no JSON object), "broken" (its text  *)
(* may be saved) or "object"; publish is "yes", "no" or "absent"; the text *)
(* is a sequence of lines of sentences; a row of highlights or evaluations *)
(* is [id, title, said, fine, impact] with the title it claims the article *)
(* has, whether it gives one of its own, and whether its other fields are  *)
(* well formed.                                                            *)

(* Without the publisher's names at its end, but for a title of nothing    *)
(* else.                                                                   *)
Comparable(title, publisher) ==
    [k \in {k \in DOMAIN title : \E j \in k..Len(title) : j = 1 \/ title[j] # publisher} |-> title[k]]

\* defect: the id alone names an article
ById(row, items) == {i \in DOMAIN items : items[i].id = row.id}

(* The position of the article a row names by its id and its title. *)
ArticleIndex(row, items) ==
    {i \in DOMAIN items : /\ items[i].id = row.id
                          /\ Comparable(row.title, items[i].publisher)
                               = Comparable(items[i].title, items[i].publisher)}

Impacts == {"high", "medium", "low"}

The(indexes) == CHOOSE i \in indexes : TRUE

(* Of the rows at these places, the first of each article. *)
FirstOfEach(places, rows, items) ==
    {k \in places : \A j \in places : j < k => ArticleIndex(rows[j], items) # ArticleIndex(rows[k], items)}

(* A highlight that is not well formed is left out alone. *)
Highlights(rows, items) ==
    LET usable == {k \in DOMAIN rows :
                     /\ \E i \in ArticleIndex(rows[k], items) : items[i].korean \/ rows[k].said
                     /\ rows[k].fine /\ rows[k].impact \in Impacts}
        Title(row, i) == IF items[i].korean THEN Comparable(items[i].title, items[i].publisher)
                         ELSE <<"rewritten">>
        Entry(row, i) == [index |-> i, impact |-> row.impact, title |-> Title(row, i)]
    IN  [k \in FirstOfEach(usable, rows, items) |-> Entry(rows[k], The(ArticleIndex(rows[k], items)))]

Evaluations(rows, items, highlighted) ==
    LET usable == {k \in DOMAIN rows :
                     /\ k <= RowsRead /\ rows[k].impact \in Impacts
                     /\ \E i \in ArticleIndex(rows[k], items) : i \notin highlighted}
    IN  [k \in FirstOfEach(usable, rows, items) |->
           [index |-> The(ArticleIndex(rows[k], items)), impact |-> rows[k].impact]]

(* The lines without sentences that repeat one before. *)
Paragraphs(text) ==
    LET New(seen, line) == FoldLeft(LAMBDA kept, s : IF \E t \in seen \cup ToSet(kept) : <<s, t>> \in Alike
                                                     THEN kept ELSE Append(kept, s), <<>>, line)
        step(m, line) == LET kept == New(m.seen, line)
                         IN  [seen |-> m.seen \cup ToSet(kept),
                              text |-> IF kept = <<>> THEN m.text ELSE Append(m.text, kept)]
    IN  FoldLeft(step, [seen |-> {}, text |-> <<>>], text).text

Wrong == [ok |-> FALSE]
Result(publish, text, highlights, evaluations) ==
    [ok |-> TRUE, publish |-> publish, text |-> text, highlights |-> highlights, evaluations |-> evaluations]

(* What can be saved of an answer that is no JSON: its text, the last time. *)
Saved(answer, last) ==
    IF last /\ answer.text # <<>> THEN Result(TRUE, Paragraphs(answer.text), <<>>, <<>>) ELSE Wrong

Publishes(answer, must) == answer.publish # "no" \/ must

(* An object with the highlights that were read and those that were kept.  *)
OfObject(answer, publish, read, kept, rated, last) ==
    IF DOMAIN kept = {} /\ DOMAIN read # {} /\ ~last THEN Wrong
    ELSE IF publish /\ DOMAIN kept = {} /\ answer.text = <<>> THEN Wrong
    ELSE IF publish THEN Result(TRUE, Paragraphs(answer.text), kept, rated)
    ELSE Result(FALSE, <<>>, <<>>, rated)

Rated(answer, items, kept) == Evaluations(answer.evaluations, items, {kept[k].index : k \in DOMAIN kept})

ReadObject(answer, items, publish, last) ==
    LET most == HighlightLimit(Cardinality(DOMAIN items))
        read == [k \in {k \in DOMAIN answer.highlights : publish /\ k <= most} |-> answer.highlights[k]]
        Kept(kept) == OfObject(answer, publish, read, kept, Rated(answer, items, kept), last)
    IN  Kept(Highlights(read, items))

Parse(answer, items, last, must) ==
    IF answer.form \in {"fails", "nothing"} THEN Wrong
    ELSE IF answer.form = "broken" THEN Saved(answer, last)
    ELSE ReadObject(answer, items, Publishes(answer, must), last)

(* Two attempts, but none after a call that failed; of the evaluations     *)
(* those that were asked for.                                              *)
Calls(answers, items, must) ==
    IF answers[1].form = "fails" \/ Parse(answers[1], items, FALSE, must).ok THEN 1 ELSE 2

Asked(result, sample) ==
    IF result.ok THEN [result EXCEPT !.evaluations = [k \in {k \in DOMAIN @ : @[k].index \in sample} |-> @[k]]]
    ELSE Wrong

Used(answers, calls, items, must) == Parse(answers[calls], items, calls = 2, must)

Analyze(answers, items, sample, must) ==
    Asked(Used(answers, Calls(answers, items, must), items, must), sample)

-----------------------------------------------------------------------------
(* The market *)

SameText(new, old) == new # <<>> /\ new = old

(* Each label with the row it came from. *)
Labels(highlights, evaluations) ==
    [from \in ({"highlight"} \X DOMAIN highlights) \cup ({"evaluation"} \X DOMAIN evaluations) |->
       IF from[1] = "highlight" THEN highlights[from[2]] ELSE evaluations[from[2]]]
Unlabelled == Labels(<<>>, <<>>)

Notable(rows) == {rows[k].index : k \in {j \in DOMAIN rows : rows[j].impact # "low"}}
Held(labels) == [verdict |-> "held", asked |-> TRUE, public |-> {}, labels |-> labels]
MadePublic(public, labels) == [verdict |-> "published", asked |-> TRUE, public |-> public, labels |-> labels]

Verdict(places, must, previous, result) ==
    IF places = {} THEN [Held(Unlabelled) EXCEPT !.verdict = "empty", !.asked = FALSE]
    ELSE IF Cardinality(places) < MinArticles /\ ~must THEN [Held(Unlabelled) EXCEPT !.asked = FALSE]
    ELSE IF ~result.ok /\ ~must THEN Held(Unlabelled)
    ELSE IF ~result.ok THEN MadePublic(FirstOf(places, FallbackHeadlines), Unlabelled)
    ELSE IF ~result.publish \/ SameText(result.text, previous) THEN Held(Labels(<<>>, result.evaluations))
    ELSE MadePublic(Notable(result.highlights), Labels(result.highlights, result.evaluations))

Must(held) == held >= MaxHeldHours
Forced(market, held) == Must(held) \/ market \in AlwaysPublish

(* What becomes of a market: its verdict, whether the model was asked, the *)
(* articles that are made public, and the importance that is learned.      *)
Market(market, queued, held, previous, answers, sample) ==
    Verdict(Reportable(queued), Must(held), previous,
            Analyze(answers, Shown(queued), sample, Forced(market, held)))

-----------------------------------------------------------------------------
(* One market of one report: its articles are collected, then the model is *)
(* asked, at most twice, and the market is decided.                        *)

Nothing == [verdict |-> "none"]

Init == stage = "idle" /\ report = Nothing /\ replies = <<>> /\ outcome = Nothing

Collect ==
    /\ stage = "idle" /\ stage' = "collected"
    /\ \E queued \in Queues, situation \in Situations, previous \in Earlier :
         report' = [market |-> situation[1], held |-> situation[2], queued |-> queued, previous |-> previous,
                    sample |-> {}]
    /\ UNCHANGED <<replies, outcome>>

Decide ==
    /\ stage = "collected" /\ stage' = "decided"
    /\ \E given \in AnswerPairs : replies' = given
    /\ \E sample \in Samples(Shown(report.queued)) :
         /\ outcome' = Market(report.market, report.queued, report.held, report.previous, replies', sample)
         /\ report' = [report EXCEPT !.sample = sample]

Next == Collect \/ Decide

-----------------------------------------------------------------------------
(* The answer that was used of those the model gave. *)
Attempt == Calls(replies, Shown(report.queued), Forced(report.market, report.held))

(* The prefilter learns each importance once and of the article it was     *)
(* meant for: no article has two labels, each label has a row with the id, *)
(* the title and the importance in the answer that was used, and an        *)
(* article the model was neither asked about nor showed is not labelled;   *)
(* what is made public of a report is labelled.                            *)
LabelsAreMeant ==
    stage = "decided" =>
        LET labels == outcome.labels
            used == replies[Attempt]
            Rows == {used.highlights[k] : k \in DOMAIN used.highlights}
                    \cup {used.evaluations[k] : k \in DOMAIN used.evaluations}
        IN  /\ \A r, s \in DOMAIN labels : labels[r].index = labels[s].index => r = s
            /\ \A r \in DOMAIN labels :
                 LET article == report.queued[labels[r].index]
                 IN  /\ \E row \in Rows : /\ row.id = article.id /\ row.impact = labels[r].impact
                                          /\ row.title[1] = article.title[1]
                     /\ labels[r].index \in report.sample \/ outcome.verdict = "published"
            /\ outcome.verdict = "published" /\ DOMAIN labels # {} =>
                 \A i \in outcome.public : \E r \in DOMAIN labels : labels[r].index = i

(* A market is silent only for a reason: it is thin, the model said no     *)
(* (where it may), the analysis failed, or the text is the one readers     *)
(* have; and after MaxHeldHours only the last.  The model is asked a       *)
(* second time only when the first answer gave nothing to publish.         *)
SilenceHasAReason ==
    stage = "decided" =>
        LET items == Shown(report.queued)
            must == Must(report.held)
            forced == Forced(report.market, report.held)
            used == replies[Attempt]
        IN  /\ outcome.verdict = "held" =>
                 \/ ~must /\ Cardinality(Reportable(report.queued)) < MinArticles
                 \/ ~forced /\ used.form = "object" /\ used.publish = "no"
                 \/ ~must /\ ~Analyze(replies, items, report.sample, forced).ok
                 \/ report.previous # <<>> /\ Paragraphs(used.text) = report.previous
            /\ outcome.asked /\ Attempt = 2 =>
                 \/ replies[1].form \in {"nothing", "broken"}
                 \/ DOMAIN Highlights(replies[1].highlights, items) = {}
                 \/ Len(replies[1].highlights) > HighlightLimit(Cardinality(DOMAIN items))
=============================================================================

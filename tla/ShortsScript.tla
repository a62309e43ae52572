---------------------------- MODULE ShortsScript ----------------------------
(***************************************************************************)
(* What a video tells: the events worth telling, the choices of a question *)
(* that are shown, the model's script with the corrections it is given,    *)
(* and the scenes (shorts/markets.py, timely.py, highlights.py,            *)
(* scenario.py, speech.py).  Probabilities are in tenths of a percent.     *)
(***************************************************************************)
EXTENDS Integers, Sequences, FiniteSets, SequencesExt, FiniteSetsExt

CONSTANTS PerTopic, PerSector,   \* shortlisted events
          MaxShown,              \* choices on a screen
          RequiredLabels,        \* of them must be in the script
          MaxNews                \* articles offered with an issue

-----------------------------------------------------------------------------
(* The events: [id, sector, sound, days, leader, topic, score], with the   *)
(* days until its end (0 when unknown or over).                            *)

Eligible(e) == e.sector # "none" /\ e.sound /\ e.days >= 2 /\ e.leader < 980

(* Of a sector's events the best, a topic at most PerTopic times.  Sectors *)
(* are in the order of the list.                                           *)
Shortlist(events, sectors) ==
    LET Better(i, j) == events[i].score > events[j].score
                        \/ (events[i].score = events[j].score /\ events[i].id < events[j].id)
        step(kept, i) == IF \/ Len(kept) = PerSector
                            \/ Cardinality({k \in DOMAIN kept : events[kept[k]].topic = events[i].topic}) >= PerTopic
                         THEN kept ELSE Append(kept, i)
        Of(s) == FoldLeft(step, <<>>, SetToSortSeq({i \in DOMAIN events : events[i].sector = s /\ Eligible(events[i])},
                                                   Better))
    IN  FlattenSeq([s \in DOMAIN sectors |-> Of(sectors[s])])

(* Articles about an issue: [title, days, hits], where hits counts the     *)
(* issue's keywords by the place they are found in; days is -1 for what is *)
(* older than three days, in the future, or without a time.                *)
RelatedNews(pool, keywords) ==
    LET new == {i \in DOMAIN pool : pool[i].days >= 0 /\ \A j \in 1..(i - 1) : pool[j].days < 0 \/ pool[j].title # pool[i].title}
        found == IF keywords THEN {i \in new : pool[i].hits > 0} ELSE {}
        Before(i, j) == LET a == pool[i]
                            b == pool[j]
                        IN  \/ a.hits > b.hits
                            \/ a.hits = b.hits /\ (a.days < b.days \/ (a.days = b.days /\ i < j))
        order == SetToSortSeq(found, Before)
    IN  SubSeq(order, 1, Min({Len(order), MaxNews}))

-----------------------------------------------------------------------------
(* The choices of a question: [id, yes, volume, rung, other, sound]; a     *)
(* rung is [group, value] ("date", "up", "down") or group "none".          *)

(* The choices that can be shown at all, and whether the event stands.     *)
Standing(event, choices) ==
    LET sound == SelectSeq(choices, LAMBDA c : c.sound)
    IN  IF event.open /\ sound # <<>> /\ IsInjective([i \in DOMAIN sound |-> sound[i].id])
        THEN sound ELSE <<>>

ByProbability(c, d) ==
    \/ c.yes > d.yes
    \/ c.yes = d.yes /\ (c.volume > d.volume \/ (c.volume = d.volume /\ c.id < d.id))

Monotone(rows) ==
    \A g \in {c.rung.group : c \in rows} :
        LET group == {c \in rows : c.rung.group = g}
        IN  \/ \A c, d \in group : c.rung.value < d.rung.value => c.yes >= d.yes
            \/ \A c, d \in group : c.rung.value < d.rung.value => c.yes <= d.yes

(* The likeliest, the one nearest to even and the least likely rung. *)
Chosen(pool) ==
    LET ranked == SetToSortSeq(pool, ByProbability)
        Gap(c) == IF c.yes > 500 THEN c.yes - 500 ELSE 500 - c.yes
        Nearer(c, d) == \/ Gap(c) < Gap(d)
                        \/ Gap(c) = Gap(d) /\ (c.volume > d.volume \/ (c.volume = d.volume /\ c.id < d.id))
        middle == CHOOSE c \in pool : \A d \in pool \ {c} : Nearer(c, d)
    IN  IF Cardinality(pool) <= MaxShown THEN pool ELSE {ranked[1], middle, ranked[Len(ranked)]}

(* The rung fewest have traded goes until the others read in one           *)
(* direction.                                                              *)
Picked(pool) ==
    LET Thinnest(rows) == CHOOSE c \in rows : \A d \in rows \ {c} :
                              c.volume < d.volume \/ (c.volume = d.volume /\ c.id < d.id)
        step(p, k) == LET rows == Chosen(p)
                      IN  IF Cardinality(rows) <= 2 \/ Monotone(rows) THEN p ELSE p \ {Thinnest(rows)}
    IN  Chosen(FoldLeft(step, pool, [k \in 1..Cardinality(pool) |-> k]))

(* A ladder is shown in its order: early dates first, high prices first. *)
Ladder(choices) ==
    LET all == ToSet(choices)
        between == {c \in all : c.yes \in 30..970}
        likeliest == {CHOOSE c \in all : \A d \in all \ {c} : ByProbability(c, d)}
        pool == IF Cardinality(all) <= MaxShown THEN all ELSE IF between # {} THEN between ELSE likeliest
        Key(c) == IF c.rung.group = "date" THEN <<0, c.rung.value>> ELSE <<1, -c.rung.value>>
        Before(c, d) == \/ Key(c)[1] < Key(d)[1]
                        \/ Key(c)[1] = Key(d)[1] /\ (Key(c)[2] < Key(d)[2] \/ (Key(c)[2] = Key(d)[2] /\ c.id < d.id))
    IN  SetToSortSeq(Picked(pool), Before)

(* The two likeliest, and a third worth a line. *)
Likeliest(choices) ==
    LET ranked == SetToSortSeq(ToSet(choices), ByProbability)
        rest == SelectSeq(SubSeq(ranked, 3, Len(ranked)), LAMBDA c : ~c.other)
    IN  SubSeq(ranked, 1, Min({2, Len(ranked)}))
          \o (IF rest # <<>> /\ rest[1].yes >= 10 THEN <<rest[1]>> ELSE <<>>)

ShownMarkets(type, choices) ==
    IF type = "binary" THEN <<Likeliest(choices)[1]>>
    ELSE IF type = "independent" /\ \A i \in DOMAIN choices : choices[i].rung.group # "none" THEN Ladder(choices)
    ELSE Likeliest(choices)

Side(type, choice) == IF type = "binary" /\ choice.yes < 500 THEN "no" ELSE "yes"

-----------------------------------------------------------------------------
(* A label says one choice's question: [numbers, way].  A question is      *)
(* [groups, due, way]: for each number the ways it may be written, the     *)
(* month and day it names as its term, and the direction it asks about.    *)

Years == 2000..2099
Known(question) == UNION ToSet(question.groups)

(* Numbers that all of an issue's questions have. *)
Shared(questions) ==
    IF Len(questions) < 2 THEN {}
    ELSE {n \in Known(questions[1]) : \A i \in DOMAIN questions : n \in Known(questions[i])}

(* A year may be left out beside another number, and what all have. *)
Required(question, shared) ==
    LET groups == ToSet(question.groups)
    IN  {g \in groups : g \cap shared = {} /\ (Len(question.groups) > 1 => g \cap Years = {})}

Translates(label, question, shared) ==
    /\ label.numbers \subseteq Known(question)
    /\ \A g \in Required(question, shared) : g \cap label.numbers # {}
    /\ question.way # "" => label.way = question.way

(* A label that lost its term or its year gets it back. *)
Labelled(label, question, shared) ==
    LET dated == IF question.due = <<>> \/ question.due[1] \in label.numbers THEN {}
                 ELSE {[label EXCEPT !.numbers = @ \cup ToSet(question.due)]}
        years == SelectSeq(question.groups, LAMBDA g : g \cap Years # {})
        placed == IF years = <<>> \/ years[1] \subseteq label.numbers THEN {}
                  ELSE {[label EXCEPT !.numbers = @ \cup years[1]]}
        Fit(ls) == {l \in ls : Translates(l, question, shared)}
    IN  IF Fit({label}) # {} THEN {label} ELSE IF Fit(dated) # {} THEN dated ELSE Fit(placed)

-----------------------------------------------------------------------------
(* The scripts.  An issue is [id, choices] with each choice's id and its   *)
(* question; a row is [id, sound, opener, labels] with the labels' choices *)
(* ([id, text]); sound is whether its sentences are.                       *)

(* The labels of a row, the first of each choice; a required one that is   *)
(* missing or wrong makes the row wrong, another one is left out.          *)
Labels(row, issue) ==
    LET once == SelectSeq([i \in DOMAIN row.labels |-> i],
                          LAMBDA i : \A j \in 1..(i - 1) : row.labels[j].id # row.labels[i].id)
        got == [k \in DOMAIN once |-> row.labels[once[k]]]
        shared == Shared([i \in DOMAIN issue.choices |-> issue.choices[i].question])
        Text(c) == (CHOOSE k \in DOMAIN got : got[k].id = c.id)
        has == SelectSeq(issue.choices, LAMBDA c : \E k \in DOMAIN got : got[k].id = c.id)
        fits == SelectSeq(has, LAMBDA c : Labelled(got[Text(c)].text, c.question, shared) # {})
    IN  [ordered |-> [k \in DOMAIN got |-> got[k].id] = [k \in DOMAIN has |-> has[k].id],
         kept |-> [k \in DOMAIN fits |->
                     [id |-> fits[k].id,
                      text |-> CHOOSE l \in Labelled(got[Text(fits[k])].text, fits[k].question, shared) : TRUE]]]

Complete(labels, issue) ==
    \A i \in 1..Min({RequiredLabels, Len(issue.choices)}) :
        \E k \in DOMAIN labels.kept : labels.kept[k].id = issue.choices[i].id

Sound(row, issue) ==
    LET labels == Labels(row, issue)
    IN  row.sound /\ labels.ordered /\ Complete(labels, issue)

(* Rows for other issues, or in another order, are an error of their own;  *)
(* the others are told together.                                           *)
Validated(rows, issues) ==
    LET fits == Len(rows) = Len(issues) /\ \A i \in DOMAIN issues : rows[i].id = issues[i].id
        wrong == {i \in DOMAIN issues : ~Sound(rows[i], issues[i])}
        Script(row, issue) == [id |-> row.id, opener |-> row.opener, labels |-> Labels(row, issue).kept]
    IN  IF ~fits THEN [ok |-> FALSE, wrong |-> {}]
        ELSE IF wrong # {} THEN [ok |-> FALSE, wrong |-> wrong]
        ELSE [ok |-> TRUE, scripts |-> [i \in DOMAIN rows |-> Script(rows[i], issues[i])]]

(* One correction; of the second answer the issues that are wrong are left *)
(* out, unless none would be left.                                         *)
Taken(first, second, right, answers, issues) ==
    LET Of(s) == [k \in DOMAIN right |-> s[right[k]]]
    IN  IF first.ok THEN first @@ [issues |-> issues]
        ELSE IF second.ok THEN second @@ [issues |-> issues]
        ELSE IF second.wrong = {} \/ right = <<>> THEN [ok |-> FALSE]
        ELSE Validated(Of(answers[2]), Of(issues)) @@ [issues |-> Of(issues)]

Written(answers, issues) ==
    LET Right(second) == SelectSeq([i \in DOMAIN issues |-> i], LAMBDA i : i \notin second.wrong)
        With(first, second) == Taken(first, second, Right(second), answers, issues)
    IN  With(Validated(answers[1], issues), Validated(answers[2], issues))

-----------------------------------------------------------------------------
(* The scenes *)

Following == {"next", "last"}

(* An opener, a sequence of words, where its issue has come to stand. *)
Placed(opener, index, count) ==
    IF opener = <<>> THEN opener
    ELSE IF index = 1 /\ opener[1] \in Following THEN <<>>
    ELSE IF opener[1] = "last" /\ index < count THEN Tail(opener)
    ELSE opener

(* A word that opened the scene before is left out where enough is left. *)
Openers(scripts) ==
    LET step(m, s) ==
            LET placed == Placed(s.opener, Len(m.said) + 1, Len(scripts))
            IN  IF placed = <<>> THEN [m EXCEPT !.said = Append(@, <<>>)]
                ELSE [word |-> placed[1],
                      said |-> Append(m.said, IF placed[1] = m.word /\ Len(placed) > 3 THEN Tail(placed) ELSE placed)]
    IN  FoldLeft(step, [word |-> "", said |-> <<>>], scripts).said

(* What the numbers say together, for the chances the scene shows. *)
Mood(type, chances) ==
    LET sorted == SortSeq(chances, LAMBDA a, b : a > b) \o <<0>>
        top == sorted[1]
        second == sorted[2]
        least == sorted[Len(chances)]
    IN  IF type = "binary" THEN (IF top \in 351..649 THEN "even" ELSE "")
        ELSE IF type = "exclusive" THEN (IF top < 600 /\ top - second < 150 THEN "nobody leads" ELSE "")
        ELSE IF least >= 650 \/ top <= 350 THEN ""
        ELSE IF top - least < 100 THEN "the same for all" ELSE "divided"

(* Each is said once in a video. *)
Moods(moods) ==
    [i \in DOMAIN moods |-> IF \E j \in 1..(i - 1) : moods[j] = moods[i] THEN "" ELSE moods[i]]

(* The choices a scene shows: those with a label, the two likeliest where  *)
(* five issues share the list.  Fewer than two of several are an error.    *)
SceneChoices(script, issue, count) ==
    LET named == SelectSeq(issue.choices, LAMBDA c : \E k \in DOMAIN script.labels : script.labels[k].id = c.id)
    IN  IF Len(named) < Min({Len(issue.choices), 2}) THEN <<>>
        ELSE IF count < 5 THEN named
        ELSE SelectSeq(named, LAMBDA c : Cardinality({k \in DOMAIN named : named[k].yes > c.yes}) < 2)

-----------------------------------------------------------------------------
(* An event is passed over only for better ones: as many as a sector may   *)
(* have, or as many of its topic as a topic may have.  An article is left  *)
(* out only for MaxNews that say as much, and no title is offered twice.   *)
ShortlistIsFair(events, sectors) ==
    LET list == ToSet(Shortlist(events, sectors))
        Over(i, j) == events[j].sector = events[i].sector /\ events[j].score >= events[i].score
    IN  \A i \in DOMAIN events : Eligible(events[i]) /\ i \notin list =>
            \/ Cardinality({j \in list : Over(i, j)}) = PerSector
            \/ Cardinality({j \in list : Over(i, j) /\ events[j].topic = events[i].topic}) = PerTopic
NewsIsRelated(pool) ==
    LET list == RelatedNews(pool, TRUE)
    IN  /\ \A j, k \in DOMAIN list : j < k => /\ pool[list[j]].title # pool[list[k]].title
                                              /\ pool[list[j]].hits >= pool[list[k]].hits
        /\ \A i \in DOMAIN pool : pool[i].hits > 0 /\ pool[i].days >= 0 /\ i \notin ToSet(list) =>
             \/ \E j \in 1..(i - 1) : pool[j].title = pool[i].title /\ pool[j].days >= 0
             \/ Len(list) = MaxNews /\ \A k \in DOMAIN list : pool[list[k]].hits >= pool[i].hits

(* A ladder is shown as its rungs read: in one direction and in order, at  *)
(* most MaxShown of them, and nearly decided ones only where there is no   *)
(* other or no need to choose.                                             *)
LadderReads(choices) ==
    LET shown == Ladder(choices)
        Decided(c) == c.yes \notin 30..970
    IN  /\ Len(shown) \in 1..MaxShown
        /\ Monotone(ToSet(shown))
        /\ \A i, j \in DOMAIN shown : i < j /\ shown[i].rung.group = shown[j].rung.group =>
             IF shown[i].rung.group = "date" THEN shown[i].rung.value <= shown[j].rung.value
                                              ELSE shown[i].rung.value >= shown[j].rung.value
        /\ (\E i \in DOMAIN shown : Decided(shown[i])) =>
             Len(choices) <= MaxShown \/ \A i \in DOMAIN choices : Decided(choices[i])

(* A video tells every issue the model wrote of correctly, in their order, *)
(* and each scene shows what its script names: the first two choices are   *)
(* never missing, and a label says nothing its own question does not.      *)
Fitting(out, answers, issues) ==
    LET SaysOf(label, choice) == choice.id = label.id /\ label.text.numbers \subseteq Known(choice.question)
        SceneFits(script, issue) ==
            /\ SceneChoices(script, issue, Len(out.scripts)) # <<>>
            /\ \A l \in ToSet(script.labels) : \E c \in ToSet(issue.choices) : SaysOf(l, c)
    IN  out.ok =>
          /\ [k \in DOMAIN out.scripts |-> out.scripts[k].id] = [k \in DOMAIN out.issues |-> out.issues[k].id]
          /\ \A i \in DOMAIN issues :
               (\A k \in DOMAIN out.issues : out.issues[k].id # issues[i].id) => ~Sound(answers[2][i], issues[i])
          /\ \A k \in DOMAIN out.scripts : SceneFits(out.scripts[k], out.issues[k])

ScriptsFitIssues(answers, issues) == Fitting(Written(answers, issues), answers, issues)

(* Whatever issues were left out after the openers were written: the first *)
(* scene follows on nothing, and only the last is called the last.         *)
OpenersFit(scripts) ==
    LET said == Openers(scripts)
    IN  \A i \in DOMAIN said : said[i] # <<>> =>
            /\ i = 1 => said[i][1] \notin Following
            /\ i < Len(said) => said[i][1] # "last"

(* The labels of two choices that must name different numbers do not read  *)
(* the same.  A year is not among those beside another number, even where  *)
(* both questions have that other number.                                  *)
LabelsTellApart(questions, labels) ==
    LET shared == Shared(questions)
        Said(i) == UNION {l.numbers : l \in Labelled(labels[i], questions[i], shared)}
        Passes(i) == Labelled(labels[i], questions[i], shared) # {}
    IN  \A i, j \in DOMAIN questions :
            /\ Required(questions[i], shared) # Required(questions[j], shared)
            /\ Passes(i) /\ Passes(j)
            => Said(i) # Said(j)
=============================================================================

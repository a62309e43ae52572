----------------------------- MODULE Headlines -----------------------------
(***************************************************************************)
(* From a feed's entries to articles worth analysing, and from a report's  *)
(* sections to messages (news/sources.py, news/utils.py).  A title is the  *)
(* sequence of its parts (what " - " separates), for a feed appends the    *)
(* publisher's name, sometimes twice; what the patterns look for in it is  *)
(* a set of marks.  Times are hours.                                       *)
(***************************************************************************)
EXTENDS Integers, Sequences, FiniteSets, SequencesExt, FiniteSetsExt

CONSTANTS Limit,           \* articles of one source
          MaxAgeHours,     \* how old news may be
          SpamPublishers,  \* publishers of nothing else
          Indexes          \* the markets whose index a recap may name, in their order

Marks == {"flash", "quote page", "data list", "page shell", "generated", "brand", "gambling",
          "gambling term", "game guide", "promotion", "emoji", "hangul", "video", "picks",
          "off market"}

-----------------------------------------------------------------------------
(* The feeds: an entry is [id, title, content, url, source, at, zoned,     *)
(* marks]; at is Undated when it has no time that can be read.             *)

Undated == -1000

Named(entry) == IF entry.id # "" THEN <<"id", entry.id>>
                ELSE IF entry.url # "" THEN <<"url", entry.url>>
                ELSE <<"time", entry.at, entry.title>>

RssArticles(entries, most) ==
    LET Article(e) == [key |-> Named(e), title |-> e.title, url |-> e.url, at |-> e.at,
                       zoned |-> e.zoned, marks |-> e.marks, source |-> e.source, publisher |-> ""]
        worth == SelectSeq(SubSeq(entries, 1, Min({Len(entries), most})),
                           LAMBDA e : e.title # <<>> \/ e.content)
    IN  [i \in DOMAIN worth |-> Article(worth[i])]

\* defect: the publisher's name is taken off once
WithoutPublisherOnce(title, publisher) ==
    IF publisher # "" /\ Len(title) > 1 /\ title[Len(title)] = publisher
    THEN SubSeq(title, 1, Len(title) - 1) ELSE title

(* The title without the publisher's name at its end, however often.       *)
WithoutPublisher(title, publisher) ==
    LET ends == {k \in DOMAIN title : k = 1 \/ title[k] # publisher}
    IN  IF publisher = "" \/ title = <<>> THEN title ELSE SubSeq(title, 1, Max(ends))

GoogleArticle(article) ==
    [article EXCEPT !.publisher = article.source,
                    !.title = WithoutPublisher(@, article.source)]

(* How many articles of each of n queries are read. *)
Portion(n) == Max({1, (Limit + n - 1) \div n})

(* The first of each group, the second of each, and so on. *)
RowAfterRow(groups) ==
    LET highest == Max({0} \cup {Len(groups[g]) : g \in DOMAIN groups})
        Row(k) == LET able == SelectSeq([g \in DOMAIN groups |-> g], LAMBDA g : k <= Len(groups[g]))
                  IN  [j \in DOMAIN able |-> groups[able[j]][k]]
    IN  FlattenSeq([k \in 1..highest |-> Row(k)])

Identity(article) == IF article.url # "" THEN <<"url", article.url>> ELSE <<"title", article.title>>

Deduplicated(articles) ==
    LET step(kept, a) == IF Identity(a) = <<"title", <<>>>> \/ \E i \in DOMAIN kept : Identity(kept[i]) = Identity(a)
                         THEN kept ELSE Append(kept, a)
    IN  FoldLeft(step, <<>>, articles)

(* A source asks its queries at once; one that fails gives nothing.  An    *)
(* outcome is [ok, entries].                                               *)
Group(outcome, n) ==
    LET read == RssArticles(outcome.entries, Portion(n))
    IN  IF outcome.ok THEN [i \in DOMAIN read |-> GoogleArticle(read[i])] ELSE <<>>

GoogleNews(outcomes) ==
    LET groups == [q \in DOMAIN outcomes |-> Group(outcomes[q], Len(outcomes))]
        all == Deduplicated(RowAfterRow(groups))
    IN  SubSeq(all, 1, Min({Len(all), Limit}))

-----------------------------------------------------------------------------
(* What is news *)

(* Times without a zone are Chinese, an hour behind the program's. *)
PublishedAt(article) == IF article.zoned THEN article.at ELSE article.at + 1

IsRecent(article, now) ==
    /\ article.at # Undated
    /\ PublishedAt(article) \in (now - Max({1, MaxAgeHours})) .. (now + 1)

(* The recent articles, the latest first. *)
RecentArticles(articles, now) ==
    LET recent == {i \in DOMAIN articles : IsRecent(articles[i], now)}
        Later(i, j) == LET p == PublishedAt(articles[i])
                           q == PublishedAt(articles[j])
                       IN  p > q \/ (p = q /\ i < j)
        order == SetToSortSeq(recent, Later)
    IN  [k \in DOMAIN order |-> articles[order[k]]]

IsAdvertisement(article) ==
    \/ "brand" \in article.marks \/ article.publisher \in SpamPublishers
    \/ /\ "hangul" \in article.marks
       /\ \/ article.marks \cap {"gambling", "promotion", "emoji"} # {}
          \/ {"gambling term", "game guide"} \subseteq article.marks

JunkReason(article) ==
    IF article.title = <<>> THEN ""
    ELSE IF \/ article.marks \cap {"quote page", "data list", "page shell"} # {}
            \/ article.title = <<article.publisher>> THEN "list"
    ELSE IF "generated" \in article.marks THEN "generated"
    ELSE IF IsAdvertisement(article) \/ "video" \in article.marks THEN "advertisement"
    ELSE IF "picks" \in article.marks THEN "picks"
    ELSE IF "off market" \in article.marks THEN "off market"
    ELSE ""

ExclusionReason(article) ==
    IF article.title = <<>> THEN "no title"
    ELSE IF "flash" \in article.marks THEN "flash"
    ELSE JunkReason(article)

Analyzable(articles) == SelectSeq(articles, LAMBDA a : ExclusionReason(a) = "")

(* What a collection hands on of an answer. *)
Collected(articles, now) == Analyzable(RecentArticles(articles, now))

(* The index whose moves a title reports and nothing else, "" if none: the *)
(* index of the market it was collected for comes first.  The title is     *)
(* described by whether it asks or explains, whether something moves, and  *)
(* the indexes it names.                                                   *)
MarketRecapIndex(title, market) ==
    LET own == SelectSeq(Indexes, LAMBDA m : m = market)
        named == SelectSeq(own \o Indexes, LAMBDA m : m \in title.names)
    IN  IF title.explains \/ ~title.moves \/ named = <<>> THEN "" ELSE named[1]

(* The title the prefilter compares: without what follows the last dash,   *)
(* as often as it is there, when enough is left.                           *)
WithoutTail(title, Enough(_)) ==
    LET tail == title[Len(title)]
        ends == {k \in DOMAIN title : title[k] # tail}
    IN  IF Len(title) > 1 /\ ends # {} /\ Enough(SubSeq(title, 1, Max(ends)))
        THEN SubSeq(title, 1, Max(ends)) ELSE title

-----------------------------------------------------------------------------
(* Codes and messages *)

(* A stock as the model writes it is [digits, letters, first]: its digits, *)
(* whether it has anything else, and whether it begins with a letter.      *)
Padded(digits) ==
    LET width == IF Len(digits) <= 5 THEN 5 ELSE 6
    IN  [i \in 1..(width - Min({width, Len(digits)})) |-> 0] \o digits

SignalCode(raw) ==
    IF raw.digits # <<>> /\ Len(raw.digits) <= 6
    THEN {[digits |-> Padded(raw.digits), letters |-> "", first |-> FALSE]}
    ELSE IF raw.first THEN {raw} ELSE {}

SignalCodes(raws) ==
    LET step(codes, raw) == codes \o SetToSeq(SignalCode(raw) \ ToSet(codes))
    IN  FoldLeft(step, <<>>, raws)

(* Sections, given by their lengths, as messages: none is cut. *)
Messages(lengths, most, between) ==
    LET step(m, length) ==
            LET added == length + (IF m.current = <<>> THEN 0 ELSE between)
            IN  IF m.current # <<>> /\ m.length + added > most
                THEN [done |-> Append(m.done, m.current), current |-> <<length>>, length |-> length]
                ELSE [m EXCEPT !.current = Append(@, length), !.length = @ + added]
        end == FoldLeft(step, [done |-> <<>>, current |-> <<>>, length |-> 0], lengths)
    IN  IF end.current = <<>> THEN end.done ELSE Append(end.done, end.current)

-----------------------------------------------------------------------------
(* Of the articles that are handed on, each says more than its publisher's *)
(* name and does not end in it, none would be refused when it is made      *)
(* public, none comes twice, and the latest come first.                    *)
ArticlesSaySomething(outcomes, now) ==
    LET kept == Collected(GoogleNews(outcomes), now)
    IN  \A i \in DOMAIN kept :
            /\ \E k \in DOMAIN kept[i].title : kept[i].title[k] # kept[i].publisher
            /\ kept[i].publisher # "" => kept[i].title[Len(kept[i].title)] # kept[i].publisher
            /\ JunkReason(kept[i]) = ""
            /\ \A j \in DOMAIN kept : i < j => /\ Identity(kept[i]) # Identity(kept[j])
                                               /\ PublishedAt(kept[i]) >= PublishedAt(kept[j])

(* A query whose neighbours fail, repeat it or return more than their      *)
(* share loses no article but the last it may have.                        *)
EveryQueryIsHeard(outcomes) ==
    LET result == GoogleNews(outcomes)
        n == Len(outcomes)
    IN  \A q \in DOMAIN outcomes :
          \A k \in DOMAIN Group(outcomes[q], n) :
            k < Portion(n) =>
                \E i \in DOMAIN result : Identity(result[i]) = Identity(Group(outcomes[q], n)[k])

(* The messages hold the sections in their order, none is longer than it   *)
(* may be unless it is one section, and none could have taken the next.    *)
MessagesAreFull(lengths, most, between) ==
    LET messages == Messages(lengths, most, between)
        Length(m) == FoldLeft(+, 0, m) + between * (Len(m) - 1)
    IN  /\ FlattenSeq(messages) = lengths
        /\ \A i \in DOMAIN messages : Len(messages[i]) > 1 => Length(messages[i]) <= most
        /\ \A i \in DOMAIN messages : i > 1 => Length(messages[i - 1]) + between + messages[i][1] > most

(* A stock recorded with the news is the same stock when its code is read  *)
(* again, and is recorded once.                                            *)
CodesSettle(raws) ==
    LET codes == SignalCodes(raws)
    IN  SignalCodes(codes) = codes /\ IsInjective(codes)
=============================================================================

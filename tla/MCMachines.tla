----------------------------- MODULE MCMachines -----------------------------
(***************************************************************************)
(* Small instances of the machines.                                        *)
(***************************************************************************)
EXTENDS Machines, TLC

CONSTANTS t1, t2, t3, s1, s2      \* texts and sources of news

(* Two purposes ask one provider through a midnight.  A key of a source    *)
(* that the code does not know, a repetition, and a feed of its own.       *)
MCPurposes == {"report", "research"}
MCSourceKeys == <<"a", "unknown", "a">>
MCBuiltin == {"a"}
MCRssLabels == <<"r">>
MCCacheKeys == {"ranking"}
MCCallers == {1, 2, 3}

(* t1 and t2 tell the same; articles 3 and 5 are recaps of one index. *)
Article(id, text) == [id |-> id, text |-> text, recap |-> "none", published |-> 0]
Recap(id, at) == [id |-> id, text |-> t1, recap |-> "kospi", published |-> at]
MCTexts == {t1, t2, t3}
MCLikeness == [p \in MCTexts \X MCTexts |->
                 IF p[1] = p[2] THEN 9 ELSE IF t3 \in {p[1], p[2]} THEN 1 ELSE 8]
MCSources == {s1, s2}
MCFeeds ==
    (s1 :> {<<Article(1, t1), Article(2, t3), Recap(3, 0)>>}) @@
    (s2 :> {<<Article(1, t2)>>, <<Recap(5, -1), Article(1, t2), Recap(3, 1)>>})

MCIds == {"x", "y"}

(* Two boards of Korea and one of Shenzhen share a code. *)
Row(exchange, code) == [exchange |-> exchange, code |-> code]
MCListings ==
    [CN |-> {{Row("SH", "6")}, {Row("SZ", "0")}}, HK |-> {{Row("HK", "5")}},
     KR |-> {{Row("KOSPI", "6")}, {Row("KOSPI", "6"), Row("KOSDAQ", "0")},
             {Row("KOSDAQ", "6"), Row("KOSPI", "6")}},
     US |-> {{Row("NYSE", "T"), Row("NASDAQ", "T")}, {Row("NYSE", "T")}}]
MCCodes == {"6", "0", "5", "T"}

(* The store may be empty or left by a version of the older scheme. *)
OldDigest(market, day, scheme) ==
    [market |-> market, day |-> day, value |-> 0, count |-> 2, final |-> TRUE,
     scheme |-> scheme, on |-> day + 1]
OldStore == (<<"CN", 0>> :> OldDigest("CN", 0, 1)) @@ (<<"US", -1>> :> OldDigest("US", -1, 2))
MCOldFile == {<<>>, OldStore}
MCMarkets == <<"CN", "US">>
MCAlone == {"scheduled"}
MCBoth == {"scheduled", "operator"}

(* Two articles share an address, two a title. *)
MCArticles == {"a", "b", "c"}
MCUrl == [a |-> "u", b |-> "u", c |-> ""]
MCText == [a |-> "s", b |-> "t", c |-> "s"]
MCPublished == [a |-> 1, b |-> 1, c |-> 2]

(* Up to four articles, of which two may share an id; rows that are wrong  *)
(* in one place each, in either of two answers.                            *)
Story(id, title, korean, exploring) ==
    [id |-> id, title |-> title, publisher |-> "pub", korean |-> korean, exploring |-> exploring]
MCQueues ==
    {<<>>, <<Story("a", <<>>, TRUE, FALSE)>>,
     <<Story("a", <<"one", "pub">>, TRUE, TRUE), Story("b", <<"two">>, FALSE, FALSE)>>,
     <<Story("a", <<"one">>, TRUE, FALSE), Story("a", <<"two">>, TRUE, FALSE),
       Story("b", <<"two">>, FALSE, TRUE), Story("c", <<"six">>, FALSE, TRUE)>>}
MCSituations == {<<"KR", 0>>, <<"CN", 0>>, <<"CN", 12>>}
MCEarlier == {<<>>, <<<<"s">>, <<"t">>>>}
Said(id, title, said, fine, impact) == [id |-> id, title |-> title, said |-> said, fine |-> fine, impact |-> impact]
RowsSaid == {Said("a", <<"one">>, FALSE, TRUE, "high"), Said("b", <<"two", "pub">>, TRUE, TRUE, "low"),
             Said("b", <<"one">>, TRUE, TRUE, "high"), Said("b", <<"two">>, FALSE, TRUE, "low"),
             Said("c", <<"six">>, TRUE, FALSE, "low"), Said("z", <<"one">>, TRUE, TRUE, "high")}
ListsSaid == {<<>>} \cup {<<r>> : r \in RowsSaid} \cup {<<r, s>> : r, s \in RowsSaid}
Says(form, publish, text, highlights, evaluations) ==
    [form |-> form, publish |-> publish, text |-> text, highlights |-> highlights, evaluations |-> evaluations]
TextsSaid == {<<>>, <<<<"s">>, <<"s", "t">>>>}
Objects == {Says("object", p, t, h, e) : p \in {"no", "absent"}, t \in TextsSaid, h \in ListsSaid,
                                         e \in {<<>>, <<Said("b", <<"two">>, TRUE, TRUE, "high"),
                                                        Said("c", <<"six">>, TRUE, TRUE, "low")>>}}
Others == {Says("fails", "absent", <<>>, <<>>, <<>>), Says("nothing", "absent", <<>>, <<>>, <<>>)}
          \cup {Says("broken", "absent", t, <<>>, <<>>) : t \in TextsSaid}
MCAnswers == {<<x, y>> : x \in Objects, y \in Others} \cup {<<y, x>> : x \in Objects, y \in Others}
MCAlike == {<<"s", "s">>, <<"t", "t">>}

-----------------------------------------------------------------------------
(* The sentiment alone, where the operator may refresh beside the schedule. *)
OverlapSpec == (Init /\ part = "sentiment") /\ [][Next]_v

(* "같은 기간을 다시 조회해도 값이 변하지 않는다(final=True인 날은 재계산하 *)
(* 지 않는다)" (market_digest.py): a settled day keeps its value as long   *)
(* as the store keeps the day (MarketSentiment).                           *)
FinalDayKeepsItsValue == [][Sentiment!KeepingFinalDays]_v
=============================================================================

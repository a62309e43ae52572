------------------------------ MODULE Diagnosis ------------------------------
(***************************************************************************)
(* What an account's own page says of its assets: the stocks it looks for  *)
(* in the news (portfolio/watch.py) and the alarms (portfolio/             *)
(* diagnosis.py).  Functions of the assets and the watchlist.              *)
(***************************************************************************)
EXTENDS Integers, Sequences, FiniteSetsExt, SequencesExt

(* holdings: the stocks of the account first, then those of the watchlist; *)
(* a market and a name (or a code, without one) only once.                 *)
Holdings(assets, watchlist) ==
    LET rows == [i \in DOMAIN assets |-> [assets[i] EXCEPT !.held = TRUE]] \o watchlist
        Same(r, s) == r.market = s.market /\ r.name = s.name
        step(m, r) == IF r.name = "" \/ (\E i \in DOMAIN m : Same(m[i], r)) THEN m ELSE Append(m, r)
    IN  FoldLeft(step, <<>>, rows)

-----------------------------------------------------------------------------
(* diagnose: the alarms.  An asset is [id, kind, value, loan, left], with  *)
(* left the days to its maturity or NoTerm.  Shares are in tenths of a per *)
(* cent, as they are shown, limits in per cent.                            *)

NoTerm == 9999
Kinds == {"stock", "bond", "deposit", "real_estate"}

ValueOf(assets) == FoldSet(LAMBDA a, sum : sum + a.value, 0, assets)

(* round(part / whole * 100, 1) away from ties *)
Pct(part, whole) == IF whole = 0 THEN 0 ELSE (part * 2000 + whole) \div (2 * whole)

Share(assets, kind) == Pct(ValueOf({a \in assets : a.kind = kind}), ValueOf(assets))

Beyond(part, whole, limit) == Pct(part, whole) > limit * 10

ClassLimit == 60
SingleLimit == 30
LiquidLimit == 10
LoanLimit == 60
Stages == {7, 30, 90}

Stage(left) == IF left < 0 THEN -1 ELSE Min({s \in Stages : left <= s})

LoanTooLarge(a) == a.kind = "real_estate" /\ a.value > 0 /\ a.loan * 100 > LoanLimit * a.value

(* The keys of the alarms; the key of a maturity changes with its stage. *)
Alarms(assets) ==
    LET total == ValueOf(assets)
        In(kind) == ValueOf({a \in assets : a.kind = kind})
    IN  IF total = 0 THEN {}
        ELSE {<<"class", k>> : k \in {k \in Kinds : Beyond(In(k), total, ClassLimit)}}
          \cup {<<"single", a.id>> : a \in {a \in assets : Beyond(a.value, total, SingleLimit)}}
          \cup (IF Share(assets, "deposit") < LiquidLimit * 10 THEN {<<"liquidity">>} ELSE {})
          \cup {<<"maturity", a.id, Stage(a.left)>> :
                  a \in {a \in assets : a.kind \in {"deposit", "bond"} /\ a.left <= 90}}
          \cup {<<"ltv", a.id>> : a \in {a \in assets : LoanTooLarge(a)}}

-----------------------------------------------------------------------------
(* What a letter says agrees with why it says it: an alarm about a share   *)
(* is there exactly when the share it shows is above the limit it shows;   *)
(* a class too large leaves no second one; and while only days pass, the   *)
(* alarms change by maturities that reach their next stage, never back.    *)
AlarmSaysWhatItShows(assets) ==
    LET total == ValueOf(assets)
        tomorrow == {[a EXCEPT !.left = @ - 1] : a \in assets}
    IN  total > 0 =>
          /\ \A a \in assets : (<<"single", a.id>> \in Alarms(assets)) <=> Pct(a.value, total) > SingleLimit * 10
          /\ \A k, l \in Kinds : {<<"class", k>>, <<"class", l>>} \subseteq Alarms(assets) => k = l
          /\ \A alarm \in Alarms(tomorrow) \ Alarms(assets) :
                alarm[1] = "maturity" /\ \A old \in Alarms(assets) : old[1] = "maturity" /\ old[2] = alarm[2] => old[3] > alarm[3]
=============================================================================

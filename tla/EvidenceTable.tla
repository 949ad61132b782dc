---------------------------- MODULE EvidenceTable ----------------------------
(***************************************************************************)
(* The classifiers over the evidence at their boundaries.  The walk starts *)
(* from spotless evidence and changes one field at a time, at most         *)
(* MaxDefects of them; Downhill lists the values of a field from the best  *)
(* to the worst, Sideways those that are neither better nor worse.         *)
(***************************************************************************)
EXTENDS TokenEvidence, DecisionTable, Sequences, TLC

CONSTANT MaxDefects     \* bound on the fields that are off at a time

ASSUME MaxDefectsAssumption == MaxDefects \in Nat

VARIABLES
    evidence,   \* what is known of a token
    verdicts    \* the verdicts the stages write, as the decision reads them

Totals(supply, cap, holders) ==
    [supply |-> supply, cap |-> cap, holders |-> holders]
Total(first, last) == [first |-> first, last |-> last]

Concentration(top, ten, twenty, held) ==
    {[top |-> top, ten |-> ten, twenty |-> twenty, held |-> held]}

LpLock(pct, burned) == {[pct |-> pct, burned |-> burned]}

-----------------------------------------------------------------------------
(***************************************************************************)
(* Holders' wallets: a calm one, and one for each label.                   *)
(***************************************************************************)
Calm == [percent |-> 10, rank |-> 9, shared |-> 0, entry |-> {900},
         age |-> {900000}, span |-> {500000}, txs |-> 40, dex |-> 5,
         bought |-> 100, sold |-> 0]
Silent == [Calm EXCEPT !.entry = {}, !.age = {}, !.span = {}, !.txs = 0,
                       !.dex = 0, !.bought = 0]
Sniping == [Calm EXCEPT !.entry = {60}]
Fresh == [Calm EXCEPT !.age = {86400}, !.span = {80000}]
Dumping == [Calm EXCEPT !.sold = 65]
Automated == [Calm EXCEPT !.dex = 12, !.txs = 15, !.span = {600}]
Related == [Calm EXCEPT !.percent = 15, !.rank = 3, !.shared = 2]

\* A few of a kind after many snipers.
Wallets(few, kind, many) == [h \in 1..6 |->
    IF h =< many THEN Sniping ELSE IF h =< many + few THEN kind ELSE Calm]

-----------------------------------------------------------------------------
Downhill == [
    m5 |-> << {3}, {-10}, {-15}, {-20} >>,
    h1 |-> << {20}, {-20}, {-40} >>,
    liquidity |-> << {30000}, {9999}, {4999}, {2999}, {0}, {} >>,
    answered |-> << TRUE, FALSE >>,
    totals |-> << Totals(Total({}, {1}), Total({}, {1}), Total({}, {1})),
                  Totals(Total({}, {0}), Total({}, {0}), Total({}, {0})) >>,
    mint |-> << FALSE, TRUE >>,
    freeze |-> << FALSE, TRUE >>,
    risks |-> << {}, {"notice"}, {"notice", "critical"} >>,
    owners |-> << 20, 0 >>,
    shares |-> << Concentration(5, 20, 25, 20), Concentration(19, 29, 40, 29),
                  Concentration(19, 49, 69, 49), Concentration(19, 50, 69, 50) >>,
    lp |-> << LpLock({95}, FALSE), LpLock({70}, FALSE), LpLock({50}, FALSE),
              LpLock({49}, FALSE) >>,
    dev |-> << TRUE, FALSE >>,
    balance |-> << 80, 0 >>,
    configured |-> << TRUE, FALSE >>,
    funded |-> << 10, 3, 1 >>,
    largest |-> << 1, 2, 3, 5 >>,
    sponsored |-> << 1, 2, 3 >>,
    distributed |-> << 0, 2, 3 >>,
    linked |-> << 0, 2, 3 >>,
    dumped |-> << 0, 2, 3 >>,
    sold |-> << 0, 79, 100 >>,
    direct |-> << 0, 5, 20 >>,
    splitters |-> << 0, 1 >>,
    proxies |-> << 0, 1, 2 >>,
    wallets |-> << Wallets(0, Calm, 0), Wallets(0, Calm, 1),
                   Wallets(0, Calm, 2), Wallets(1, Fresh, 2) >> ]

Trades(buys, sells) == [buys |-> buys, sells |-> sells]

Sideways == [
    age |-> { {}, {-1}, {4}, {5}, {29}, {30}, {1439}, {1440} },
    m5 |-> { {} },
    h1 |-> { {}, {100} },
    trades5 |-> { Trades(0, 0), Trades(7, 8), Trades(3, 7), Trades(3, 6) },
    trades1 |-> { Trades(45, 55), Trades(19, 31), Trades(20, 29), Trades(0, 0) },
    volume5 |-> { {}, {999}, {1000} },
    volume1 |-> { {}, {9999}, {10000}, {600001} },
    mcap |-> { {}, {4999}, {300001}, {600001} },
    totals |-> { Totals(Total({0}, {}), Total({0}, {}), Total({0}, {})),
                 Totals(Total({}, {}), Total({}, {}), Total({}, {})) },
    shares |-> { {}, Concentration(20, 20, 25, 20), Concentration(5, 49, 70, 49),
                 Concentration(5, 49, 54, 50) },
    lp |-> { {}, LpLock({}, TRUE) },
    bought |-> { 0 },
    moved |-> { 50 },
    auditAnswered |-> { FALSE },
    flowAnswered |-> { FALSE },
    wallets |-> { Wallets(6, Silent, 0), Wallets(1, Fresh, 0),
                  Wallets(2, Fresh, 0), Wallets(1, Dumping, 0),
                  Wallets(4, Dumping, 2), Wallets(6, Dumping, 0),
                  Wallets(1, Automated, 0), Wallets(3, Automated, 0),
                  Wallets(1, Related, 0), Wallets(1, Related, 1) } ]

\* The first value of a field that has no better and worse.
Middling == [
    age |-> {60}, trades5 |-> Trades(20, 10), trades1 |-> Trades(60, 40),
    volume5 |-> {2000}, volume1 |-> {20000}, mcap |-> {100000},
    bought |-> 100, moved |-> 0, auditAnswered |-> TRUE, flowAnswered |-> TRUE ]

Fields == DOMAIN Downhill \union DOMAIN Middling

\* A token that nothing is held against.
Spotless ==
    [f \in Fields |-> IF f \in DOMAIN Downhill THEN Downhill[f][1] ELSE Middling[f]]

Ranked(f) == IF f \in DOMAIN Downhill THEN Downhill[f] ELSE << >>
Unranked(f) == IF f \in DOMAIN Sideways THEN Sideways[f] ELSE {}

Worse(f, v, w) ==
    \E i, j \in DOMAIN Ranked(f) : i < j /\ Ranked(f)[i] = v /\ Ranked(f)[j] = w

Off == {f \in Fields : evidence[f] # Spotless[f]}

TableInit == evidence = Spotless /\ IsEvidence(evidence) /\ verdicts = Row(evidence)

Becomes(f, w) ==
    /\ evidence' = [evidence EXCEPT ![f] = w]
    /\ IsEvidence(evidence')
    /\ verdicts' = Row(evidence')

\* A field leaves its spotless value.
LeavesSpotless(f) ==
    /\ evidence[f] = Spotless[f]
    /\ Cardinality(Off) < MaxDefects
    /\ \E w \in (Range(Ranked(f)) \cup Unranked(f)) \ {Spotless[f]} : Becomes(f, w)

\* A field that has left it gets worse.
GetsWorse(f) ==
    /\ evidence[f] # Spotless[f]
    /\ \E w \in Range(Ranked(f)) : Worse(f, evidence[f], w) /\ Becomes(f, w)

TableNext == \E f \in Fields : LeavesSpotless(f) \/ GetsWorse(f)

tableVars == <<evidence, verdicts>>

TableSpec == TableInit /\ [][TableNext]_tableVars

-----------------------------------------------------------------------------
(***************************************************************************)
(* Properties                                                              *)
(***************************************************************************)
\* Each stage answers with a verdict that Findings lists for its layer, the
\* verdicts on which the decision table and the pipeline are built.
VerdictsAreFindings ==
    \A l \in Layers : verdicts[l] \in Findings(l)

\* Missing data is never a pass: a token whose age, market value, volume or
\* liquidity is not known, whose holders RugCheck does not list or whose
\* funders Helius does not tell, waits or is rejected, whatever else is known.
SilenceNeverPasses == IsSilent(evidence) => ~Passes(classify_watchlist_decision(verdicts))

\* The two judgements that are shown together agree: a token that passes
\* without any warning has a low insider probability, although the decision
\* and the probability weigh their evidence with different rules.
CleanPassIsLow ==
    classify_watchlist_decision(verdicts) = "WATCHLIST_PASS" => LevelIsLow(evidence)

\* A token passes only when every layer that must answer has answered, and
\* none of the nine found danger: missing data never reads as a pass
\* (classify_watchlist_decision).
FailsClosed == PassIsAnswered(verdicts)

\* The decision names the first layer that objects, in the order of
\* PROJECT_OVERVIEW.md:172-177, and a token without objections passes: nothing
\* is left for review (classify_watchlist_decision).
FirstObjectionDecides == FirstObjectionNamed(verdicts)

\* Sales count against a developer in the audit alone; to the flow stage they
\* say that he had more at first.  They are told where the audit has an answer.
Told(f) == f = "sold" => evidence.auditAnswered

\* A fact that gets worse never makes the decision less cautious, although
\* several classifiers read one fact and a worse fact may hide another.
WorseEvidenceNeverHelps ==
    [][ (\E f \in Fields : Told(f) /\ Worse(f, evidence[f], evidence'[f])) =>
            Caution(classify_watchlist_decision(verdicts)) =<
                Caution(classify_watchlist_decision(verdicts')) ]_tableVars
=============================================================================

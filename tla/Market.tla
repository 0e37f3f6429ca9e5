-------------------------------- MODULE Market --------------------------------
(***************************************************************************)
(* What is computed beside the metrics: the counts of competitor signals   *)
(* (CompetitiveService), the benchmarks of an industry                     *)
(* (BenchmarkAggregationService, BenchmarkingService), the scenarios of    *)
(* ForecastingService and the graph of GrowthIntelligenceService.          *)
(*                                                                         *)
(* Time is in days.  Scores and percentages are in hundredths.  How two    *)
(* overlapping requests create one signal twice is in Competitive.         *)
(*                                                                         *)
(* The operators named Bug... are faulty variants of definitions after     *)
(* them; no specification uses them.                                       *)
(***************************************************************************)
EXTENDS Integers, FiniteSets, FiniteSetsExt, Sequences, Aggregates

CONSTANTS
    Competitors, SignalNotes,
    Observed,           \* the signals that may be recorded, without their scores
    SignalWindows,      \* the windows asked for, in days
    LastMarketDay,      \* bound: the last day
    IndustryOf,         \* the industry of each organization
    OrgFigures,         \* what a daily row may say
    MaxOrgRows,         \* bound: daily rows
    BenchmarkWindows,   \* the windows that are aggregated and asked for
    Levers,             \* the deltas that scenarios are asked for
    GraphTake,          \* how many rows of each kind the graph reads
    GraphRows           \* bound: rows of each kind

SignalType == {"TRAFFIC", "HIRING", "AD_SPEND", "PRODUCT_LAUNCH", "OTHER"}

ASSUME MarketAssumption ==
    /\ SignalWindows \subseteq Nat /\ LastMarketDay \in Nat /\ MaxOrgRows \in Nat
    /\ IsFiniteSet(Competitors) /\ IsFiniteSet(DOMAIN IndustryOf) /\ OrgFigures \subseteq Int
    /\ BenchmarkWindows \subseteq Nat \X Nat
    /\ \A s \in Observed : /\ s.competitor \in Competitors /\ s.type \in SignalType
                           /\ s.notes \in SignalNotes /\ s.written \subseteq Int
    /\ \A l \in Levers :
           {l.marketing, l.pricing, l.churn, l.conversion, l.orderValue} \subseteq Int

VARIABLES
    marketDay,
    marketSignals,  \* competitor_signals
    orgRows,        \* daily_metrics of all organizations: a figure for each one and day
    benchmarks,     \* industry_benchmarks, by industry and window
    aggregated,     \* a ghost: the windows aggregated since the last row was written
    graphRows       \* how many rows of each kind the organization has

marketVars == <<marketDay, marketSignals, orgRows, benchmarks, aggregated, graphRows>>

Industries == {IndustryOf[o] : o \in DOMAIN IndustryOf}
GraphKind == {"metric", "recommendation", "experiment", "signal"}

MarketTypeOK ==
    /\ marketDay \in 0..LastMarketDay
    /\ \A s \in marketSignals : s.competitor \in Competitors /\ s.type \in SignalType
    /\ \A k \in DOMAIN orgRows : k \in (DOMAIN IndustryOf) \X (0..LastMarketDay)
    /\ DOMAIN benchmarks \subseteq Industries \X BenchmarkWindows
    /\ graphRows \in [GraphKind -> Nat]

MarketInit ==
    /\ marketDay = 0 /\ marketSignals = {}
    /\ orgRows = <<>> /\ benchmarks = <<>> /\ aggregated = {}
    /\ graphRows = [k \in GraphKind |-> 0]

NextMarketDay ==
    /\ marketDay < LastMarketDay
    /\ marketDay' = marketDay + 1
    /\ UNCHANGED <<marketSignals, orgRows, benchmarks, aggregated, graphRows>>

-----------------------------------------------------------------------------
(* Signals.  The notes are what the user wrote, "verified" where they say  *)
(* so.  attachSignalMeta adds a marker with the score of the day, unless   *)
(* the user wrote one into the notes (written, of at most one score).      *)

BaseWeight ==
    [t \in SignalType |-> CASE t = "TRAFFIC" -> 80 [] t = "HIRING" -> 68 [] t = "AD_SPEND" -> 86
                            [] t = "PRODUCT_LAUNCH" -> 92 [] t = "OTHER" -> 55]

BugBoostForAnyNotes(type, source, notes) ==
    Min({100, BaseWeight[type] + (IF source THEN 5 ELSE 0) + (IF notes # "" THEN 8 ELSE 0)})

SignalRelevance(type, source, notes) ==
    Min({100, BaseWeight[type] + (IF source THEN 5 ELSE 0) + (IF notes = "verified" THEN 8 ELSE 0)})

(* What the notes read as once they are stored: never empty.               *)
Noted(notes) == IF notes = "" THEN "marker" ELSE notes
Marker(written, score) == IF written = {} THEN score ELSE Min(written)

SameSignal(s, on) ==
    \E t \in marketSignals : /\ t.competitor = s.competitor /\ t.type = s.type
                             /\ t.source = s.source /\ t.on = on
RecordSignal ==
    /\ \E s \in Observed, on \in 0..LastMarketDay :
           marketSignals' = IF SameSignal(s, on) THEN marketSignals
                            ELSE marketSignals \cup
                         {[competitor |-> s.competitor, type |-> s.type, source |-> s.source,
                           notes |-> Noted(s.notes), on |-> on, written |-> s.written,
                           marker |-> Marker(s.written, SignalRelevance(s.type, s.source, s.notes))]}
    /\ UNCHANGED <<marketDay, orgRows, benchmarks, aggregated, graphRows>>

Since(days) == {s \in marketSignals : s.on >= marketDay - days}
Matching(days, competitors, types) ==
    {s \in Since(days) : s.competitor \in competitors /\ s.type \in types}

(* getSignalTrend, getCompetitorComparison, evaluateAlerts and the count of*)
(* generateWeeklyBrief.                                                    *)
SignalTrend(days, competitors, types) ==
    LET rows == Matching(days, competitors, types)
    IN  [day \in {s.on : s \in rows} |->
            LET bucket == {s \in rows : s.on = day}
            IN  [total |-> Cardinality(bucket),
                 byType |-> [t \in {s.type : s \in bucket} |->
                                Cardinality({s \in bucket : s.type = t})]]]
CompetitorComparison(days) ==
    [c \in Competitors |->
        LET rows == {s \in Since(days) : s.competitor = c}
            counts == [t \in {s.type : s \in rows} |-> Cardinality({s \in rows : s.type = t})]
        IN  [counts |-> counts, total |-> SumOver(counts)]]

BugAlertForAnyCompetitor(type, days, competitors) ==
    Cardinality(Matching(days, Competitors, {type}))

AlertCount(type, days, competitors) == Cardinality(Matching(days, competitors, {type}))
BriefCount == Cardinality(Since(7))

(* getActionableDeltas, before it is cut to the most relevant 20.          *)
Delta(s) ==
    LET relevance == SignalRelevance(s.type, s.source, s.notes)
    IN  [relevance |-> relevance,
         urgency |-> IF relevance >= 85 THEN "high" ELSE IF relevance >= 70 THEN "medium" ELSE "low"]

-----------------------------------------------------------------------------
(* Benchmarks *)

WriteOrgRow ==
    /\ \E o \in DOMAIN IndustryOf, figure \in OrgFigures :
           /\ <<o, marketDay>> \in DOMAIN orgRows \/ Cardinality(DOMAIN orgRows) < MaxOrgRows
           /\ orgRows' = [k \in DOMAIN orgRows \cup {<<o, marketDay>>} |->
                             IF k = <<o, marketDay>> THEN figure ELSE orgRows[k]]
    /\ aggregated' = {}
    /\ UNCHANGED <<marketDay, marketSignals, benchmarks, graphRows>>

BugPositionUnscaled(sorted, p) ==
    LET base == ((100 - p) * (Len(sorted) - 1)) \div 100
    IN  100 * sorted[base + 1]

(* Hundredths of the percentile of a sorted sequence, interpolated.        *)
Percentile(sorted, p) ==
    LET position == p * (Len(sorted) - 1)
        base == position \div 100
        next == Min({base + 2, Len(sorted)})
    IN  100 * sorted[base + 1] + (position % 100) * (sorted[next] - sorted[base + 1])
RowsIn(window, industry) ==
    {k \in DOMAIN orgRows : /\ IndustryOf[k[1]] = industry
                            /\ window[1] <= k[2] /\ k[2] <= window[2]}
FiguresOf(keys) == Ascending([k \in keys |-> orgRows[k]])
BenchmarkRow(window, industry) ==
    LET figures == FiguresOf(RowsIn(window, industry))
    IN  [p25 |-> Percentile(figures, 25), median |-> Percentile(figures, 50),
         p75 |-> Percentile(figures, 75), sampleCount |-> Len(figures)]
Aggregate(window) ==
    LET with == {i \in Industries : RowsIn(window, i) # {}}
        rows == [k \in with \X {window} |-> BenchmarkRow(window, k[1])]
    IN  /\ benchmarks' = [k \in DOMAIN benchmarks \cup DOMAIN rows |->
                             IF k \in DOMAIN rows THEN rows[k] ELSE benchmarks[k]]
        /\ aggregated' = aggregated \cup {window}
        /\ UNCHANGED <<marketDay, marketSignals, orgRows, graphRows>>

BugWithinTheWindow(industry, window) ==
    {k \in DOMAIN benchmarks : /\ k[1] = industry
                               /\ k[2][1] >= window[1] /\ k[2][2] <= window[2]}

(* The benchmarks whose period contains the window, the latest to end.     *)
Covering(industry, window) ==
    {k \in DOMAIN benchmarks : /\ k[1] = industry
                               /\ k[2][1] <= window[1] /\ k[2][2] >= window[2]}
BenchmarkShown(industry, window) ==
    {benchmarks[k] : k \in {c \in Covering(industry, window) :
                               \A d \in Covering(industry, window) : d[2][2] <= c[2][2]}}

-----------------------------------------------------------------------------
(* Scenarios: the product of the levers and that of the other two factors  *)

Multiplier(marketing, pricing, churn) ==
    Max({0, (100 + marketing) * (100 + pricing) * (100 - churn)})
Factors(l) == [levers |-> Multiplier(l.marketing, l.pricing, l.churn),
               others |-> (100 + l.conversion) * (100 + l.orderValue)]

BugChurnFallsWhenConservative(l) ==
    [conservative |->
        Factors([marketing |-> l.marketing - 5, pricing |-> l.pricing - 2, churn |-> l.churn - 9,
                 conversion |-> l.conversion - 3, orderValue |-> l.orderValue - 2]),
     base |-> Factors(l),
     aggressive |->
        Factors([marketing |-> l.marketing + 8, pricing |-> l.pricing + 3,
                 churn |-> Max({l.churn - 4, -20}),
                 conversion |-> l.conversion + 5, orderValue |-> l.orderValue + 4])]

Scenarios(l) ==
    [conservative |->
        Factors([marketing |-> l.marketing - 5, pricing |-> l.pricing - 2, churn |-> l.churn + 2,
                 conversion |-> l.conversion - 3, orderValue |-> l.orderValue - 2]),
     base |-> Factors(l),
     aggressive |->
        Factors([marketing |-> l.marketing + 8, pricing |-> l.pricing + 3,
                 churn |-> Max({l.churn - 4, -20}),
                 conversion |-> l.conversion + 5, orderValue |-> l.orderValue + 4])]
ScenarioConfidence(deltaPct) ==
    IF deltaPct <= 10 THEN "high" ELSE IF deltaPct <= 25 THEN "medium" ELSE "low"

-----------------------------------------------------------------------------
(* The graph.  A node is a kind and the age of its row, the newest first.  *)

AddGraphRow ==
    /\ \E k \in GraphKind :
           /\ graphRows[k] < GraphRows[k]
           /\ graphRows' = [graphRows EXCEPT ![k] = @ + 1]
    /\ UNCHANGED <<marketDay, marketSignals, orgRows, benchmarks, aggregated>>

Org == <<"org", 1>>
Newest(k, n) == {<<k, i>> : i \in 1..Min({n, graphRows[k]})}
Nodes == {Org} \cup UNION {Newest(k, GraphTake[k]) : k \in GraphKind}

BugLinksWhatIsThere ==
    (UNION {{Org} \X Newest(k, GraphTake[k]) : k \in GraphKind})
    \cup (Newest("experiment", GraphTake["experiment"])
             \X {<<"recommendation", i>> : i \in 1..graphRows["recommendation"]})
    \cup (Newest("signal", GraphTake["signal"]) \X Newest("recommendation", 2))

Edges ==
    LET read == Newest("recommendation", GraphTake["recommendation"])
        First(n) == {r \in read : r[2] <= n}
    IN  (UNION {{Org} \X Newest(k, GraphTake[k]) : k \in GraphKind})
        \cup (Newest("experiment", GraphTake["experiment"]) \X First(3))
        \cup (Newest("signal", GraphTake["signal"]) \X First(2))

MarketStep(what) ==
    \/ what = "day" /\ NextMarketDay
    \/ what = "signals" /\ RecordSignal
    \/ what = "rows" /\ WriteOrgRow
    \/ what = "benchmarks" /\ \E window \in BenchmarkWindows : Aggregate(window)
    \/ what = "growth" /\ AddGraphRow

-----------------------------------------------------------------------------
(* Properties *)

(* The trend, the comparison, the alert rules and the brief count the same *)
(* signals of a window, filtered or not, and a signal is as relevant as    *)
(* its marker says, unless the user wrote the marker                       *)
(* (competitive.service.ts:195-480).                                       *)
TrendTotal(trend) == SumOver([d \in DOMAIN trend |-> trend[d].total])
SignalCountsAgree ==
    /\ \A days \in SignalWindows :
           LET comparison == CompetitorComparison(days) IN
           /\ TrendTotal(SignalTrend(days, Competitors, SignalType)) =
                  SumOver([c \in Competitors |-> comparison[c].total])
           /\ \A c \in Competitors : \A t \in DOMAIN comparison[c].counts :
                  /\ AlertCount(t, days, {c}) = comparison[c].counts[t]
                  /\ TrendTotal(SignalTrend(days, {c}, {t})) = comparison[c].counts[t]
    /\ BriefCount = TrendTotal(SignalTrend(7, Competitors, SignalType))
    /\ \A s \in marketSignals : s.written = {} => Delta(s).relevance = s.marker

(* A benchmark's quartiles are in order and split the figures as they say, *)
(* and who asks for a window that lies in one aggregated since the last row*)
(* finds a benchmark whenever the industry has figures there               *)
(* (benchmark-aggregation.service.ts:14-115, benchmarking.service.ts:14-83)*)
Share(figures, Holds(_)) == Cardinality({i \in DOMAIN figures : Holds(100 * figures[i])})
BenchmarksAreFound ==
    \A window \in aggregated, industry \in Industries :
        LET figures == FiguresOf(RowsIn(window, industry))
            row == benchmarks[<<industry, window>>]
        IN  figures # <<>> =>
                /\ row.p25 <= row.median /\ row.median <= row.p75
                /\ 4 * Share(figures, LAMBDA x : x <= row.p25) >= Len(figures)
                /\ 4 * Share(figures, LAMBDA x : x >= row.p75) >= Len(figures)
                /\ 2 * Share(figures, LAMBDA x : x <= row.median) >= Len(figures)
                /\ 2 * Share(figures, LAMBDA x : x >= row.median) >= Len(figures)
                /\ \A asked \in BenchmarkWindows :
                       window[1] <= asked[1] /\ asked[2] <= window[2] =>
                           BenchmarkShown(industry, asked) # {}

(* A conservative scenario promises no more than the base one, and an      *)
(* aggressive one no less, where the churn that is asked for falls by no   *)
(* more than 20 % and no lever by so much that what is taken off it for the*)
(* conservative scenario makes its factor negative: two negative factors   *)
(* would make a gain, and no lever is bounded by simulate.dto.ts           *)
(* (forecasting.service.ts:55-143, 165-172).                               *)
NoFactorIsNegative(l) ==
    l.marketing >= -95 /\ l.pricing >= -98 /\ l.conversion >= -97 /\ l.orderValue >= -98
ScenariosAreInOrder ==
    marketDay = 0 => \A l \in Levers :
        LET scenarios == Scenarios(l)
            AtMost(x, y) == x.levers <= y.levers /\ x.others <= y.others
        IN  l.churn >= -20 /\ NoFactorIsNegative(l) =>
                /\ AtMost(scenarios.conservative, scenarios.base)
                /\ AtMost(scenarios.base, scenarios.aggressive)

(* The graph has both ends of each of its edges, whatever was read, and    *)
(* all of it hangs on the organization                                     *)
(* (growth-intelligence.service.ts:33-182).                                *)
GraphIsWhole ==
    /\ \A e \in Edges : e[1] \in Nodes /\ e[2] \in Nodes
    /\ \A n \in Nodes \ {Org} : <<Org, n>> \in Edges

MarketIsCounted ==
    SignalCountsAgree /\ BenchmarksAreFound /\ ScenariosAreInOrder /\ GraphIsWhole
===============================================================================

------------------------------- MODULE Insights -------------------------------
(***************************************************************************)
(* The scan of DataQualityService for anomalies, the score of              *)
(* ConfidenceScoringService and the executive summary that recommends, or  *)
(* suppresses its recommendation by the guardrails of                      *)
(* RecommendationsService.                                                 *)
(*                                                                         *)
(* Time is in hours.  Factors, rates and the score are in thousandths; the *)
(* deviation of the revenue is rounded to hundredths.                      *)
(*                                                                         *)
(* The operators named Bug... are faulty variants of definitions after     *)
(* them; no specification uses them.                                       *)
(***************************************************************************)
EXTENDS Integers, FiniteSets, FiniteSetsExt

CONSTANTS
    DailyHistories,     \* the daily rows there are at first, by day
    DailyRows,          \* what a row may say: a figure for each metric
    DailyMetricKeys,
    Sources,            \* the integrations
    Scans,              \* requests and summaries that scan for anomalies
    Lookbacks,          \* how many days they ask for
    Briefs,             \* what the snapshots of a summary may say
    BriefMetrics,       \* the metrics without which a summary is incomplete
    MaxHours,           \* bound: the last hour
    MaxRejections,      \* bound: syncs that reject records
    NoSync

(* A row says an integral figure of each metric, a brief one of each.      *)
IsDailyRow(row) == DOMAIN row = DailyMetricKeys /\ \A m \in DailyMetricKeys : row[m] \in Int

ASSUME InsightsAssumption ==
    /\ Lookbacks \subseteq 7..120
    /\ IsFiniteSet(Sources) /\ MaxHours \in Nat /\ MaxRejections \in Nat
    /\ "revenue" \in DailyMetricKeys /\ IsFiniteSet(DailyMetricKeys)
    /\ \A history \in DailyHistories : \A d \in DOMAIN history :
           d \in Nat /\ 24 * d <= MaxHours /\ IsDailyRow(history[d])
    /\ \A row \in DailyRows : IsDailyRow(row)
    /\ \A b \in Briefs :
           /\ DOMAIN b = {"metrics", "dataPoints", "growth", "churn", "ratio", "cac", "leadRate"}
           /\ {b.dataPoints, b.growth, b.churn, b.ratio, b.cac, b.leadRate} \subseteq Int

VARIABLES
    hour,
    daily,      \* daily_metrics, by day
    quality,    \* data_quality_events
    lastSync,   \* the last sync log of each integration
    scanning    \* the anomalies that a scan has found and not stored yet

insightVars == <<hour, daily, quality, lastSync, scanning>>

ThisDay == hour \div 24
SyncOutcome == {"SUCCESS", "PARTIAL", "FAILED"}
Severity == {"HIGH", "MEDIUM"}
Anomaly == [code : DailyMetricKeys, key : Nat, lookback : Lookbacks, severity : Severity]

InsightsTypeOK ==
    /\ hour \in 0..MaxHours
    /\ \A d \in DOMAIN daily : d <= ThisDay /\ DOMAIN daily[d] = DailyMetricKeys
    /\ \A e \in quality : e.severity \in Severity /\ e.at <= hour
    /\ scanning \in [Scans -> SUBSET Anomaly]
    /\ lastSync \in [Sources -> {NoSync} \cup [status : SyncOutcome, at : 0..MaxHours]]

InsightsInit ==
    /\ daily \in DailyHistories
    /\ hour = 24 * (Max(DOMAIN daily \cup {0}))
    /\ quality = {}
    /\ lastSync = [s \in Sources |-> NoSync]
    /\ scanning = [r \in Scans |-> {}]

-----------------------------------------------------------------------------
(* What the scan, the score and the summary read *)

Pass(hours) ==
    /\ hour + hours <= MaxHours
    /\ hour' = hour + hours
    /\ UNCHANGED <<daily, quality, lastSync, scanning>>
WriteDaily ==
    /\ \E row \in DailyRows :
           daily' = [d \in DOMAIN daily \cup {ThisDay} |-> IF d = ThisDay THEN row ELSE daily[d]]
    /\ UNCHANGED <<hour, quality, lastSync, scanning>>
EndSync(s) ==
    /\ \E outcome \in SyncOutcome : lastSync' = [lastSync EXCEPT ![s] = [status |-> outcome, at |-> hour]]
    /\ UNCHANGED <<hour, daily, quality, scanning>>

(* logValidationIssue: an event of its own for each sync that rejects.     *)
Rejections == {e \in quality : e.code = "REJECTED"}
LogValidationIssue ==
    /\ Cardinality(Rejections) < MaxRejections
    /\ \E severity \in Severity :
           quality' = quality \cup {[code |-> "REJECTED", key |-> Cardinality(Rejections),
                                     lookback |-> 0, severity |-> severity, at |-> hour]}
    /\ UNCHANGED <<hour, daily, lastSync, scanning>>

-----------------------------------------------------------------------------
(* scanAndStoreAnomalies: a read of the rows, then an upsert of each event. *)

Points(days) == {d \in DOMAIN daily : 24 * d >= hour - 24 * days}
Magnitude(x) == IF x < 0 THEN -x ELSE x
SumOf(days, Value(_)) ==
    LET value == [d \in days |-> Value(d)] IN MapThenSumSet(LAMBDA d : value[d], days)
(* The variance, the mean and the distance to it, times as many powers of  *)
(* the number of days as make them whole.                                  *)
Spread(days, metric) ==
    LET sum == SumOf(days, LAMBDA d : daily[d][metric])
    IN  [sum |-> sum,
         variance |-> Cardinality(days) * SumOf(days, LAMBDA d : daily[d][metric] * daily[d][metric])
                      - sum * sum]
Anomalies(days, lookback) ==
    LET latest == Max(days)
        historical == days \ {latest}
        About(m) == Spread(historical, m)
        Distance(m) == Cardinality(historical) * daily[latest][m] - About(m).sum
        Deviates(m, z2, times) == /\ About(m).variance # 0
                                  /\ times * Distance(m) * Distance(m) >= z2 * About(m).variance
    IN  IF Cardinality(historical) < 7 THEN {}
        ELSE {[code |-> m, key |-> latest, lookback |-> lookback,
               severity |-> IF Deviates(m, 9, 1) THEN "HIGH" ELSE "MEDIUM"] :
              m \in {k \in DailyMetricKeys :
                        /\ About(k).sum # 0
                        /\ \/ Deviates(k, 25, 4)
                           \/ 100 * Magnitude(Distance(k)) >= 45 * Magnitude(About(k).sum)}}

BugEventOfToday(r) ==
    /\ scanning[r] = {}
    /\ \E lookback \in Lookbacks :
           LET points == Points(lookback)
           IN  scanning' = [scanning EXCEPT ![r] =
                   IF Cardinality(points) < 8 THEN {}
                   ELSE {[a EXCEPT !.key = ThisDay] : a \in Anomalies(points, lookback)}]
    /\ UNCHANGED <<hour, daily, quality, lastSync>>

ScanAnomalies(r) ==
    /\ scanning[r] = {}
    /\ \E lookback \in Lookbacks :
           LET points == Points(lookback)
           IN  scanning' = [scanning EXCEPT ![r] =
                   IF Cardinality(points) < 8 THEN {} ELSE Anomalies(points, lookback)]
    /\ UNCHANGED <<hour, daily, quality, lastSync>>

SameEvent(e, f) == e.code = f.code /\ e.key = f.key /\ e.lookback = f.lookback
AnomalyEvent(a) == [code |-> a.code, key |-> a.key, lookback |-> a.lookback, severity |-> a.severity,
               at |-> hour]

BugEventsPile(r) ==
    /\ \E a \in scanning[r] :
           /\ quality' = quality \cup {AnomalyEvent(a)}
           /\ scanning' = [scanning EXCEPT ![r] = @ \ {a}]
    /\ UNCHANGED <<hour, daily, lastSync>>

(* The upserts of a scan run in parallel, each by its metric, day and      *)
(* lookback: an event that is there gets the severity that this scan found *)
(* and the time of now.  One that fails leaves the others to go on.        *)
UpsertAnomalyEvent(r) ==
    /\ \E a \in scanning[r] :
           /\ quality' = {e \in quality : ~SameEvent(e, a)} \cup {AnomalyEvent(a)}
           /\ scanning' = [scanning EXCEPT ![r] = @ \ {a}]
    /\ UNCHANGED <<hour, daily, lastSync>>
UpsertFails(r) ==
    /\ \E a \in scanning[r] : scanning' = [scanning EXCEPT ![r] = @ \ {a}]
    /\ UNCHANGED <<hour, daily, quality, lastSync>>
ScanStep(r) == ScanAnomalies(r) \/ UpsertAnomalyEvent(r) \/ UpsertFails(r)

-----------------------------------------------------------------------------
(* The score *)

AnomalyCount(days) ==
    Cardinality({e \in quality : e.code # "REJECTED" /\ e.at >= hour - 24 * days})
AnomalyFactor == Max({200, 1000 - 100 * AnomalyCount(7)})
VolumeFactor(n) == IF n <= 0 THEN 0 ELSE Min({1000, (1000 * n) \div 120})
(* Three times the factor. *)
Consistency(growth, churn, ratio) ==
    (IF growth >= 0 THEN 1000 ELSE Max({200, 1000 + growth}))
    + (IF churn <= 50 THEN 1000 ELSE Max({200, 1000 - 5 * (churn - 50)}))
    + (IF ratio >= 3000 THEN 1000 ELSE IF ratio >= 2000 THEN 750
       ELSE IF ratio >= 1000 THEN 500 ELSE 300)
LastRows(n) == {d \in DOMAIN daily : Cardinality({e \in DOMAIN daily : e > d}) < n}
VarianceFactor ==
    LET days == LastRows(14)
        about == Spread(days, "revenue")
        square == about.sum * about.sum
        cv == Max({k \in 0..100 : k * k * square <= 10000 * about.variance})
    IN  IF Cardinality(days) < 5 THEN 400
        ELSE IF about.sum = 0 THEN 300
        ELSE Max({200, 1000 - 10 * cv})

BugFailureIsFresh(s) ==
    IF lastSync[s] = NoSync THEN 100
    ELSE (Max({0, 24 - (hour - lastSync[s].at)}) * 1000) \div 24

SourceFreshness(s) ==
    IF lastSync[s] = NoSync THEN 100
    ELSE (Max({0, 24 - (hour - lastSync[s].at)})
          * (CASE lastSync[s].status = "SUCCESS" -> 1000
               [] lastSync[s].status = "PARTIAL" -> 700
               [] OTHER -> 300)) \div 24
FreshnessFactor ==
    IF Sources = {} THEN 300
    ELSE SumOf(Sources, SourceFreshness) \div Cardinality(Sources)

(* What the score reads, and the score of a brief from it.                 *)
Read == [variance |-> VarianceFactor, anomaly |-> AnomalyFactor, freshness |-> FreshnessFactor]
Score(brief, read) ==
    (75 * VolumeFactor(brief.dataPoints) + 20 * Consistency(brief.growth, brief.churn, brief.ratio)
     + 60 * read.variance + 45 * read.anomaly + 60 * read.freshness) \div 300

-----------------------------------------------------------------------------
(* getExecutiveSummary, after its scan *)

(* DEFAULT_RECOMMENDATION_GUARDRAILS and evaluateGuardrails.               *)
Guardrail(brief, read) ==
    IF brief.dataPoints < 30 THEN "insufficient_data_points"
    ELSE IF Score(brief, read) < 600 THEN "low_confidence"
    ELSE IF read.freshness < 500 THEN "integration_health_degraded"
    ELSE "none"
Alarms(brief) ==
    {a \in {"churn", "ratio", "decline"} :
        \/ a = "churn" /\ brief.churn > 50
        \/ a = "ratio" /\ brief.ratio < 3000 /\ brief.cac > 0
        \/ a = "decline" /\ brief.growth < 0}

BugGuardrailsAlone(brief, read) ==
    LET suppression == Guardrail(brief, read)
        first == IF "churn" \in Alarms(brief) THEN "churn"
                 ELSE IF "ratio" \in Alarms(brief) THEN "ratio"
                 ELSE IF "decline" \in Alarms(brief) THEN "decline"
                 ELSE IF brief.leadRate < 200 THEN "conversion" ELSE "scale"
    IN  [suppression |-> suppression,
         recommendation |-> IF suppression = "none" THEN first ELSE suppression,
         impact |-> IF suppression \in {"low_confidence", "integration_health_degraded"}
                       \/ Alarms(brief) # {} THEN "HIGH" ELSE "MEDIUM"]

ExecutiveSummary(brief, read) ==
    LET suppression == IF BriefMetrics \subseteq brief.metrics THEN Guardrail(brief, read)
                       ELSE "insufficient_data_points"
        first == IF "churn" \in Alarms(brief) THEN "churn"
                 ELSE IF "ratio" \in Alarms(brief) THEN "ratio"
                 ELSE IF "decline" \in Alarms(brief) THEN "decline"
                 ELSE IF brief.leadRate < 200 THEN "conversion" ELSE "scale"
    IN  [suppression |-> suppression,
         recommendation |-> IF suppression = "none" THEN first ELSE suppression,
         impact |-> IF suppression \in {"low_confidence", "integration_health_degraded"}
                       \/ Alarms(brief) # {} THEN "HIGH" ELSE "MEDIUM"]

InsightsStep(what) ==
    \/ what = "days" /\ Pass(24)
    \/ what = "hours" /\ Pass(6)
    \/ what = "job" /\ WriteDaily
    \/ what = "worker" /\ LogValidationIssue
    \/ what \in Sources /\ EndSync(what)
    \/ what \in Scans /\ ScanStep(what)

-----------------------------------------------------------------------------
(* Properties *)

(* However often and by however many scans at once a day is scanned, a     *)
(* metric has one event of it for each lookback that was asked for, and    *)
(* only where at least seven days of that lookback came before it; scans   *)
(* of two lookbacks leave two events, and both count in the score          *)
(* (data-quality.service.ts:55-99, 189-276).                               *)
DaysLookedBack(e) == {d \in DOMAIN daily : d < e.key /\ d + e.lookback >= e.key}
OneEventPerLookback ==
    \A e \in quality : e.code # "REJECTED" =>
        /\ \A f \in quality : SameEvent(e, f) => f = e
        /\ e.key \in DOMAIN daily
        /\ Cardinality(DaysLookedBack(e)) >= 7

(* Whatever the figures, a summary gives advice only from all of its       *)
(* metrics, and while an integration synced without failing within the     *)
(* last twelve hours; who has nothing but failures and silence gets none   *)
(* (analytics.service.ts:94-334, confidence-scoring.service.ts:117-165).   *)
AdviceNeedsFreshData ==
    LET read == Read IN \A brief \in Briefs :
        ExecutiveSummary(brief, read).suppression = "none" =>
            /\ BriefMetrics \subseteq brief.metrics
            /\ brief.dataPoints >= 30
            /\ \E s \in Sources : /\ lastSync[s] # NoSync
                                  /\ lastSync[s].status # "FAILED"
                                  /\ hour - lastSync[s].at <= 12

(* The score is a share of 1, more data of the same kind never lowers it,  *)
(* and a summary that raises an alarm is of high impact, suppressed or not *)
(* (confidence-scoring.service.ts:21-57).                                  *)
ScoreIsAShare ==
    LET read == Read IN \A brief \in Briefs :
        /\ Score(brief, read) \in 0..1000
        /\ Score(brief, read) <= Score([brief EXCEPT !.dataPoints = @ + 30], read)
        /\ Alarms(brief) # {} => ExecutiveSummary(brief, read).impact = "HIGH"

AdviceIsFounded == OneEventPerLookback /\ AdviceNeedsFreshData /\ ScoreIsAShare
===============================================================================

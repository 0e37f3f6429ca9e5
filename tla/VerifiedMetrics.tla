---------------------------- MODULE VerifiedMetrics ----------------------------
(***************************************************************************)
(* The metrics of AnalyticsService, the snapshots of VerifiedMetricsService*)
(* and the jobs of AnalyticsAggregationService.                            *)
(*                                                                         *)
(* A view (GET overview or executive-summary) measures each metric over    *)
(* its range, upserts a snapshot of each, lists the CUSTOM snapshots that  *)
(* lie in the range, and takes its figures from that list.  A job measures *)
(* a day, a week or a month and upserts its snapshots and then its row.    *)
(* What a metric counts is abstracted to the records of the days of a      *)
(* window: they only grow, so that a smaller figure is an older one.       *)
(*                                                                         *)
(* The operators named Bug... are faulty variants of definitions after     *)
(* them; no specification uses them.                                       *)
(***************************************************************************)
EXTENDS Naturals, FiniteSets, FiniteSetsExt

CONSTANTS
    Viewers, Periods,
    MetricKeys,         \* a subset of cac, ltv, revenue and churn
    Days,               \* 1..LastDay
    Ranges,             \* the ranges that views ask for, <<first day, last day>>
    PeriodRange,        \* the range of a period on each day
    MaxRecords,         \* bound: records of a day
    Unmeasured

ASSUME VerifiedMetricsAssumption ==
    /\ IsFiniteSet(Days) /\ Days \subseteq Nat /\ MaxRecords \in Nat
    /\ Ranges # {} /\ Ranges \subseteq Days \X Days
    /\ PeriodRange \in [Periods -> [Days -> Days \X Days]]
    (* The end of a period that has begun never moves back.                *)
    /\ \A p \in Periods : \A d, e \in Days :
           PeriodRange[p][d][1] = PeriodRange[p][e][1] /\ d <= e =>
               PeriodRange[p][d][2] <= PeriodRange[p][e][2]
    /\ Unmeasured \notin Nat

VARIABLES
    records,        \* how many records each day has
    today,
    snapshots,      \* the CUSTOM snapshots
    view,           \* where each view is
    job,            \* where the job of each period is
    periodSnaps,    \* the DAILY, WEEKLY and MONTHLY snapshots, by first day
    periodRows      \* daily_metrics, weekly_metrics and monthly_metrics

metricVars == <<records, today, snapshots, view, job, periodSnaps, periodRows>>

Figure == Nat \cup {Unmeasured}
Figures == [MetricKeys -> Figure]
Nothing == [m \in MetricKeys |-> Unmeasured]
ViewPc == {"idle", "measure", "upsert", "list", "done"}

VerifiedMetricsTypeOK ==
    /\ records \in [Days -> 0..MaxRecords]
    /\ today \in Days
    /\ snapshots \in [Ranges -> Figures]
    /\ view \in [Viewers -> [pc : ViewPc, range : Ranges, figures : Figures,
                             stored : SUBSET MetricKeys, since : Nat]]
    /\ job \in [Periods -> [pc : ViewPc, day : Days, figures : Figures, stored : SUBSET MetricKeys]]
    /\ periodSnaps \in [Periods -> [Days -> Figures]]
    /\ periodRows \in [Periods -> [Days -> Figures]]

AnyRange == CHOOSE range \in Ranges : TRUE
IdleView == [pc |-> "idle", range |-> AnyRange, figures |-> Nothing, stored |-> {}, since |-> 0]
IdleJob == [pc |-> "idle", day |-> CHOOSE d \in Days : TRUE,
            figures |-> Nothing, stored |-> {}]

VerifiedMetricsInit ==
    /\ records = [d \in Days |-> 0]
    /\ today \in Days /\ \A d \in Days : today <= d
    /\ snapshots = [range \in Ranges |-> Nothing]
    /\ view = [v \in Viewers |-> IdleView]
    /\ job = [p \in Periods |-> IdleJob]
    /\ periodSnaps = [p \in Periods |-> [d \in Days |-> Nothing]]
    /\ periodRows = [p \in Periods |-> [d \in Days |-> Nothing]]

-----------------------------------------------------------------------------

DaysOf(range) == {d \in Days : range[1] <= d /\ d <= range[2]}
Measure(range) ==
    Cardinality({r \in Days \X (1..MaxRecords) : r[1] \in DaysOf(range) /\ r[2] <= records[r[1]]})

RecordArrives ==
    /\ records[today] < MaxRecords
    /\ records' = [records EXCEPT ![today] = @ + 1]
    /\ UNCHANGED <<today, snapshots, view, job, periodSnaps, periodRows>>
NextDay ==
    /\ today + 1 \in Days
    /\ today' = today + 1
    /\ UNCHANGED <<records, snapshots, view, job, periodSnaps, periodRows>>

-----------------------------------------------------------------------------
(* A view.  "since" is a ghost: what its range measured when the oldest of *)
(* the views that overlap with it began.                                   *)

Ongoing == {v \in Viewers : view[v].pc \in {"measure", "upsert", "list"}}
ViewOnly == UNCHANGED <<records, today, job, periodSnaps, periodRows>>

AskView(v) ==
    /\ view[v].pc = "idle"
    /\ \E range \in Ranges :
           view' = [view EXCEPT ![v] =
               [IdleView EXCEPT !.pc = "measure", !.range = range,
                   !.since = Min({Measure(range)} \cup
                                 {view[w].since : w \in {w \in Ongoing : view[w].range = range}})]]
    /\ UNCHANGED snapshots /\ ViewOnly
(* getCAC, getLTV, getChurn and getRevenue run at the same time. *)
MeasureMetric(v, m) ==
    /\ view[v].pc = "measure" /\ view[v].figures[m] = Unmeasured
    /\ LET figures == [view[v].figures EXCEPT ![m] = Measure(view[v].range)]
       IN  view' = [view EXCEPT ![v].figures = figures,
                                ![v].pc = IF Unmeasured \in {figures[k] : k \in MetricKeys}
                                          THEN "measure" ELSE "upsert"]
    /\ UNCHANGED snapshots /\ ViewOnly

BugOldKept(v, m) ==
    /\ view[v].pc = "upsert" /\ m \notin view[v].stored
    /\ snapshots' = [snapshots EXCEPT ![view[v].range][m] =
                         IF @ = Unmeasured THEN view[v].figures[m] ELSE @]
    /\ LET stored == view[v].stored \cup {m}
       IN  view' = [view EXCEPT ![v].stored = stored,
                                ![v].pc = IF stored = MetricKeys THEN "list" ELSE "upsert"]
    /\ ViewOnly

(* upsertSnapshots: one upsert for each metric, at the same time. *)
UpsertSnapshot(v, m) ==
    /\ view[v].pc = "upsert" /\ m \notin view[v].stored
    /\ snapshots' = [snapshots EXCEPT ![view[v].range][m] = view[v].figures[m]]
    /\ LET stored == view[v].stored \cup {m}
       IN  view' = [view EXCEPT ![v].stored = stored,
                                ![v].pc = IF stored = MetricKeys THEN "list" ELSE "upsert"]
    /\ ViewOnly
(* listSnapshots, last windowEnd first, and toVerifiedMetricMap, in which  *)
(* the last entry of a metric wins: the one whose window ends first.       *)
Inside(range) == {w \in Ranges : range[1] <= w[1] /\ w[2] <= range[2]}
Listed(range, m) == {w \in Inside(range) : snapshots[w][m] # Unmeasured}
Mapped(range, m) == {w \in Listed(range, m) : \A u \in Listed(range, m) : w[2] <= u[2]}
ListSnapshots(v) ==
    /\ view[v].pc = "list"
    /\ \E pick \in [MetricKeys -> Ranges] :
           /\ \A m \in MetricKeys : pick[m] \in Mapped(view[v].range, m)
           /\ view' = [view EXCEPT ![v].pc = "done",
                                   ![v].figures = [m \in MetricKeys |-> snapshots[pick[m]][m]]]
    /\ UNCHANGED snapshots /\ ViewOnly
ViewEnds(v) ==
    /\ view[v].pc # "idle"
    /\ view' = [view EXCEPT ![v] = IdleView]
    /\ UNCHANGED snapshots /\ ViewOnly

ViewStep(v) ==
    \/ AskView(v) \/ ListSnapshots(v) \/ ViewEnds(v)
    \/ \E m \in MetricKeys : MeasureMetric(v, m) \/ UpsertSnapshot(v, m)

-----------------------------------------------------------------------------
(* aggregateForPeriod of one organization, by the cron job of the period.  *)

JobOnly == UNCHANGED <<records, today, snapshots, view>>

JobStarts(p) ==
    /\ job[p].pc = "idle"
    /\ job' = [job EXCEPT ![p] = [IdleJob EXCEPT !.pc = "measure", !.day = today]]
    /\ UNCHANGED <<periodSnaps, periodRows>> /\ JobOnly
JobMeasures(p, m) ==
    /\ job[p].pc = "measure" /\ job[p].figures[m] = Unmeasured
    /\ LET figures == [job[p].figures EXCEPT ![m] = Measure(PeriodRange[p][job[p].day])]
       IN  job' = [job EXCEPT ![p].figures = figures,
                              ![p].pc = IF Unmeasured \in {figures[k] : k \in MetricKeys}
                                        THEN "measure" ELSE "upsert"]
    /\ UNCHANGED <<periodSnaps, periodRows>> /\ JobOnly

BugPeriodKept(p, m) ==
    LET first == PeriodRange[p][job[p].day][1]
        stored == job[p].stored \cup {m}
    IN  /\ job[p].pc = "upsert" /\ m \notin job[p].stored
        /\ periodSnaps' = [periodSnaps EXCEPT ![p][first][m] =
                               IF @ = Unmeasured THEN job[p].figures[m] ELSE @]
        /\ job' = [job EXCEPT ![p].stored = stored,
                              ![p].pc = IF stored = MetricKeys THEN "done" ELSE "upsert"]
        /\ UNCHANGED periodRows /\ JobOnly

JobUpserts(p, m) ==
    /\ job[p].pc = "upsert" /\ m \notin job[p].stored
    /\ periodSnaps' = [periodSnaps EXCEPT ![p][PeriodRange[p][job[p].day][1]][m] = job[p].figures[m]]
    /\ LET stored == job[p].stored \cup {m}
       IN  job' = [job EXCEPT ![p].stored = stored,
                              ![p].pc = IF stored = MetricKeys THEN "done" ELSE "upsert"]
    /\ UNCHANGED periodRows /\ JobOnly
JobWritesRow(p) ==
    /\ job[p].pc = "done"
    /\ periodRows' = [periodRows EXCEPT ![p][PeriodRange[p][job[p].day][1]] = job[p].figures]
    /\ job' = [job EXCEPT ![p] = IdleJob]
    /\ UNCHANGED periodSnaps /\ JobOnly
JobThrows(p) ==
    /\ job[p].pc # "idle"
    /\ job' = [job EXCEPT ![p] = IdleJob]
    /\ UNCHANGED <<periodSnaps, periodRows>> /\ JobOnly

JobStep(p) ==
    \/ JobStarts(p) \/ JobWritesRow(p) \/ JobThrows(p)
    \/ \E m \in MetricKeys : JobMeasures(p, m) \/ JobUpserts(p, m)

VerifiedMetricsNext ==
    \/ RecordArrives \/ NextDay
    \/ \E v \in Viewers : ViewStep(v)
    \/ \E p \in Periods : JobStep(p)

VerifiedMetricsSpec == VerifiedMetricsInit /\ [][VerifiedMetricsNext]_metricVars

-----------------------------------------------------------------------------
(* Properties *)

(* The summary has a figure for every metric.  Unless snapshots of a       *)
(* shorter range inside its own exist, they are its own range's, and no    *)
(* older than the oldest view that overlaps with it                        *)
(* (analytics.service.ts:107-140).                                         *)
SummaryIsOfItsRange ==
    \A v \in Viewers : view[v].pc = "done" => \A m \in MetricKeys :
        /\ view[v].figures[m] # Unmeasured
        /\ \/ \E w \in Inside(view[v].range) \ {view[v].range} : snapshots[w][m] # Unmeasured
           \/ view[v].figures[m] >= view[v].since

(* A job writes the snapshots of a period before the row, so that a row is *)
(* never newer than its snapshots, and both show only what its days really *)
(* have, even if the job throws in between                                 *)
(* (analytics.aggregation.service.ts:72-196).                              *)
RowsFollowSnapshots ==
    \A p \in Periods, d \in Days, m \in MetricKeys :
        periodRows[p][d][m] # Unmeasured =>
            /\ periodSnaps[p][d][m] # Unmeasured
            /\ periodRows[p][d][m] <= periodSnaps[p][d][m]
            /\ \E day \in Days : /\ PeriodRange[p][day][1] = d
                                 /\ periodSnaps[p][d][m] <= Measure(PeriodRange[p][day])

(* The stored figures agree with each other and with the records, for      *)
(* views and jobs that overlap (verified-metrics.service.ts:36-157,        *)
(* analytics.aggregation.service.ts:33-201).                               *)
FiguresAgree == SummaryIsOfItsRange /\ RowsFollowSnapshots
===============================================================================

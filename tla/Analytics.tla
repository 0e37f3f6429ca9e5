------------------------------- MODULE Analytics -------------------------------
(***************************************************************************)
(* What AnalyticsService computes from the records of an organization, with*)
(* the formulas of packages/analytics, and the script that audits it.      *)
(*                                                                         *)
(* The records are a bag of rows.  A day d has two instants: 2 * d is its  *)
(* midnight and 2 * d + 1 any time after it, noon and 23:59:59.999 alike.  *)
(* A rate is a fraction <<numerator, denominator>>, and no rounding is     *)
(* modelled.  A range is a pair of days, as resolveDates widens it.        *)
(*                                                                         *)
(* The operators named Bug... are faulty variants of definitions after     *)
(* them; no specification uses them.                                       *)
(***************************************************************************)
EXTENDS Integers, FiniteSets, FiniteSetsExt, Sequences, Aggregates

CONSTANTS
    MetricRows,         \* the rows that may be recorded for each metric
    MaxRows,            \* bound: rows that are recorded
    FirstsOfMonths,     \* the days that begin a month, one more than are asked for
    FirstWeekday,       \* the weekday of day 0, Sunday being 0
    Asked,              \* the ranges that are asked for
    Present,            \* the instant at which a subscription without end is measured
    AuditDays,          \* the days on which the audit may run
    NoAudit, NoCustomer, NoEnd

(* What is recorded was valid when it was imported: no amount, cost or     *)
(* value is negative (integration-sync.processor.ts:319-383).              *)
IsRow(r) ==
    /\ r.table = "customer" => r.at \in Int
    /\ r.table = "subscription" => r.start \in Int /\ r.end \in Int \cup {NoEnd}
    /\ r.table = "spend" => r.at \in Int /\ r.cost \in Nat /\ r.conversions \in Nat
    /\ r.table = "revenue" => r.at \in Int /\ r.amount \in Nat
    /\ r.table = "event" => r.at \in Int
    /\ r.table = "deal" => r.at \in Int /\ r.value \in Nat /\ r.closed \in Int \cup {NoEnd}

ASSUME AnalyticsAssumption ==
    /\ FirstsOfMonths \subseteq Nat /\ IsFiniteSet(FirstsOfMonths)
    /\ Asked \subseteq Nat \X Nat /\ AuditDays \subseteq Nat
    /\ MaxRows \in Nat /\ FirstWeekday \in 0..6 /\ Present \in Nat
    /\ NoCustomer \notin Nat /\ NoEnd \notin Int
    /\ \A metric \in DOMAIN MetricRows : \A r \in MetricRows[metric] : IsRow(r)
    /\ \A range \in Asked :
           /\ range[1] <= range[2]
           /\ \E m \in FirstsOfMonths : m <= range[1]
           /\ \E m, n \in FirstsOfMonths : range[2] < m /\ m < n
    /\ \A day \in AuditDays :
           /\ \E m \in FirstsOfMonths : m <= day - 6
           /\ \E m \in FirstsOfMonths : day < m

VARIABLES
    ledger,     \* the rows, each with how often it was recorded
    audit       \* the audit that seeded them: its mode and day

analyticsVars == <<ledger, audit>>

Rows(table) == {r \in DOMAIN ledger : r.table = table}
Weigh(rows, Weight(_)) == SumOver([r \in rows |-> ledger[r] * Weight(r)])
CountOf(rows) == Weigh(rows, LAMBDA r : 1)

AnalyticsTypeOK ==
    /\ \A r \in DOMAIN ledger : ledger[r] \in Nat \ {0}
    /\ audit # NoAudit => audit.mode \in {"rich", "stress"} /\ audit.day \in AuditDays

AnalyticsInit == ledger = <<>> /\ audit = NoAudit

With(row) == [r \in DOMAIN ledger \cup {row} |->
                 IF r \in DOMAIN ledger THEN ledger[r] + (IF r = row THEN 1 ELSE 0) ELSE 1]
RecordRow(metric) ==
    /\ audit = NoAudit /\ CountOf(DOMAIN ledger) < MaxRows
    /\ \E row \in MetricRows[metric] : ledger' = With(row)
    /\ UNCHANGED audit

-----------------------------------------------------------------------------
(* Ranges and months *)

RangeStart(range) == 2 * range[1]
RangeEnd(range) == 2 * range[2] + 1
During(rows, range) == {r \in rows : RangeStart(range) <= r.at /\ r.at <= RangeEnd(range)}

MonthOf(day) == Max({m \in FirstsOfMonths : m <= day})
MonthAfter(m) == Min({n \in FirstsOfMonths : n > m})
MonthEnd(m) == 2 * MonthAfter(m) - 1

MonthSeries(range) == {m \in FirstsOfMonths : MonthOf(range[1]) <= m /\ m <= range[2]}

Ratio(n, d) == IF d <= 0 THEN <<0, 1>> ELSE <<n, d>>
Same(x, y) == x[1] * y[2] = y[1] * x[2]
NoMore(x, y) == x[1] * y[2] <= y[1] * x[2]

-----------------------------------------------------------------------------
(* The metrics *)

BugChurnUncapped(range) ==
    LET months == MonthSeries(range)
        before == {c \in Rows("customer") : c.at < RangeEnd(range)}
        canceled == {s \in Rows("subscription") :
                        /\ s.status = "CANCELED" /\ s.end # NoEnd
                        /\ RangeStart(range) <= s.end /\ s.end <= RangeEnd(range)}
        atStart == [m \in months |-> CountOf({c \in before : c.at < 2 * m})]
        lost == [m \in months |->
                    CountOf({s \in canceled : 2 * m <= s.end /\ s.end <= MonthEnd(m)})]
    IN  [atStart |-> SumOver(atStart), lost |-> SumOver(lost),
         overall |-> Ratio(SumOver(lost), SumOver(atStart)),
         byMonth |-> [m \in months |-> Ratio(lost[m], atStart[m])]]

Churn(range) ==
    LET months == MonthSeries(range)
        before == {c \in Rows("customer") : c.at < RangeEnd(range)}
        canceled == {s \in Rows("subscription") :
                        /\ s.status = "CANCELED" /\ s.end # NoEnd
                        /\ RangeStart(range) <= s.end /\ s.end <= RangeEnd(range)}
        atStart == [m \in months |-> CountOf({c \in before : c.at < 2 * m})]
        lost == [m \in months |->
                    Min({atStart[m],
                         CountOf({s \in canceled : 2 * m <= s.end /\ s.end <= MonthEnd(m)})})]
    IN  [atStart |-> SumOver(atStart), lost |-> SumOver(lost),
         overall |-> Ratio(SumOver(lost), SumOver(atStart)),
         byMonth |-> [m \in months |-> Ratio(lost[m], atStart[m])]]

(* The filters are sets of names: the one asked for, or {} for all.        *)
Chosen(name, filter) == filter = {} \/ name \in filter
CAC(range, channel, campaign) ==
    LET metrics == {r \in During(Rows("spend"), range) :
                       Chosen(r.channel, channel) /\ Chosen(r.campaign, campaign)}
        newCustomers == CountOf({c \in During(Rows("customer"), range) : Chosen(c.channel, channel)})
        Spend(rows) == Weigh(rows, LAMBDA r : r.cost)
        Segment(rows) == [spend |-> Spend(rows),
                          cac |-> Ratio(Spend(rows), Weigh(rows, LAMBDA r : r.conversions))]
    IN  [totalSpend |-> Spend(metrics), newCustomers |-> newCustomers,
         sourceRecordCount |-> CountOf(metrics),
         cac |-> Ratio(Spend(metrics), newCustomers),
         byChannel |-> [c \in {r.channel : r \in metrics} |->
                           Segment({r \in metrics : r.channel = c})],
         byCampaign |-> [k \in {r.campaign : r \in metrics} |->
                           Segment({r \in metrics : r.campaign = k})]]

(* The factors of the lifetime value; lifetimes are in months of 30 days.  *)
LTV(range) ==
    LET events == During(Rows("revenue"), range)
        customers == {r.customer : r \in events} \ {NoCustomer}
        Lifetime(s) == Max({0, (IF s.end = NoEnd THEN Present ELSE s.end) - s.start})
    IN  [customers |-> Cardinality(customers),
         perCustomer |-> Ratio(Weigh(events, LAMBDA r : r.amount), Cardinality(customers)),
         months |-> Ratio(Weigh(Rows("subscription"), Lifetime),
                          60 * CountOf(Rows("subscription")))]

RecurringTypes == {"SUBSCRIPTION_STARTED", "SUBSCRIPTION_RENEWED", "UPGRADE", "DOWNGRADE"}
TotalDays(range) == Max({1, (RangeEnd(range) - RangeStart(range) + 1) \div 2})

BugPreviousOverlaps(range) ==
    LET shift == 2 * Max({1, (RangeEnd(range) - RangeStart(range)) \div 2})
    IN  <<RangeStart(range) - shift, RangeEnd(range) - shift>>

(* The window before a range, as instants.                                 *)
Previous(range) ==
    LET shift == 2 * TotalDays(range)
    IN  <<RangeStart(range) - shift, RangeEnd(range) - shift>>
ByMonth(events) ==
    LET months == Ascending([m \in {MonthOf(r.at \div 2) : r \in events} |-> m])
    IN  [i \in DOMAIN months |->
            [period |-> months[i],
             value |-> Weigh({r \in events : MonthOf(r.at \div 2) = months[i]}, LAMBDA r : r.amount)]]
Revenue(range) ==
    LET events == During(Rows("revenue"), range)
        Amount(rows) == Weigh(rows, LAMBDA r : r.amount)
        before == Amount({r \in Rows("revenue") :
                             Previous(range)[1] <= r.at /\ r.at <= Previous(range)[2]})
        growth == IF before = 0 THEN <<0, 1>> ELSE <<Amount(events) - before, before>>
        mrr == Amount({r \in events : r.kind \in RecurringTypes})
    IN  [total |-> Amount(events), mrr |-> mrr, arr |-> 12 * mrr, growth |-> growth,
         history |-> ByMonth(events)]

(* What a snapshot of each metric says, with the records that support it:  *)
(* upsertVerifiedMetrics and the flags of buildQualityFlags.               *)
Snapshot(range) ==
    LET cac == CAC(range, {}, {})
        ltv == LTV(range)
        churn == Churn(range)
        Of(value, size) == [value |-> value, sampleSize |-> size,
                            flags |-> {f \in {"no_supporting_records", "low_sample_size"} :
                                          IF f = "low_sample_size" THEN size \in 1..4 ELSE size = 0}]
    IN  [cac |-> Of(cac.cac[1], Max({cac.newCustomers, cac.sourceRecordCount})),
         ltv |-> Of(ltv.perCustomer[1] * ltv.months[1],
                    Max({CountOf(Rows("subscription")), ltv.customers})),
         revenue |-> Of(Revenue(range).total, CountOf(During(Rows("revenue"), range))),
         churn |-> Of(churn.overall[1], churn.atStart)]

(* A customer is activated by its first purchase ever.                     *)
PurchasesOf(c) == {r \in Rows("event") : r.kind = "PURCHASE" /\ r.customer = c}

BugActivatedByAny(range) == {r.customer : r \in {e \in During(Rows("event"), range) :
                                 e.kind = "PURCHASE"}} \ {NoCustomer}

Activated(range) ==
    LET upTo == {r \in Rows("event") : r.kind = "PURCHASE" /\ r.at <= RangeEnd(range)}
        First(c) == Min({r.at : r \in PurchasesOf(c) \cap upTo})
    IN  {c \in {r.customer : r \in upTo} \ {NoCustomer} : First(c) >= RangeStart(range)}
Conversion(range) ==
    LET events == During(Rows("event"), range)
        deals == During(Rows("deal"), range)
        Kind(k) == {r \in events : r.kind = k}
        visitors == CountOf(Kind("PAGE_VIEW"))
        leads == Max({CountOf(Kind("SIGNUP")), CountOf({d \in deals : d.stage = "LEAD"})})
        customers == {r.customer : r \in Kind("PURCHASE")} \ {NoCustomer}
    IN  [customers |-> customers, activated |-> Activated(range),
         visitorToLead |-> Ratio(leads, visitors),
         leadToCustomer |-> Ratio(Cardinality(customers), leads),
         activation |-> Ratio(Cardinality(Activated(range)), Cardinality(customers))]

BugCycleOfNoDays(d) == d.closed - d.at

Cycle(d) == Max({2, d.closed - d.at})
Pipeline(range) ==
    LET deals == During(Rows("deal"), range)
        closed == {d \in deals : d.closed # NoEnd}
        value == Weigh(deals, LAMBDA d : d.value)
        won == CountOf({d \in deals : d.stage = "WON"})
        winRate == Ratio(won, CountOf(deals))
        days == IF closed = {} THEN <<1, 1>> ELSE <<Weigh(closed, Cycle), 2 * CountOf(closed)>>
    IN  [totalValue |-> value, winRate |-> winRate,
         velocity |-> IF days[1] <= 0 THEN <<0, 1>>
                      ELSE <<value * winRate[1] * days[2], winRate[2] * days[1]>>]

-----------------------------------------------------------------------------
(* forecastRevenue, in sixths of the smallest unit of what it smooths      *)

SixthsOfAverage(values, i) ==
    LET first == Max({1, i - 2})
    IN  (6 \div (i - first + 1)) * SumOver([j \in first..i |-> values[j]])
(* A single point is its own trend.                                        *)
Trend(smoothed) ==
    IF Len(smoothed) = 1 THEN <<smoothed[1], 1>>
    ELSE <<smoothed[Len(smoothed)] - smoothed[1], Len(smoothed) - 1>>

(* The months from m on.                                                   *)
MonthsAfter(m, months) ==
    LET After[i \in 0..months] == IF i = 0 THEN m ELSE MonthAfter(After[i - 1]) IN After

BugForecastNegative(history, months) ==
    LET values == [j \in DOMAIN history |-> history[j].value]
        smoothed == [i \in DOMAIN history |-> SixthsOfAverage(values, i)]
        trend == Trend(smoothed)
        After == MonthsAfter(history[Len(history)].period, months)
    IN  IF history = <<>> THEN <<>>
        ELSE [i \in 1..months |->
                 [period |-> After[i],
                  value |-> <<smoothed[Len(history)] * trend[2] + trend[1] * i, 6 * trend[2]>>]]

ForecastRevenue(history, months) ==
    LET values == [j \in DOMAIN history |-> history[j].value]
        smoothed == [i \in DOMAIN history |-> SixthsOfAverage(values, i)]
        trend == Trend(smoothed)
        latest == smoothed[Len(history)]
        After == MonthsAfter(history[Len(history)].period, months)
    IN  IF history = <<>> THEN <<>>
        ELSE [i \in 1..months |->
                 [period |-> After[i],
                  value |-> <<Max({0, latest * trend[2] + trend[1] * i}), 6 * trend[2]>>]]

-----------------------------------------------------------------------------
(* The audit: rows are seeded for its day, the three aggregations run, and *)
(* the rows they write are compared with what the script expects.  Amounts *)
(* are in thousands.                                                       *)

(* getPeriodRange.  A month is left by the day of the month, which may not *)
(* exist in the next one.                                                  *)
MonthlyRange(day) ==
    LET landed == MonthAfter(MonthOf(day)) + (day - MonthOf(day))
    IN  <<MonthOf(day), MonthOf(landed) - 1>>

BugSundayIsTheFirst(day) ==
    LET weekday == (FirstWeekday + day) % 7
    IN  <<day - (weekday - 1), day - (weekday - 1) + 6>>

WeeklyRange(day) ==
    LET weekday == (FirstWeekday + day) % 7
        monday == day - (IF weekday = 0 THEN 6 ELSE weekday - 1)
    IN  <<monday, monday + 6>>
PeriodRangeOn(day) == {<<day, day>>, WeeklyRange(day), MonthlyRange(day)}

Once(rows) == [r \in rows |-> 1]
Join(f, g) == [r \in DOMAIN f \cup DOMAIN g |-> IF r \in DOMAIN f THEN f[r] ELSE g[r]]
SpendRow(campaign, cost, conversions, day) ==
    [table |-> "spend", channel |-> "audit", campaign |-> campaign, cost |-> cost,
     conversions |-> conversions, at |-> 2 * day]
CustomerRow(channel, at) == [table |-> "customer", channel |-> channel, at |-> at]
SubscriptionRow(status, start, end) ==
    [table |-> "subscription", status |-> status, start |-> start, end |-> end]
RevenueRow(customer, amount, kind, day) ==
    [table |-> "revenue", customer |-> customer, amount |-> amount, kind |-> kind,
     at |-> 2 * day + 1]
EventRow(customer, kind, at) ==
    [table |-> "event", customer |-> customer, kind |-> kind, at |-> at]

RichFixtures(day) ==
    LET month == MonthOf(day)
        noon == 2 * day + 1
    IN  Join(Once({SpendRow(1, 150, 3, day), CustomerRow("Referral", 2 * (month - 20)),
                   SubscriptionRow("ACTIVE", 2 * (month - 90), 2 * (month - 30)),
                   SubscriptionRow("CANCELED", 2 * (month - 150), noon),
                   RevenueRow(1, 60, "SUBSCRIPTION_STARTED", day),
                   RevenueRow(2, 30, "SUBSCRIPTION_RENEWED", day),
                   EventRow(0, "PURCHASE", 2 * (month - 20))}
                  \cup {EventRow(c, kind, noon) : c \in 1..2, kind \in {"SIGNUP", "PURCHASE"}}),
             [r \in {CustomerRow("audit", noon)} |-> 3])
RichExpected(day) ==
    LET lifetimes == 2 * 60 + (2 * day + 1) - 2 * (MonthOf(day) - 150)
    IN  [cac |-> <<50, 1>>, revenue |-> 90, churn |-> <<1, 1>>,
         ltv |-> [perCustomer |-> <<90, 2>>, months |-> <<lifetimes, 60 * 2>>]]

StressFixtures(day) ==
    LET month == MonthOf(day)
        noon == 2 * day + 1
        Kind(i) == IF i % 2 = 0 THEN "SUBSCRIPTION_STARTED" ELSE "SUBSCRIPTION_RENEWED"
    IN  Join(Once({SpendRow(k, 100, 20, day) : k \in 1..5}
                  \cup {RevenueRow(i, 10 + (i % 5) * 2, Kind(i), day) : i \in 0..79}
                  \cup {EventRow(i, kind, noon) : i \in 0..79, kind \in {"SIGNUP", "PURCHASE"}}),
         Join([r \in {CustomerRow("Legacy", 2 * (month - 10))} |-> 40],
         Join([r \in {CustomerRow("audit", noon)} |-> 100],
         Join([r \in {SubscriptionRow("ACTIVE", 2 * (month - 120), 2 * (month - 30))} |-> 80],
              [r \in {SubscriptionRow("CANCELED", 2 * (month - 120), noon)} |-> 20]))))
StressExpected(day) ==
    LET revenue == SumOver([i \in 0..79 |-> 10 + (i % 5) * 2])
        lifetimes == 80 * 2 * 90 + 20 * ((2 * day + 1) - 2 * (MonthOf(day) - 120))
    IN  [cac |-> <<5 * 100, 100>>, revenue |-> revenue,
         churn |-> IF 40 = 0 THEN <<0, 1>> ELSE <<Min({40, 20}), 40>>,
         ltv |-> [perCustomer |-> <<revenue, 80>>, months |-> <<lifetimes, 60 * 100>>]]

RunAudit(mode) ==
    /\ ledger = <<>> /\ audit = NoAudit
    /\ \E day \in AuditDays :
           /\ audit' = [mode |-> mode, day |-> day]
           /\ ledger' = IF mode = "rich" THEN RichFixtures(day) ELSE StressFixtures(day)
(* The organization is deleted, with its rows.                             *)
EndAudit ==
    /\ audit # NoAudit
    /\ audit' = NoAudit /\ ledger' = <<>>

AnalyticsStep(what) ==
    \/ what \in DOMAIN MetricRows /\ RecordRow(what)
    \/ what \in {"rich", "stress"} /\ RunAudit(what)
    \/ what \in {"rich", "stress"} /\ EndAudit

-----------------------------------------------------------------------------
(* Properties *)

(* The churn of a range is that of its months: asked for one by one they   *)
(* lose the same customers of the same number, none twice and none in      *)
(* between, and the overall rate is a mean of theirs, at most 1            *)
(* (analytics.service.ts:493-548).                                         *)
PartOf(range, m) == <<Max({m, range[1]}), Min({MonthAfter(m) - 1, range[2]})>>
ChurnIsOfItsMonths ==
    \A range \in Asked :
        LET churn == Churn(range)
            alone == [m \in MonthSeries(range) |-> Churn(PartOf(range, m))]
        IN  /\ churn.atStart = SumOver([m \in DOMAIN alone |-> alone[m].atStart])
            /\ churn.lost = SumOver([m \in DOMAIN alone |-> alone[m].lost])
            /\ NoMore(churn.overall, <<1, 1>>)
            /\ \E m \in DOMAIN alone : NoMore(churn.byMonth[m], churn.overall)
            /\ \E m \in DOMAIN alone : NoMore(churn.overall, churn.byMonth[m])

(* The spend of a channel or a campaign is what a request for that one     *)
(* alone gives, and the channels share the whole spend                     *)
(* (analytics.service.ts:349-434).                                         *)
SegmentsAreRequests ==
    \A range \in Asked :
        LET all == CAC(range, {}, {}) IN
        /\ \A c \in DOMAIN all.byChannel :
               all.byChannel[c].spend = CAC(range, {c}, {}).totalSpend
        /\ \A k \in DOMAIN all.byCampaign :
               all.byCampaign[k].spend = CAC(range, {}, {k}).totalSpend
        /\ all.totalSpend = SumOver([c \in DOMAIN all.byChannel |-> all.byChannel[c].spend])
        /\ all.totalSpend = SumOver([k \in DOMAIN all.byCampaign |-> all.byCampaign[k].spend])

(* Growth compares a range with the days right before it, as many as its   *)
(* own: what those days alone are said to have had, and none of its own    *)
(* (analytics.service.ts:550-616).                                         *)
GrowthIsOverTheDaysBefore ==
    \A range \in Asked :
        LET days == range[2] - range[1] + 1
            before == Revenue(<<range[1] - days, range[1] - 1>>).total
            now == Revenue(range)
        IN  /\ before # 0 => Same(now.growth, <<now.total - before, before>>)
            /\ before = 0 => now.growth = <<0, 1>>
            /\ now.mrr <= now.total
            /\ now.total = SumOver([i \in DOMAIN now.history |-> now.history[i].value])

(* A forecast of at least two months goes on from the last: each month     *)
(* once, never below 0, flat for a flat history and not falling for one    *)
(* that never fell (forecasting.ts:6-55).                                  *)
ForecastGoesOn ==
    \A range \in Asked :
        LET history == Revenue(range).history
            values == [i \in DOMAIN history |-> history[i].value]
            rising == \A i \in 1..(Len(values) - 1) : values[i] <= values[i + 1]
            forecast == ForecastRevenue(history, 2)
        IN  Len(history) >= 2 =>
                /\ history[Len(history)].period < forecast[1].period
                /\ forecast[1].period < forecast[2].period
                /\ \A i \in 1..2 : forecast[i].value[1] >= 0
                /\ rising => NoMore(<<SixthsOfAverage(values, Len(values)), 6>>, forecast[1].value)
                /\ rising => NoMore(forecast[1].value, forecast[2].value)
                /\ Cardinality({values[i] : i \in DOMAIN values}) = 1 =>
                       Same(forecast[2].value, <<values[1], 1>>)

(* A customer is activated in one range of days at most, and there it is   *)
(* one of those who bought, so that the rate is at most 1                  *)
(* (analytics.service.ts:618-702).                                         *)
ActivatedOnce ==
    \A range \in Asked :
        LET conversion == Conversion(range) IN
        /\ conversion.activated \subseteq conversion.customers
        /\ NoMore(conversion.activation, <<1, 1>>)
        /\ \A other \in Asked : other[1] > range[2] =>
               conversion.activated \cap Conversion(other).activated = {}

(* A day's velocity is no more than the value of the deals, even for deals *)
(* that close on the day they are made (analytics.service.ts:704-749).     *)
VelocityIsOfTheValue ==
    \A range \in Asked :
        LET pipeline == Pipeline(range) IN
        /\ NoMore(pipeline.winRate, <<1, 1>>)
        /\ NoMore(pipeline.velocity, <<pipeline.totalValue, 1>>)

(* No snapshot has a figure and the flag that no record supports it, and   *)
(* none without records is taken for a small sample of some                *)
(* (analytics.service.ts:831-940).                                         *)
FiguresHaveRecords ==
    \A range \in Asked : \A m \in {"cac", "ltv", "revenue", "churn"} :
        LET snapshot == Snapshot(range)[m] IN
        /\ snapshot.value # 0 => "no_supporting_records" \notin snapshot.flags
        /\ ledger = <<>> => snapshot.flags = {"no_supporting_records"}

(* What the audit expects of the rows of the day, the week and the month   *)
(* is what is computed, whichever day it runs on, but for the churn of a   *)
(* week or month that reaches into another month                           *)
(* (audit-aggregation.ts:287-397, 541-675).                                *)
AuditPasses ==
    audit # NoAudit => \A range \in PeriodRangeOn(audit.day) :
        LET expected == IF audit.mode = "rich" THEN RichExpected(audit.day)
                        ELSE StressExpected(audit.day)
        IN  /\ Same(CAC(range, {}, {}).cac, expected.cac)
            /\ \A factor \in {"perCustomer", "months"} :
                   Same(LTV(range)[factor], expected.ltv[factor])
            /\ Revenue(range).total = expected.revenue
            /\ MonthOf(range[1]) = MonthOf(range[2]) =>
                   Same(Churn(range).overall, expected.churn)

(* The metrics of different requests agree, and with the audit's.          *)
MetricsAddUp ==
    /\ ChurnIsOfItsMonths /\ SegmentsAreRequests /\ GrowthIsOverTheDaysBefore
    /\ ForecastGoesOn /\ ActivatedOnce /\ VelocityIsOfTheValue
    /\ FiguresHaveRecords /\ AuditPasses
===============================================================================

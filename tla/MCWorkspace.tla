---------------------------- MODULE MCWorkspace -----------------------------
(***************************************************************************)
(* Small instances of the parts of a workspace, and the casts to check.    *)
(***************************************************************************)
EXTENDS Workspace

CONSTANTS w1, w2, w3, d1, d2, s1, s2, s3, r1, v1, v2

MCCasts == {
    [part |-> "office", actors |-> {d1, d2, "customers"}],
    [part |-> "office", actors |-> {d1, d2, "customers", "conversions"}],
    [part |-> "office", actors |-> {d1, w3, "network"}],
    [part |-> "office", actors |-> {w1, w2, s1, "clock"}],
    [part |-> "office", actors |-> {w1, s1, s2, "clock", "network", "access"}],
    [part |-> "office", actors |-> {w1, w2, s1, s3}],
    [part |-> "office", actors |-> {w1, w3, "clock"}],
    [part |-> "alerts", actors |-> {w1, w2}],
    [part |-> "agents", actors |-> {w1, w2}],
    [part |-> "agents", actors |-> {w1, d1, d2}],
    [part |-> "experiments", actors |-> {w1, w2}],
    [part |-> "metrics", actors |-> {d1, d2, "customers"}],
    [part |-> "metrics", actors |-> {"daily", "customers", "clock"}],
    [part |-> "metrics", actors |-> {"weekly", "customers", "clock"}],
    [part |-> "accounts", actors |-> {v1, v2}],
    [part |-> "accounts", actors |-> {d1, d2}],
    [part |-> "imports", actors |-> {w1, w2}],
    [part |-> "analytics", actors |-> {"churn"}],
    [part |-> "analytics", actors |-> {"cac"}],
    [part |-> "analytics", actors |-> {"revenue"}],
    [part |-> "analytics", actors |-> {"conversion"}],
    [part |-> "analytics", actors |-> {"pipeline"}],
    [part |-> "analytics", actors |-> {"rich", "stress"}],
    [part |-> "insights", actors |-> {"days", "job", "scan", "rescan"}],
    [part |-> "insights", actors |-> {"days", "worker", "scan"}],
    [part |-> "insights", actors |-> {"hours", "job", "i1", "i2"}],
    [part |-> "market", actors |-> {"signals", "day"}],
    [part |-> "market", actors |-> {"rows", "benchmarks", "day"}],
    [part |-> "market", actors |-> {"growth"}],
    [part |-> "governance", actors |-> {d1, "activeIntegrationRatePct"}],
    [part |-> "governance", actors |-> {d1, "syncFailureRatePct", "weeks"}],
    [part |-> "governance", actors |-> {d1, "recommendationAdoptionRatePct", "targets"}],
    [part |-> "navigation", actors |-> {}],
    [part |-> "dashboard", actors |-> {}],
    [part |-> "copilot", actors |-> {d1, d2}],
    [part |-> "competitive", actors |-> {d1, d2}],
    [part |-> "competitive", actors |-> {"trends", "comparison"}],
    [part |-> "competitive", actors |-> {"w", "x"}],
    [part |-> "crawler", actors |-> {}] }

(* What must happen in the end, by the actors who work by themselves.     *)
MCWorkingCasts == {
    [part |-> "office", actors |-> {w1, s1, s2, "clock", "network"}],
    [part |-> "office", actors |-> {w1, s1, s2, "clock", "access"}],
    [part |-> "alerts", actors |-> {w1}],
    [part |-> "agents", actors |-> {w1, d1}],
    [part |-> "imports", actors |-> {w1, w2}],
    [part |-> "navigation", actors |-> {}],
    [part |-> "dashboard", actors |-> {}] }

(* One milestone opens the gate; three orders of requests overlap.         *)
MCBegun == {None, [s \in Steps |-> s = "create_first_order"]}
MCAsks == {[assignee |-> "nobody", source |-> 0],
           [order |-> 1, status |-> "CANCELED", state |-> "keep", assignee |-> "keep"],
           [message |-> 1, assignee |-> "nobody"],
           [message |-> 2, assignee |-> "nobody"],
           [message |-> 1, resolved |-> TRUE],
           [message |-> 1, provider |-> "sent"],
           [step |-> "create_first_order", completed |-> FALSE]}

(* An hourly report that may fail before a daily one of another            *)
(* organization, and one more of the same template with a higher limit.    *)
MCOrgOf == [a \in {d1, d2} |-> IF a = d1 THEN "o1" ELSE "o2"]
MCUserTemplates == {<<"o1", "operations_sla">>}
MCBroken == {<<"o1", "revenue_health">>}
MCTerms == [s \in {s1, s2, s3} |->
    CASE s = s1 -> [template |-> <<"o1", "revenue_health">>, cron |-> "HOURLY", limit |-> 1, creator |-> d1]
      [] s = s2 -> [template |-> <<"o2", "revenue_health">>, cron |-> "DAILY", limit |-> 1, creator |-> d2]
      [] s = s3 -> [template |-> <<"o1", "revenue_health">>, cron |-> "DAILY", limit |-> 2, creator |-> d1]]

MCRuleTerms == [r \in {r1} |-> [metric |-> "REVENUE", operator |-> "CHANGE_PCT", threshold |-> -2,
                                channels |-> {"sms:number"}]]
MCReadings == {-2, 1, 2}

MCWinnerTrace == [v \in Variants |-> v]
MCRanges == {<<1, 1>>, <<1, 2>>}
MCPeriodRange == [p \in Periods |-> [d \in Days |-> IF p = "daily" THEN <<d, d>> ELSE <<1, 2>>]]
MCFirstRoles == {[m \in Members |-> IF m = d1 THEN "OWNER" ELSE r] : r \in {"ADMIN", "VIEWER"}}

MCRolesForPath == [p \in {"/dashboard/settings"} |-> {"OWNER", "ADMIN"}]
MCRedirectOf == [p \in {"/settings"} |-> "/dashboard/settings"]

(* Records of every type, with numbers below, at and above what is valid:  *)
(* two orders of the same channels, another campaign, a stage that exists, *)
(* the same record twice, days too late.                                   *)
Spend(c, k, ns, d) ==
    [recordType |-> "marketingMetric", parent |-> c, child |-> k, numbers |-> ns, day |-> d]
Deal(p, stage, ns) ==
    [recordType |-> "salesPipelineEvent", parent |-> p, child |-> stage, numbers |-> ns, day |-> 0]
Refund(c, n) ==
    [recordType |-> "revenueEvent", parent |-> c, child |-> "REFUND", numbers |-> <<n>>, day |-> 0]
LoginOf(c) ==
    [recordType |-> "customerEvent", parent |-> c, child |-> "LOGIN", numbers |-> <<>>, day |-> 0]
Fine == <<2, 1, 0>>
MCBatches == {
    <<>>,
    <<Spend("a", "x", <<1, 2, 0>>, 0)>>,
    <<Spend("a", "x", Fine, 0), Spend("b", "x", Fine, 0), Spend("a", "x", Fine, 0)>>,
    <<Spend("b", "x", Fine, 0), Spend("a", "y", Fine, 0), Spend("a", "x", Fine, 2)>>,
    <<Deal("p", "lead", <<1, 50>>), Deal("p", "odd", <<1, 101>>), Deal("p", "LEAD", <<0, 0>>)>>,
    <<Deal("p", "odd", <<0, 0>>)>>,
    <<Refund("", 1), Refund("c", 0), Refund("C", 2), LoginOf("c"), LoginOf("")>> }
MCCustomerId ==
    [n \in RecordNames |-> CASE n = "" -> "external-customer" [] n = "C" -> "c" [] OTHER -> n]
MCUpperCase == [n \in RecordNames |-> IF n = "lead" THEN "LEAD" ELSE n]

(* Rows at both ends of the months and of the ranges that are asked for,   *)
(* on two sides of each, by day; the figures are the smallest that differ. *)
MCAsked == {<<29, 30>>, <<31, 31>>, <<30, 58>>, <<59, 59>>}
MCMetricRows == [
    churn |-> {CustomerRow("a", t) : t \in {57, 61, 117}}
        \cup {SubscriptionRow(s, 0, e) :
                  s \in {"ACTIVE", "CANCELED"}, e \in {58, 61, 62, 117, 118, NoEnd}},
    cac |-> {SpendRow(k, 2, n, d) : k \in {1, 2}, n \in {0, 1}, d \in {29, 31}}
        \cup {[SpendRow(1, 3, 1, d) EXCEPT !.channel = "b"] : d \in {30, 31}}
        \cup {CustomerRow(c, 61) : c \in {"audit", "b"}},
    revenue |-> {RevenueRow(c, a, k, d) :
                    c \in {1, NoCustomer}, a \in {1, 2}, k \in {"REFUND", "UPGRADE"},
                    d \in {28, 29, 30, 31, 59}},
    conversion |-> {EventRow(c, k, t) :
                       c \in {1, NoCustomer}, k \in {"PURCHASE", "SIGNUP", "PAGE_VIEW"},
                       t \in {60, 61, 62, 63, 118}},
    pipeline |-> {[table |-> "deal", stage |-> s, value |-> v, at |-> t, closed |-> c] :
                     s \in {"LEAD", "WON"}, v \in {1, 3}, t \in {60, 63}, c \in {NoEnd, 63, 70}}]

(* A week that goes up and down before a day far above it, and one that is *)
(* flat, each with a new day to come; summaries that lack a metric, data or growth.                  *)
Written(r, c) == [revenue |-> r, churn |-> c]
MCDailyHistories == {[d \in 0..7 |-> Written(IF d = 7 THEN 20 ELSE 10 + (d % 2), 0)],
                     [d \in {1, 2, 4, 5, 6} |-> Written(10, 1)]}
MCDailyRows == {Written(10, 1), Written(20, 0), Written(0, 0)}
MCBriefs == {
    [metrics |-> ms, dataPoints |-> n, growth |-> g, churn |-> c,
     ratio |-> 3000, cac |-> 1, leadRate |-> 300] :
        <<ms, n, g, c>> \in {<<{"cac", "revenue"}, 120, 0, 0>>, <<{"cac"}, 120, 0, 0>>,
                             <<{"cac", "revenue"}, 60, -300, 60>>,
                             <<{"cac", "revenue"}, 0, 0, 0>>}}

(* Signals with and without a source and notes; two organizations of an    *)
(* industry; windows one of which contains the other.                      *)
MCObserved == {
    [competitor |-> "c", type |-> "HIRING", source |-> TRUE, notes |-> "verified",
     written |-> {}],
    [competitor |-> "c", type |-> "AD_SPEND", source |-> FALSE, notes |-> "", written |-> {}],
    [competitor |-> "d", type |-> "HIRING", source |-> FALSE, notes |-> "seen", written |-> {50}]}
MCBenchmarkWindows == {<<0, 1>>, <<1, 1>>}
MCIndustryOf == [o \in {"o1", "o2"} |-> "x"]
MCLevers == [marketing : {-100, -90, 0, 50}, pricing : {-100, -20, 0, 90}, churn : {-30, -20, 0, 90},
             conversion : {-50, 0}, orderValue : {0, 10}]

(* Two thirds at least, and a little less than one third at most. *)
MCTargetTerms == {[operator |-> "gte", value |-> 6667], [operator |-> "lte", value |-> 3310]}

(* A page that finds one before another that is expected. *)
MCExpectedRoutes == <<"/dashboard", "/login">>
MCLinksOn == [r \in {"/login", "/dashboard", "/x", "/y"} |->
    CASE r = "/dashboard" -> {"/x", "/login"}
      [] r = "/x" -> {"/dashboard", "/y"}
      [] OTHER -> {"/dashboard"}]
MCWebhooks == <<"slack", "discord">>

(* How much of each kind the growth graph takes. *)
MCGraphTake == [metric |-> 1, recommendation |-> 3, experiment |-> 1, signal |-> 2]
MCGraphRows == [metric |-> 2, recommendation |-> 4, experiment |-> 2, signal |-> 3]
===============================================================================

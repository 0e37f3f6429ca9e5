------------------------------ MODULE Workspace ------------------------------
(***************************************************************************)
(* The parts of a workspace beside its billing and the queue of its syncs: *)
(* what its users work with in the API and in the browser.  The parts      *)
(* share the onboarding checklist, the recommendations and the plan, and   *)
(* otherwise no state, so that a behaviour is one of a cast: a part and    *)
(* the actors of it that are at work, together with what that part does by *)
(* itself.  Nothing of another part changes then.                          *)
(***************************************************************************)
EXTENDS Operations, Reports, AlertRules, Agents, Experiments, VerifiedMetrics,
        Members, Records, Analytics, Insights, Market, Governance,
        Navigation, Dashboard, Copilot, Competitive, Crawler

CONSTANT Casts      \* who may be at work: [part, actors] records

Part == {"office", "alerts", "agents", "experiments", "metrics", "accounts",
         "imports", "analytics", "insights", "market", "governance",
         "navigation", "dashboard", "copilot", "competitive", "crawler"}
(* What happens to a part from outside, as far as the cast has it happen.  *)
Outside == {"customers", "conversions", "clock", "network", "access"}

(* The trace of a winner begins with the word experiment, another with the *)
(* type of an agent or a date (experiments.service.ts:191,                 *)
(* agents.service.ts:59-65, analytics.service.ts:263-269).                 *)
ASSUME WorkspaceAssumption ==
    /\ \A c \in Casts : c.part \in Part
    /\ \A v \in Variants : WinnerTrace[v] \notin SummaryTraces \cup AgentTraces

VARIABLE cast       \* who is at work

orderVars == <<orders, messages, desk>>
reportVars == <<reports, schedules, last, reporters, gen, fired, clock, reportFaults>>
officeVars == <<checklist, orderVars, reportVars>>
experimentVars == <<experiment, req>>
runVars == <<runs, runlog>>
adviceVars == <<recVars, runVars, experimentVars>>
figureVars == <<analyticsVars, insightVars, marketVars, governanceVars>>
backVars == <<officeVars, alertVars, adviceVars, metricVars, memberVars, recordVars, figureVars>>
pageVars == <<navVars, dashboardVars, copilotVars, competitiveVars, crawlVars>>
workspaceVars == <<cast, backVars, pageVars>>

(* What a step of one part of the API leaves alone in the others.          *)
beyondOffice == <<alertVars, adviceVars, metricVars, memberVars, recordVars, figureVars>>
beyondAlerts == <<officeVars, adviceVars, metricVars, memberVars, recordVars, figureVars>>
beyondAdvice == <<officeVars, alertVars, metricVars, memberVars, recordVars, figureVars>>
beyondMetrics == <<officeVars, alertVars, adviceVars, memberVars, recordVars, figureVars>>
beyondAccounts == <<officeVars, alertVars, adviceVars, metricVars, recordVars, figureVars>>
beyondImports == <<officeVars, alertVars, adviceVars, metricVars, memberVars, figureVars>>
beyondFigures == <<officeVars, alertVars, adviceVars, metricVars, memberVars, recordVars>>

At(part, actors) == IF cast.part = part THEN actors \cap cast.actors ELSE {}
Happens(part, event) == event \in At(part, Outside)

(* A part that is not at work begins in one way; the schedules that there  *)
(* are at first belong to the cast.                                        *)
Settled(part, variable, values) ==
    cast.part # part => variable = CHOOSE v \in values : TRUE

WorkspaceInit ==
    /\ cast \in Casts
    /\ OpsInit /\ ReportsInit
    /\ Settled("office", checklist, Begun) /\ schedules = At("office", Schedules)
    /\ AlertsInit /\ Settled("alerts", reading, [UsedMetrics -> Readings])
    /\ AgentsInit /\ ExperimentsInit /\ VerifiedMetricsInit
    /\ MembersInit /\ Settled("accounts", role, FirstRoles)
    /\ RecordsInit
    /\ AnalyticsInit /\ MarketInit /\ GovernanceInit
    /\ InsightsInit /\ Settled("insights", daily, DailyHistories)
    /\ NavigationInit /\ Settled("navigation", cookie, {NoSession})
    /\ DashboardInit /\ Settled("dashboard", page.interval, RefreshIntervals)
    /\ CopilotInit /\ CompetitiveInit /\ CrawlerInit

-----------------------------------------------------------------------------
(* The parts that run in the API, and the pages *)

(* Bound: the requests of a cast are all of one order and one message, or  *)
(* they are conversions of as many messages as there may be.               *)
DeskAsks(r) ==
    IF Happens("office", "conversions") THEN AskCreateOrderFromMessage(r) ELSE OpsAsk(r)
DeskBound ==
    ~Happens("office", "conversions") => Len(orders') <= 1 /\ Len(messages') <= 1

OfficeStep ==
    \/ /\ \/ Happens("office", "customers") /\ CreateMessage
          \/ \E r \in At("office", Desks) : DeskAsks(r) \/ OpsStep(r)
       /\ DeskBound
       /\ UNCHANGED reportVars
    \/ /\ \/ \E c \in At("office", Clerks) : AskReport(c) \/ AskSchedule(c)
          \/ \E g \in At("office", Clerks \cup Tickers) : ReportWorks(g)
          \/ /\ Happens("office", "network")
             /\ ReportCrash \/ \E g \in At("office", Clerks \cup Tickers) : ReportCallFails(g)
          \/ Happens("office", "access") /\ AccessChanges
          \/ Happens("office", "clock") /\ ReportClock
       /\ UNCHANGED orderVars

AlertsStep ==
    \/ \E e \in At("alerts", Evaluations) : EvaluationWorks(e)
    \/ /\ cast.part = "alerts"
       /\ AlertsEnvironment

AdviceStep ==
    \/ /\ \/ \E r \in At("agents", Runners) : AskRun(r) \/ RunStep(r)
          \/ \E d \in At("agents", Deciders) : DecideStep(d) /\ UNCHANGED runVars
       /\ UNCHANGED experimentVars
    \/ /\ \/ cast.part = "experiments" /\ CreateExperiment
          \/ \E x \in At("experiments", Experimenters) : ExperimentStep(x)
       /\ UNCHANGED runVars

MetricsStep ==
    \/ Happens("metrics", "customers") /\ RecordArrives
    \/ Happens("metrics", "clock") /\ NextDay
    \/ \E v \in At("metrics", Viewers) : ViewStep(v)
    \/ \E p \in At("metrics", Periods) : JobStep(p)

AccountsStep ==
    \/ \E v \in At("accounts", Visitors) : VisitorStep(v)
    \/ \E m \in At("accounts", Members) : MemberStep(m)

ImportsStep == \E i \in At("imports", Importers) : ImportStep(i)

FiguresStep ==
    \/ /\ \E w \in At("analytics", cast.actors) : AnalyticsStep(w)
       /\ UNCHANGED <<insightVars, marketVars, governanceVars>>
    \/ /\ \E w \in At("insights", cast.actors) : InsightsStep(w)
       /\ UNCHANGED <<analyticsVars, marketVars, governanceVars>>
    \/ /\ \E w \in At("market", cast.actors) : MarketStep(w)
       /\ UNCHANGED <<analyticsVars, insightVars, governanceVars>>
    \/ /\ \E w \in At("governance", cast.actors) : GovernanceStep(w)
       /\ UNCHANGED <<analyticsVars, insightVars, marketVars>>

BackStep ==
    \/ OfficeStep /\ UNCHANGED beyondOffice
    \/ AlertsStep /\ UNCHANGED beyondAlerts
    \/ AdviceStep /\ UNCHANGED beyondAdvice
    \/ MetricsStep /\ UNCHANGED beyondMetrics
    \/ AccountsStep /\ UNCHANGED beyondAccounts
    \/ ImportsStep /\ UNCHANGED beyondImports
    \/ FiguresStep /\ UNCHANGED beyondFigures

CompetitiveStep ==
    \/ \E a \in At("competitive", Analysts) : FormStep(a)
    \/ At("competitive", Panels) # {} /\ PanelStep
    \/ At("competitive", Watches) # {} /\ WatchStep

PageStep ==
    \/ /\ cast.part = "navigation" /\ NavNext
       /\ UNCHANGED <<dashboardVars, copilotVars, competitiveVars, crawlVars>>
    \/ /\ cast.part = "dashboard" /\ DashboardNext
       /\ UNCHANGED <<navVars, copilotVars, competitiveVars, crawlVars>>
    \/ /\ \E c \in At("copilot", Chats) : CopilotStep(c)
       /\ UNCHANGED <<navVars, dashboardVars, competitiveVars, crawlVars>>
    \/ /\ CompetitiveStep
       /\ UNCHANGED <<navVars, dashboardVars, copilotVars, crawlVars>>
    \/ /\ cast.part = "crawler" /\ CrawlerStep
       /\ UNCHANGED <<navVars, dashboardVars, copilotVars, competitiveVars>>

WorkspaceNext ==
    /\ UNCHANGED cast
    /\ \/ BackStep /\ UNCHANGED pageVars
       \/ PageStep /\ UNCHANGED backVars

(* What goes on by itself.  A cast has one part, so that an actor who may  *)
(* work in several of them is one condition.                               *)
WorkOf(w) ==
    /\ UNCHANGED <<cast, pageVars>>
    /\ \/ /\ w \in At("office", Clerks \cup Tickers) /\ ReportWorks(w)
          /\ UNCHANGED <<orderVars, beyondOffice>>
       \/ /\ w \in At("alerts", Evaluations) /\ EvaluationWorks(w)
          /\ UNCHANGED beyondAlerts
       \/ /\ w \in At("agents", Runners) /\ RunStep(w)
          /\ UNCHANGED <<experimentVars, beyondAdvice>>
       \/ /\ w \in At("imports", Importers) /\ ImportGoesOn(w)
          /\ UNCHANGED beyondImports
TimePasses ==
    /\ UNCHANGED <<cast, pageVars, orderVars, beyondOffice>>
    /\ Happens("office", "clock") /\ ReportClock
BrowserWork ==
    /\ UNCHANGED <<cast, backVars, copilotVars, competitiveVars, crawlVars>>
    /\ \/ cast.part = "navigation" /\ NavStep /\ UNCHANGED dashboardVars
       \/ cast.part = "dashboard" /\ OldestSummaryAnswers /\ UNCHANGED navVars
WorkspaceFairness ==
    /\ \A w \in Clerks \cup Tickers \cup Evaluations \cup Runners \cup Importers :
           WF_workspaceVars(WorkOf(w))
    /\ WF_workspaceVars(TimePasses) /\ WF_workspaceVars(BrowserWork)

WorkspaceSafeSpec == WorkspaceInit /\ [][WorkspaceNext]_workspaceVars
WorkspaceSpec == WorkspaceSafeSpec /\ WorkspaceFairness

-----------------------------------------------------------------------------
(* Safety *)

(* Types; the other properties say what the parts promise. *)
WorkspaceTypeOK ==
    /\ cast \in Casts
    /\ OpsTypeOK /\ ReportsTypeOK
    /\ AlertsTypeOK /\ AgentsTypeOK /\ ExperimentsTypeOK
    /\ VerifiedMetricsTypeOK /\ MembersTypeOK /\ RecordsTypeOK
    /\ AnalyticsTypeOK /\ InsightsTypeOK /\ MarketTypeOK /\ GovernanceTypeOK
    /\ NavigationTypeOK /\ DashboardTypeOK /\ CopilotTypeOK /\ CompetitiveTypeOK
    /\ CrawlerTypeOK

(* A milestone is set or cleared by a request that is for that step;       *)
(* another step of the checklist changes only by a request whose copy of   *)
(* the checklist is stale, in whichever service it passes                  *)
(* (onboarding.service.ts:71-85).                                          *)
Saves(seen, step, s) == step = s \/ seen # checklist
MilestoneUnlessStale ==
    [][\A s \in Steps : checklist # None /\ checklist'[s] # checklist[s] =>
          \/ \E r \in Desks : /\ desk[r].pc = "save"
                              /\ Saves(desk[r].seen, Milestone(desk[r]), s)
          \/ \E c \in Clerks : /\ gen[c].pc = "save"
                               /\ Saves(gen[c].seen, "schedule_first_report", s)]_officeVars

(* What is read, changed and written back whole - the metadata of orders   *)
(* and messages, the checklist, the history of decisions - loses nothing   *)
(* but by a request whose copy is stale (operations.service.ts:213-260,    *)
(* recommendations.service.ts:64-116).                                     *)
NothingLostUnlessStale ==
    /\ FlowUnlessStale
    /\ NothingUndoneUnlessStale
    /\ MilestoneUnlessStale
    /\ NoDecisionLostUnlessStale

(* Reports and experiments go through their statuses in one direction, and *)
(* the arms of a running experiment stay as they are                       *)
(* (reports.service.ts:92-134, experiments.service.ts:113-283).            *)
LifeCyclesAreKept == CompletedIsFinal /\ LifeCycleUnlessOvertaken /\ AssignmentSticks

(* A workspace keeps an administrator and the settings that were saved,    *)
(* unless administrators demote themselves or each other                   *)
(* (admin.service.ts:38-72, 127-177).                                      *)
AccountsAreKept == LockedOutByOneselfOrOverlap /\ SavedSettingsStay

(* Whoever calls for a recommendation finds it on record, with a log that  *)
(* says how it went, and an experiment recommends none but a winner        *)
(* (recommendations.service.ts:148-243, agents.service.ts:38-135,          *)
(* experiments.service.ts:149-196).                                        *)
AdviceIsOnRecord ==
    OnceForEachCaller /\ PersistedIsThere /\ RunLogIsTrue /\ WinnersAreReal

(* Figures that are computed from the same rows in different ways agree,   *)
(* advice rests on them, and what is computed beside them counts the rows  *)
(* it is of.  Of a part that is not at work nothing is to be computed      *)
(* (analytics.service.ts:349-823, data-quality.service.ts:23-275,          *)
(* confidence-scoring.service.ts:21-161, competitive.service.ts:56-465,    *)
(* governance.service.ts:188-344).                                         *)
CalculationsHold ==
    /\ cast.part = "analytics" => MetricsAddUp
    /\ cast.part = "insights" => AdviceIsFounded
    /\ cast.part = "market" => MarketIsCounted
    /\ cast.part = "governance" => SuccessMetricsAreRates

(* In whichever order the answers come, no spinner stays, no second        *)
(* refresh loop runs, and the dashboard's status is that of the answer     *)
(* that came last (dashboard/page.tsx:55-137, useDashboard.ts:23-135); a   *)
(* panel is of its filter unless an older answer came after the newest,    *)
(* and what was filed is listed (competitive/page.tsx:338-491); the talk   *)
(* with the copilot is one of questions and answers                        *)
(* (copilot.service.ts:70-211).  It does not say that the dashboard's      *)
(* summary is of the newest request: nothing orders its answers            *)
(* (dashboard/page.tsx:67-75), and the summary is not modelled.            *)
PagesShowWhatIs ==
    /\ TalkIsKept
    /\ OneRefreshLoop /\ ShowsWhatGoesOn /\ SpinnerStops
    /\ FiledOnceByEach /\ SavedIsListed
    /\ PanelShowsItsFilter /\ PanelSpinnerStops /\ ResultsAreOfTheRules

(* The crawler of the quality gate walks through the whole site, takes none*)
(* of its own doings for a failure of it, lets nothing pass that it has    *)
(* not seen through, and a failure is told (ui_crawler.mjs:266-1506,       *)
(* notify-qa-gate-failure.mjs:36-289).                                     *)
GateIsSound ==
    /\ WalkIsThorough /\ OwnOutageIsNotCaptured /\ PassedMeansClean
    /\ NothingLeftRunning /\ FailureIsTold

-----------------------------------------------------------------------------
(* Liveness of the parts whose work does not begin in every cast *)

(* With a worker at work that fires the cron job, what is due of a template*)
(* that can be rendered is generated in the end, though reports before it  *)
(* fail, unless one is refused again and again (reports.service.ts:97,     *)
(* 259-343).                                                               *)
ServedAtWork == At("office", Tickers) # {} => ServedDespiteFailures

(* A user who opens a page stops being redirected, unless the cookie and   *)
(* the stored session disagree (middleware.ts:52-110).                     *)
RedirectsEndAtWork == cast.part = "navigation" => RedirectsEnd

(* What is due reaches its readers in the end: reports, as long as no      *)
(* creator of a schedule is without access for good, and alerts            *)
(* (reports.service.ts:259-343, alert-rules.service.ts:161-246).           *)
ServedInTheEnd == ServedAtWork /\ DeliveredInTheEnd

(* No run, import, redirect or refresh hangs (agents.service.ts:52-135,    *)
(* integration-sync.processor.ts:156-164, middleware.ts:48-116,            *)
(* dashboard/page.tsx:110-126).                                            *)
NothingGetsStuck == RunsEnd /\ ImportsEnd /\ RedirectsEndAtWork /\ RefreshesAgain
===============================================================================

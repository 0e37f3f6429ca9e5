------------------------------- MODULE Reports -------------------------------
(***************************************************************************)
(* ReportsService and ReportsScheduler: reports that users ask for or that *)
(* the ticks of a cron job generate for the schedules that are due.  A     *)
(* tick takes one schedule after the other, of all organizations; an error *)
(* that one of them throws ends the whole tick.  Ticks may overlap:        *)
(* another starts while one is late, or in another process.                *)
(*                                                                         *)
(* The operators named Bug... are faulty variants of definitions after     *)
(* them; no specification uses them.                                       *)
(***************************************************************************)
EXTENDS Onboarding, Sequences, FiniteSets

CONSTANTS
    Clerks,     \* user requests in progress at the same time
    Tickers,    \* ticks in progress at the same time
    Orgs,       \* the organizations
    HomeOrg,    \* the one whose onboarding is followed here
    Actors,     \* their users
    OrgOf,      \* the organization of each of them
    Schedules,  \* the schedules that may be created
    Terms,      \* [template, cron, limit, creator] of each of them
    UserTemplates, \* the templates that users ask for
    Broken,     \* the templates whose payload may fail to build
    Day,        \* half hours in a day
    MaxClock,   \* bound on the clock, in half hours
    MaxUserRuns,   \* bound on the runs that users ask for
    ReportFaults   \* bound on failing calls and crashes

Cron == {"HOURLY", "DAILY", "WEEKLY"}
(* A report is of a template of an organization: the rows of both tables   *)
(* have an organization_id and a template and are sought by both.          *)
Template == Orgs \X {"executive_summary", "revenue_health", "operations_sla"}

ASSUME ReportsAssumption ==
    /\ Terms \in [Schedules -> [template : Template, cron : Cron, limit : Nat, creator : Actors]]
    /\ HomeOrg \in Orgs /\ OrgOf \in [Actors -> Orgs]
    /\ \A s \in Schedules : Terms[s].template[1] = OrgOf[Terms[s].creator]
    /\ UserTemplates \cup Broken \subseteq Template
    /\ Day \in Nat \ {0} /\ MaxClock \in Nat /\ MaxUserRuns \in Nat
    /\ ReportFaults \in Nat
    /\ Clerks \cap Tickers = {}
    /\ IsFiniteSet(Tickers) /\ Tickers # {}
    /\ None \notin Nat /\ None \notin Schedules /\ None \notin Template
    /\ "schedule_first_report" \in Steps

VARIABLES
    reports,    \* the rows of report_runs
    schedules,  \* the schedules that were created
    last,       \* last_triggered_at of each of them
    reporters,  \* who may generate reports: plan and role of the actor
    gen,        \* what each request or tick is doing
    fired,      \* the half hour in which each tick last started
    clock,      \* half hours since some midnight
    reportFaults

repVars == <<checklist, reports, schedules, last, reporters, gen, fired, clock, reportFaults>>

ReportStatus == {"QUEUED", "RUNNING", "COMPLETED", "FAILED"}
Report == [template : Template, status : ReportStatus, by : {"user", "cron"}, day : Nat]
LastTriggered == Nat \cup {None}

GenPc == {"idle", "gate", "insertSchedule", "mark", "save", "next", "access",
          "create", "running", "build", "complete", "fail", "reread", "trigger",
          "dispatch"}
(* on is the schedule that is made or run; todo and rows are the rows that *)
(* the tick read when it started, at that time; run is the id of its run.  *)
Gen == [pc : GenPc, on : Schedules \cup {None}, template : Template \cup {None},
        todo : SUBSET Schedules, rows : [Schedules -> LastTriggered] \cup {None},
        at : Nat, run : Nat, seen : Checklist \cup {None}]
IdleGen == [pc |-> "idle", on |-> None, template |-> None, todo |-> {},
            rows |-> None, at |-> 0, run |-> 0, seen |-> None]

ReportsTypeOK ==
    /\ OnboardingTypeOK
    /\ reports \in Seq(Report)
    /\ schedules \subseteq Schedules
    /\ last \in [Schedules -> LastTriggered]
    /\ reporters \subseteq Actors
    /\ gen \in [Clerks \cup Tickers -> Gen]
    /\ fired \in [Tickers -> Nat \cup {None}]
    /\ clock \in 0..MaxClock
    /\ reportFaults \in 0..ReportFaults

ReportsInit ==
    /\ OnboardingInit
    /\ reports = <<>>
    /\ schedules \in SUBSET Schedules
    /\ last = [s \in Schedules |-> None]
    /\ reporters = Actors
    /\ gen = [g \in Clerks \cup Tickers |-> IdleGen]
    /\ fired = [t \in Tickers |-> None]
    /\ clock = 0
    /\ reportFaults = 0

-----------------------------------------------------------------------------

Moves(g, pc) == gen' = [gen EXCEPT ![g].pc = pc]
Stops(g) == gen' = [gen EXCEPT ![g] = IdleGen]
GenOnly == UNCHANGED <<checklist, reports, schedules, last, reporters, fired, clock, reportFaults>>
RowOnly == UNCHANGED <<checklist, schedules, last, reporters, fired, clock, reportFaults>>

(* POST /reports/generate *)
AskReport(c) ==
    /\ gen[c].pc = "idle"
    /\ Cardinality({i \in DOMAIN reports : reports[i].by = "user"}) < MaxUserRuns
    /\ \E t \in UserTemplates :
           gen' = [gen EXCEPT ![c] = [IdleGen EXCEPT !.pc = "access", !.template = t]]
    /\ GenOnly

(* POST /reports/schedules: the access of its actor, then the gate.  Bound:*)
(* users of HomeOrg ask; other organizations have theirs from the start.   *)
AskSchedule(c) ==
    /\ gen[c].pc = "idle"
    /\ \E s \in Schedules :
           /\ s \notin schedules /\ Terms[s].template[1] = HomeOrg
           /\ Terms[s].creator \in reporters
           /\ gen' = [gen EXCEPT ![c] = [IdleGen EXCEPT !.pc = "gate", !.on = s]]
    /\ GenOnly

PassReportGate(c) ==
    /\ gen[c].pc = "gate"
    /\ RowFound
    /\ IF GateOpen(checklist) THEN Moves(c, "insertSchedule") ELSE Stops(c)
    /\ GenOnly

MakeReportRow(c) ==
    /\ gen[c].pc \in {"gate", "mark"}
    /\ InsertRow
    /\ UNCHANGED <<reports, schedules, last, reporters, gen, fired, clock, reportFaults>>

InsertSchedule(c) ==
    /\ gen[c].pc = "insertSchedule"
    /\ schedules' = schedules \cup {gen[c].on}
    /\ Moves(c, "mark")
    /\ UNCHANGED <<checklist, reports, last, reporters, fired, clock, reportFaults>>

ReadForSchedule(c) ==
    /\ gen[c].pc = "mark"
    /\ RowFound
    /\ gen' = [gen EXCEPT ![c].pc = "save", ![c].seen = checklist]
    /\ GenOnly

SaveForSchedule(c) ==
    /\ gen[c].pc = "save"
    /\ SaveStep(gen[c].seen, "schedule_first_report", TRUE)
    /\ Stops(c)
    /\ UNCHANGED <<reports, schedules, last, reporters, fired, clock, reportFaults>>

-----------------------------------------------------------------------------

(* The cron job fires every half hour, also while an earlier tick is late. *)
(* runDueSchedules reads the active schedules, in no order, and the time.  *)
(* Bound: after MaxClock the half hours go by uncounted.                   *)
StartTick(t) ==
    /\ gen[t].pc = "idle"
    /\ fired[t] # clock \/ clock = MaxClock
    /\ fired' = [fired EXCEPT ![t] = clock]
    /\ gen' = [gen EXCEPT ![t] = [IdleGen EXCEPT
                   !.pc = "next", !.todo = schedules, !.rows = last, !.at = clock]]
    /\ UNCHANGED <<checklist, reports, schedules, last, reporters, clock, reportFaults>>

Period(cron) ==
    CASE cron = "HOURLY" -> 2 [] cron = "DAILY" -> Day [] cron = "WEEKLY" -> 7 * Day

BugNotDueYet(s, rows, at) ==
    rows[s] # None /\ at >= rows[s] + Period(Terms[s].cron)

(* isScheduleDue *)
IsScheduleDue(s, rows, at) ==
    rows[s] = None \/ at >= rows[s] + Period(Terms[s].cron)

Today(template) == {i \in DOMAIN reports : /\ reports[i].template = template
                                           /\ reports[i].day = clock \div Day}

BugLimit(s) == Cardinality(Today(Terms[s].template)) <= Terms[s].limit

WithinLimit(s) == Cardinality(Today(Terms[s].template)) < Terms[s].limit

(* One turn of the loop: a schedule that is not due, or whose limit for    *)
(* the day is reached, is passed over; another is generated.               *)
NextSchedule(t) ==
    /\ gen[t].pc = "next"
    /\ \E s \in gen[t].todo :
           LET left == [gen[t] EXCEPT !.todo = @ \ {s}]
           IN  gen' = [gen EXCEPT ![t] =
                   IF IsScheduleDue(s, gen[t].rows, gen[t].at) /\ WithinLimit(s)
                   THEN [left EXCEPT !.pc = "access", !.on = s, !.template = Terms[s].template]
                   ELSE left]
    /\ GenOnly

EndTick(t) ==
    /\ gen[t].pc = "next" /\ gen[t].todo = {}
    /\ Stops(t)
    /\ GenOnly

-----------------------------------------------------------------------------

(* generateReport, for a user or for a tick.                               *)
MayReport(g) == IF g \in Tickers THEN Terms[gen[g].on].creator \in reporters
                ELSE \E a \in reporters : OrgOf[a] = gen[g].template[1]

(* assertReportAccess; a refusal is thrown. *)
AccessReport(g) ==
    /\ gen[g].pc = "access"
    /\ IF MayReport(g) THEN Moves(g, "create") ELSE Stops(g)
    /\ GenOnly

CreateRun(g) ==
    /\ gen[g].pc = "create"
    /\ reports' = Append(reports, [template |-> gen[g].template, status |-> "QUEUED",
                                   by |-> IF g \in Tickers THEN "cron" ELSE "user",
                                   day |-> clock \div Day])
    /\ gen' = [gen EXCEPT ![g].pc = "running", ![g].run = Len(reports) + 1]
    /\ RowOnly

SetRun(g, status) == reports' = [reports EXCEPT ![gen[g].run].status = status]

StartRun(g) ==
    /\ gen[g].pc = "running"
    /\ SetRun(g, "RUNNING")
    /\ Moves(g, "build")
    /\ RowOnly

(* buildPayload reads the analytics and the queues, or throws. *)
BuildPayload(g) ==
    /\ gen[g].pc = "build"
    /\ \/ Moves(g, "complete")
       \/ gen[g].template \in Broken /\ Moves(g, "fail")
    /\ GenOnly

CompleteRun(g) ==
    /\ gen[g].pc = "complete"
    /\ SetRun(g, "COMPLETED")
    /\ Moves(g, "reread")
    /\ RowOnly

BugFailureSwallowed(g) ==
    /\ gen[g].pc = "fail"
    /\ SetRun(g, "FAILED")
    /\ IF g \in Tickers THEN Moves(g, "trigger") ELSE Stops(g)
    /\ RowOnly
BugFailureNotStored(g) ==
    /\ gen[g].pc = "fail"
    /\ Stops(g)
    /\ GenOnly

(* The catch block; then the error is thrown again. *)
FailRun(g) ==
    /\ gen[g].pc = "fail"
    /\ SetRun(g, "FAILED")
    /\ Stops(g)
    /\ RowOnly

(* getRun: its promise is returned, not awaited, so that the catch block   *)
(* does not see it fail.                                                   *)
RereadRun(g) ==
    /\ gen[g].pc = "reread"
    /\ IF g \in Tickers THEN Moves(g, "trigger") ELSE Stops(g)
    /\ GenOnly

TriggerSchedule(t) ==
    /\ gen[t].pc = "trigger"
    /\ last' = [last EXCEPT ![gen[t].on] = clock]
    /\ Moves(t, "dispatch")
    /\ UNCHANGED <<checklist, reports, schedules, reporters, fired, clock, reportFaults>>

DispatchReport(t) ==
    /\ gen[t].pc = "dispatch"
    /\ gen' = [gen EXCEPT ![t] = [@ EXCEPT !.pc = "next", !.on = None,
                                           !.template = None, !.run = 0]]
    /\ GenOnly

-----------------------------------------------------------------------------

(* A call fails: within the try block of generateReport the run becomes    *)
(* FAILED; elsewhere the request or the whole tick ends.                   *)
InTry == {"running", "build", "complete"}

BugRereadInTry(pc) == IF pc \in InTry \cup {"reread"} THEN "fail" ELSE "idle"

AfterFailure(pc) == IF pc \in InTry THEN "fail" ELSE "idle"
ReportCallFails(g) ==
    /\ gen[g].pc # "idle"
    /\ reportFaults < ReportFaults
    /\ reportFaults' = reportFaults + 1
    /\ IF AfterFailure(gen[g].pc) = "fail" THEN Moves(g, "fail") ELSE Stops(g)
    /\ UNCHANGED <<checklist, reports, schedules, last, reporters, fired, clock>>

ReportCrash ==
    /\ reportFaults < ReportFaults
    /\ reportFaults' = reportFaults + 1
    /\ gen' = [g \in DOMAIN gen |-> IdleGen]
    /\ UNCHANGED <<checklist, reports, schedules, last, reporters, fired, clock>>

(* A role, or the plan of an organization, changes. *)
AccessChanges ==
    /\ \E a \in Actors :
           reporters' = IF a \in reporters THEN reporters \ {a} ELSE reporters \cup {a}
    /\ UNCHANGED <<checklist, reports, schedules, last, gen, fired, clock, reportFaults>>

ReportClock ==
    /\ clock < MaxClock
    /\ clock' = clock + 1
    /\ UNCHANGED <<checklist, reports, schedules, last, reporters, gen, fired, reportFaults>>

ClerkStep(c) ==
    \/ PassReportGate(c) \/ MakeReportRow(c) \/ InsertSchedule(c)
    \/ ReadForSchedule(c) \/ SaveForSchedule(c)
TickStep(t) ==
    \/ StartTick(t) \/ NextSchedule(t) \/ EndTick(t)
    \/ TriggerSchedule(t) \/ DispatchReport(t)
GenerateStep(g) ==
    \/ AccessReport(g) \/ CreateRun(g) \/ StartRun(g) \/ BuildPayload(g)
    \/ CompleteRun(g) \/ FailRun(g) \/ RereadRun(g)

ReportWorks(g) ==
    \/ g \in Clerks /\ ClerkStep(g)
    \/ g \in Tickers /\ TickStep(g)
    \/ GenerateStep(g)

ReportsNext ==
    \/ \E c \in Clerks : AskReport(c) \/ AskSchedule(c)
    \/ \E g \in Clerks \cup Tickers : ReportWorks(g) \/ ReportCallFails(g)
    \/ ReportCrash \/ AccessChanges \/ ReportClock

(* Time goes on, the cron job fires in the half hours, and what is in      *)
(* progress goes on.                                                       *)
ReportsFairness ==
    WF_repVars(ReportClock) /\ \A g \in Clerks \cup Tickers : WF_repVars(ReportWorks(g))

ReportsSpec == ReportsInit /\ [][ReportsNext]_repVars
ReportsFairSpec == ReportsSpec /\ ReportsFairness

-----------------------------------------------------------------------------
(* Properties *)

(* The scheduled runs of a template on a day exceed the largest limit of   *)
(* its schedules by at most one for each tick that overlaps another: the   *)
(* count and the INSERT are two calls (reports.service.ts:300-322).        *)
ScheduledWithinLimit ==
    \A s \in Schedules, d \in {reports[i].day : i \in DOMAIN reports} :
        LET t == Terms[s].template
        IN  (\A s2 \in Schedules : Terms[s2].template = t => Terms[s2].limit <= Terms[s].limit) =>
            Cardinality({i \in DOMAIN reports : /\ reports[i].by = "cron"
                                                /\ reports[i].template = t
                                                /\ reports[i].day = d})
                <= Terms[s].limit + Cardinality(Tickers) - 1

(* A schedule counts as triggered only if a run that the cron job made for *)
(* its template was completed: a failed run leaves it due                  *)
(* (reports.service.ts:314-323).                                           *)
TriggeredMeansCompleted ==
    \A s \in Schedules : last[s] # None =>
        \E i \in DOMAIN reports : /\ reports[i].by = "cron"
                                  /\ reports[i].template = Terms[s].template
                                  /\ reports[i].status = "COMPLETED"

(* While no call failed and nothing crashed, a run that is not finished is *)
(* being generated (reports.service.ts:102-133).                           *)
UnfinishedIsInProgress ==
    reportFaults = 0 =>
        \A i \in DOMAIN reports : reports[i].status \in {"QUEUED", "RUNNING"} =>
            \E g \in DOMAIN gen : gen[g].run = i

(* What was completed stays so, whatever fails after it: the export of a   *)
(* run whose link was sent does not become empty                           *)
(* (reports.service.ts:102-133).                                           *)
CompletedIsFinal ==
    [][\A i \in DOMAIN reports : reports[i].status = "COMPLETED" =>
           reports'[i] = reports[i]]_repVars

(* If no schedule of any organization is refused from some time on, one    *)
(* that is due is run, or its limit for the day reached, even if others    *)
(* fail in every tick and end it: each failure leaves a run that counts    *)
(* against the limit, after which the failing schedule is passed over, on  *)
(* a day of more ticks than those limits.  A refusal leaves no run, so     *)
(* that as long as one lasts the schedules after it may never be reached   *)
(* (reports.service.ts:97, 284-336).                                       *)
NoneRefused == \A s \in schedules : Terms[s].creator \in reporters
Due(s) == s \in schedules /\ IsScheduleDue(s, last, clock)
ServedDespiteFailures ==
    \A s \in Schedules : Terms[s].template \notin Broken =>
        (<>[]NoneRefused => (Due(s) ~> (~Due(s) \/ ~WithinLimit(s))))

(* What the rows of reports and schedules say is what was done, however    *)
(* ticks, requests, failing calls and crashes overlap                      *)
(* (reports.service.ts:92-134, 259-343).                                   *)
ReportsAreAccountedFor ==
    ScheduledWithinLimit /\ TriggeredMeansCompleted /\ UnfinishedIsInProgress
===============================================================================

# Formal models of RevEnew OS

TLA+ models of the parts of this repository whose state several actors change
(HTTP requests, provider webhooks, cron jobs, queue workers, a browser's timers
and answers), of the calculations behind its figures, and of the quality gate in
`scripts/`, with TLC runs on small instances and TLAPS proofs for all values of
the constants. Paths below are relative to `apps/api/src` unless they start at
the repository's root (`apps/web/...`, `scripts/...`, `docs/...`).

    tlc -workers 2 -config MCWorkspace.cfg MCWorkspace.tla
    tlc -workers 2 -config MCLifecycleConcurrent.cfg MCSubscriptionLifecycle.tla
    tlapm OfficeProofs.tla

`PROJECT.json` lists components, runs, mutants, the source lines of every
definition, findings, hazards and theorems.

## 1. Inventory

All state of the API is in Postgres (through Prisma), in Redis (BullMQ's queue
`integration-sync`) and, for connectors, in the memory of a process. A service
method is a sequence of awaited calls. One Prisma call is atomic; only
registration and `persistRecords` open a transaction. So between two awaited
calls of one request any other request, job or cron tick may run, and a failed
call or a restart leaves behind what was written before it. In the browser the
same holds of effects, timers and answers: nothing cancels a request that an
older state of the page sent.

| component | state | operations | interacts with | what is hard | what makes it correct |
|---|---|---|---|---|---|
| Subscriptions `billing/subscription.service.ts` | `Subscription`, `RevenueEvent` | subscribe, renew, change plan, cancel | invoices, payments | read-then-write by id, no transaction | one current subscription, no period billed twice, revenue backed by invoices, the ledger adds up |
| Invoices `billing/invoice.service.ts` | `Invoice` | count, then insert; mark paid | subscriptions, payments | a number counted in one call and used in another | numbers 1..n without gap or repetition |
| Payments, webhooks `billing/payment.service.ts` | `Payment`, `WebhookEvent` | open a charge, verify, process a webhook | provider, subscriptions, invoices | redelivery, overlapping deliveries, a restart between the writes, late results | paid only if collected; acknowledged means paid; the books follow the provider |
| Integrations `integrations/`, `workers/`, `scheduler/`, `connectors/` | `Integration`, `IntegrationCredential`, sync logs, the queue, connector objects | connect, disconnect, enqueue, sync job | provider API, OAuth server | shared connector objects, retries, crashes, retained jobs | one sync at a time, each ingestion of a job explained, no status left behind, jobs end |
| Records of a sync `workers/processors/integration-sync.processor.ts` | campaigns, metrics, deals, customers, events | validate, drop duplicates, file in one transaction | analytics, data quality | concurrent upserts, row locks, deadlocks, calls that fail after the commit | a batch is filed whole or not at all, its log is right about it, and each import ends |
| Operations `operations/` | orders and messages in `CustomerEvent.metadata` | create, status, assign, resolve, message to order, provider events | onboarding | metadata read and written back whole | legal statuses, links that hold both ways, no lost update |
| Onboarding `onboarding/` | the checklist, one JSON row | mark a step, the gate | operations, reports, billing | the checklist is read and written back whole | a reached milestone stays reached |
| Alert rules `notifications/` | `AlertRule`, `AlertEvent` | evaluate (cron and request), look for a recent event, dispatch | analytics, providers of e-mail and SMS | overlapping evaluations, a 30-minute window | nothing withheld that was not told, told once a window and evaluation, told in the end |
| Reports `reports/` | `report_schedules`, `report_runs` | generate, run what is due, review | notifications, plan, onboarding | count then create; one failing report ends the tick for all organizations | the daily limit, rows that say what was done, due reports served although others fail |
| Recommendations, agents `recommendations/`, `agents/` | `Recommendation`, `AgentExecutionLog` | change a status, persist by trace, run with retries | Python agents, executive summary | history read and written back, check then create | one recommendation a caller, true logs, full history |
| Experiments `experiments/` | experiment, variants, results, assignments | create, add variant, launch, record, complete, pause, assign | recommendations | check then write | a life cycle in one direction, stable arms, only winners recommended |
| Plan and administration `billing/billing-access.service.ts`, `admin/`, `auth/` | plan limits, roles, settings, accounts | check a feature, register, change a role, save settings | everything | check then write | accounts belong to who registered them, an administrator stays, settings stay |
| Analytics `analytics/` | snapshots, aggregates | metrics over a range, nightly jobs, confidence, executive summary, audit script | all tables | the ends of ranges, overlapping upserts | the same rows counted two ways agree; views show the newest figures |
| Data quality `data-quality/` | anomaly events | scan, log, resolve | syncs, confidence | overlapping scans, z-scores, expiry | advice rests on what the scores say |
| Competitive, benchmarking, forecasting, growth `competitive/`, ... | signals, benchmarks | file, compare, aggregate, simulate | analytics | windows, empty denominators | counts of the rows they are of |
| Governance `governance/` | targets, reviews, quality gates | set, list, success metrics | rows of integrations, syncs, recommendations | a rate's two counts are two queries | rates and verdicts that fit the rows, unless rows were written meanwhile |
| Copilot `copilot/` | conversation | chat | a language model | overlapping chats, failing calls | a talk of questions and answers |
| Web `apps/web/` | cookie, storage, React state | redirect, load, refresh, filter, submit | the API | answers in any order, two records of one session | no spinner or second refresh loop stays, refreshes go on, redirects end |
| Quality gate `scripts/ui_crawler.mjs`, `scripts/notify-qa-gate-failure.mjs` | findings, services it started, the verdict | crawl, click, probe, judge, tell | web, API, chat webhooks | its own probes look like failures; what throws between start and verdict | a walk through the whole site, nothing passes unseen, failures are told |

Not modelled: the connectors of single providers (`src/integrations` of the
repository's root), the Python agents (stateless), governance's
program controls (counts of rows), and the pages of the web application that load once and
render. `PROJECT.json` gives each reason.

## 2. Modules

| module | models |
|---|---|
| `BillingTables` | the billing tables, the clock and the provider's record of each charge |
| `SubscriptionLifecycle` | `SubscriptionService` and the invoice and payment creation it calls |
| `PaymentReconciliation` | `PaymentService.verifyPayment` and `processWebhook` |
| `Settlement` | abstract: what billing promises about payments; `PaymentReconciliation` implements it |
| `Billing` | both billing components over the same tables (`INSTANCE` of each) |
| `IntegrationSync` | `IntegrationsService`, the scheduler, `IntegrationSyncProcessor`, the connector base class |
| `BillingAccess` | what a plan gives access to |
| `Onboarding` | the checklist and the gate; its steps are parts of actions of the next two |
| `Operations` | `OperationsService`: orders and messages |
| `Reports` | `ReportsService` and `ReportsScheduler` |
| `AlertRules` | `AlertRulesService`, its scheduler, `NotificationsService`'s deliveries |
| `Recommendations`, `Agents`, `Experiments` | persisting and deciding on recommendations, agent runs, experiments |
| `VerifiedMetrics` | snapshots, views and the nightly jobs |
| `Members` | registration, roles, settings |
| `Records` | what a sync does with its records, over a database with locks |
| `Analytics` | the metrics of `AnalyticsService` and the script that audits them |
| `Insights` | the anomaly scan, confidence scores, the executive summary and its guardrails |
| `Market` | signals, benchmarks, scenarios, the growth graph |
| `Aggregates` | the sums and the order of values that `Analytics` and `Market` compute with |
| `Governance` | the success metrics and their targets (governance's writes are in `Members`) |
| `Navigation` | the middleware, the shell's guards and the login page |
| `Dashboard`, `Competitive` | the two pages with timers, panels and forms (`Competitive` with the service that files signals) |
| `Copilot` | `CopilotService.chat` and its page |
| `Crawler` | the quality gate and its notification |
| `Workspace` | all parts from `Onboarding` on, composed |
| `...Proofs` | theorems and their proofs; which module has which is in section 5 |
| `MC...` | TLC instances: prices, provider functions, batches, rows, pages, casts |

### Correspondence

**One action is one awaited call**, together with the code up to the next one. A
request in progress is a record (`req[h]`, `work[w]`, `desk[r]`, `gen[g]`,
`eval[e][r]`, `runs[r]`, ...) with a `pc` naming its next call and the values its
earlier calls returned, as the handler's local variables hold them. Rows that are
only added are sequences, and an id is a position. What a failed call leaves
behind is what a restart leaves behind: the request ends, its writes stay.

*SubscriptionLifecycle.* `Subscribe`, `Renew`, `ChangePlan`, `Cancel` are the
first reads; `CreateSubscription`, `ExtendPeriod`, `SwitchPlan`,
`EndSubscription` the writes; `NumberInvoice`, `InsertInvoice`, `RejectInvoice`
the invoice (the last is a broken unique constraint); `CreatePayment`,
`Checkout` the payment; `Recognise` the revenue event. Prices are small numbers
that keep the order of `BILLING_PLAN_PRICES`; time is in months.

*PaymentReconciliation.* `Verify` and `Deliver` start a request. A delivery looks
its event up, marks it `PROCESSING`, runs the verification (`AskProvider`,
`FindPayment`, `SettlePayment`, `MarkInvoicePaid`, `Activate`, or
`RefusePayment`, `MarkPastDue`) or cancels, then `MarkProcessed`; an error inside
the `try` leads to `MarkFailed`. An event is its kind and its reference, which is
how `resolveEventId` names it. The provider is external: `charge` is its record.

*Settlement* is what remains when the handlers are taken away: a charge is
settled once; a payment is booked as its charge was settled, or as pending; an
invoice is received only for a collected charge, and stays so; a subscription's
standing follows a charge of its own or a cancellation. The mapping takes the
payments' statuses as `booked`, the PAID invoices as `received` and the
subscriptions' statuses as `standing`. `booked` may go back to PENDING: a
verification that asked before the charge was settled overwrites the SUCCESS of a
later one (`payment.service.ts:97`). That is why only the provider and the
invoices are final in the abstract specification.

*IntegrationSync.* `Connect`, `StoreCredential`, `Authenticate`, `LogConnection`
are `connect`; `AskSync` and `AddJob` are `enqueueSync`; `Lookup` to
`ReportIssue` are `process`, `SetError` and `LogError` its failure paths.
`held[p][provider]` is the connector object of a process for a provider. BullMQ
is external: an `add` whose `jobId` is still known adds nothing; finished jobs
stay known until newer ones push them out; a thrown error leads to another
attempt while there is one; the job of a process that died is stalled: it is
taken again the first time, and fails the second (`maxStalledCount` is 1). A
token may be empty, and a sync without one is refused. `batches` and `reopened`
are history: how often the current job ingested its data, and how many connects
wrote ACTIVE since it first did.

*Records.* `Accepted` is what validation and the search for duplicates leave of a
batch; the rest is one transaction that takes the accepted records in order:
`UpsertParent`, `FindChild`, `CreateChild`, `InsertFact`, `Commit`. After the
commit come the update of the integration, the log and the log of rejected
records, each a step that may fail: the same handler then logs FAILED of rows
that are stored (`late`). A customer is found by a normalised id (`CustomerId`:
several ids are one customer, no id is one as well), the stage of a deal by its
name in upper case. The database is external: Read Committed, row locks to the
end, unique indexes, a victim for each deadlock.

*Operations, Onboarding, Reports.* An order's or message's metadata is a record
that a request copies (`copy`) and writes back. The checklist is one function;
a request that marks a step has its copy in `seen`, so that the
same steps lose milestones in either service. A template is that of an
organization. A tick of the cron job takes the due schedules of *all*
organizations one after the other; a schedule whose creator has no access
is refused before it has a run, and ends the tick as a failing one does. The job
fires once in each half hour (`fired`), and over and over in the last one, which
stands for all the half hours of one more day; a clerk generates on demand.

*AlertRules.* An evaluation has a `pc` for each active rule, since
`Promise.all` runs them at once (one that throws rejects the answer, the others
go on). Of a rule's events only the newest SENT
one is ever read, so it is kept, with its age in quarters of an hour. `told` and
`burst` are ghosts: what was delivered since the rule was created, and how often
the newest value was in its window. Readings and thresholds are integers, as a
relative change is compared by its magnitude.

*Recommendations, Agents, Experiments.* `persist[p]` is what a caller does in
`persistAuditableRecommendation`; agent runs, the executive summary and a
completed experiment start it and go on when it is over.

*VerifiedMetrics, Analytics, Insights, Market* are mostly operators: each formula
of the code over a bag of rows, with the ends of ranges as the code widens them.
Actions add a row, pass a day, run a job or a summary. A scan for anomalies is a
request of its own with the lookback its caller asked for: it reads its rows
in one step and upserts the event of each metric in another, and two may
overlap. Notes of a signal say what markers the user wrote into them
(`written`), as a marker that is there keeps the code from adding its own. Rates
are fractions, factors thousandths, months their first days.

*Governance.* A request for the success metrics issues all its counts at once: a
rate's two counts are two steps in any order, with rows written between them.
`AddSubject` and `ChangeSubject` are what the other services do to these rows.

*Navigation, Dashboard, Competitive, Copilot.* A browser's state and the requests
under way; an answer is delivered in any order, as nothing aborts a request.
`lib/auth` and `lib/access-control` are imported but not in the repository: the
session, the storage and the roles of a path are external constants.

*Crawler.* The queue of routes, the findings, the services it started, the phase
of the script, and the notification, which may be told of several webhooks. A
service may fail to be spawned before the others are (`StartThrows`), which is
before the `try` that stops them; a page may be slow and then fail.

Definitions named `Bug...` are faulty variants of the definition they precede.
No specification uses them: they are there to show that each property can fail.

### Workspace: casts

The parts in `Workspace` share the checklist, the recommendations and the plan,
and otherwise no state. Exploring every interleaving of parts that cannot see
each other would show nothing, so a behaviour has a **cast**: one part and the
two or three actors of it that are at work; nothing else moves. `MCCasts` has 39
of them, chosen so that every pair of actors that share a row meets in some cast
and every kind of fault in another; `MCWorkingCasts` has the seven whose actors
must get something done. `cast` never changes.

## 3. Runs

| run | shows |
|---|---|
| `lifecycle_concurrent` | two overlapping billing requests, any call may fail: invoice numbers of a month are 1..n, every payment belongs to an invoice of its own subscription, recognised revenue is backed by an invoice of its own |
| `lifecycle_sequential` | two organizations, requests one after the other, nothing failing: one current subscription, no period billed twice, nothing half done, the ledger adds up to the current price, canceled stays canceled |
| `reconciliation` | two overlapping verify or webhook requests and one failed call or restart: paid only if collected; acknowledged means paid as long as nothing failed; every event is acknowledged in the end; the whole implements `Settlement` (`BooksFollowTheProvider`) |
| `reconciliation_fault` (violation) | one failed call between payment and invoice: the redelivery is acknowledged, the invoice never paid |
| `webhook_replay` (violation) | two overlapping deliveries: a PROCESSED event is processed again |
| `billing` | both components over the same tables, late and refused payments: paid only if collected, past due only if refused |
| `billing_one_current` (violation) | a payment that succeeds after its subscription was canceled and replaced makes two subscriptions current |
| `sync` | connecting, disconnecting and syncing one integration in two processes with one failed call or crash: one sync at a time, a job ingests its data once and once more only after a crash or a connect meanwhile, no PENDING left behind without a fault, errors are logged, jobs end |
| `sync_queued` (violation) | a request answered `queued: true` queues nothing while the finished job is kept |
| `sync_same_provider` (violation) | connecting one organization while another with the same provider is synced stores the one's token as the other's |
| `workspace` | the safety of every part in `Workspace`, by 39 casts |
| `workspace_liveness` | what happens in the end, by seven casts whose workers go on working |

The properties of the two workspace runs gather what the parts promise:

| property | of |
|---|---|
| `NothingLostUnlessStale` | what is read and written back whole is lost only by a request whose copy is stale: `FlowUnlessStale`, `NothingUndoneUnlessStale` (orders, messages), `MilestoneUnlessStale` (the checklist, whichever service passes it), `NoDecisionLostUnlessStale` (histories) |
| `LinkedBothWays` | an order of a message was made from that message, also when two conversions of one or of two messages overlap. (That a message is never converted twice is not said: the code does not look for an order that exists) |
| `ReportsAreAccountedFor` | the daily limit is exceeded only by overlapping ticks, triggered means completed, unfinished means in progress |
| `LifeCyclesAreKept` | `CompletedIsFinal` (reports), `LifeCycleUnlessOvertaken`, `AssignmentSticks` (experiments) |
| `AlertsAreTold` | suppressed only in favour of a delivery, and at most one delivery for each overlapping evaluation in a window |
| `AdviceIsOnRecord` | `OnceForEachCaller`, `PersistedIsThere`, `RunLogIsTrue`, `WinnersAreReal` |
| `AccountsAreKept`, `RegisteredIsMine` | the last administrator goes only by its own request or by one that was overtaken; saved settings stay; a registration that succeeded holds |
| `ImportsAreWhole` | a batch is filed whole, each valid record once; SUCCESS or PARTIAL means it is stored, FAILED that it is not or that a call after the commit failed |
| `FiguresAgree` | a summary has every figure, of its own range and no older than the oldest view that overlaps it; a job's row is never newer than its snapshots |
| `CalculationsHold` | `MetricsAddUp` (parts of a range add up to it, and the audit agrees), `AdviceIsFounded` (scores, anomalies and recommendations agree; one event for each metric, day and lookback), `MarketIsCounted`, `SuccessMetricsAreRates` (over 100 % only if rows were added between the counts) |
| `ArrivesWhereAsked`, `PagesShowWhatIs` | a page that stays is the one that was asked for, or says that the role may not; panels show their filter's answer unless an older one came after the newest, spinners stop, one refresh loop, a talk of questions and answers. (Which summary the dashboard shows is not said, nor modelled: its answers are ordered by nothing) |
| `GateIsSound` | `WalkIsThorough`, `OwnOutageIsNotCaptured`, `PassedMeansClean`, `NothingLeftRunning`, `FailureIsTold` |
| `ServedInTheEnd` | due reports are served, or at their daily limit, although others fail in every tick, unless schedules are refused again and again; alerts that stay triggered are delivered |
| `NothingGetsStuck` | runs, imports and redirects end, an open page goes on refreshing |

### Why the sequential run is sequential

`OneCurrent`, `NoPeriodBilledTwice`, `NothingHalfDone`, `LedgerAddsUp` and
`CanceledStaysCanceled` do not hold when requests of one organization overlap or
a call fails: nothing in the code prevents it (hazards in `PROJECT.json`). They
are what the handlers promise when they do not, and the run checks them for
every sequence of requests; that overlapping is the only way is proved (section 5).
The concurrent run has what holds regardless. In the
same way the workspace's `...UnlessStale` properties name the one way in which
the code loses data: each says that nothing *else* does.

### Bounds

`MaxSubs`, `MaxInvoices`, `MaxEvents` bound the tables, `MaxNow` the month and
`MaxEnd` the renewals. The concurrent run needs two subscriptions and three
invoices for two requests to fight over a number, in two months, one retried;
the sequential run has room for subscribe, change, renew, cancel, subscribe of
two organizations in four invoices. `OpenPayments` is the number of charges to
settle: deliveries of different payments share no row, so one is enough for the
interleavings, and `Billing` has two. `MaxFaults` is one failed call, restart or
crash: each finding needs at most one. In `IntegrationSync` `MaxGrants` (tokens
of an account) is two, so that a credential can be replaced or refreshed while
an older one is in use; attempts are two instead of three (one retry shows what
a retry does); one integration is enough where connectors are not shared. A
process has one connect request at a time, and a second sync request of an
integration joins the first one's wait for the queue.

`MCView` drops from a state of `IntegrationSync` what no step reads again (older
credentials, logs that tell of no failure, tokens of connectors that nobody waits
for), so that a crash, a retry and a reconnect fit into one run. A job of that run
has at most one crash; the theorems have any number.

In `MCWorkspace.cfg` each bound is the smallest at which the case it is for
occurs. `MaxOrders` and `MaxMessages` are 2, so that two messages, or one twice,
are converted by overlapping requests; the casts without "conversions" have one
of each, as every race on metadata is on one row. There are two organizations:
one schedule of each, and one more of the first's template (`s3`). `Day` is 2 half
hours and `MaxClock` 2, so that an hourly schedule is due twice in a day and a
daily one once; `MaxUserRuns` and `ReportFaults` are 1. Alerts need two
evaluations and three readings, one of which exceeds the threshold by its
magnitude only. Two `Lookbacks` and two scans make two events of one day. `MaxDecisions` is 2, so
that one of two can be lost; `MaxRetries` is 1 or NaN, which makes no attempt.
`MaxRecords` is one new record, enough to make a figure older than another.
`MaxLoops` is one change of the refresh interval, so that an old timer meets a new one. `MaxPending` is two
requests of a hook, enough for a wrong order. `MaxTalk` is 4 and `Recall` 2
instead of 12, so that the copilot forgets. `MaxAsked` is 2. `MaxRows` is three
rows of a table at both ends of months (`FirstsOfMonths` are real months from
January on, `AuditDays` the ends of them). `MaxSubjects` is 3, so that a rate may
be a third, with targets on both sides of one. `MaxHours` is the eight days of a z-score's
baseline. `MaxPages` is 3 and `MinPages` 3, `MaxClicks`, `MaxIssues` and
`MaxFindings` 1, `ListedFindings` 2 instead of 20, for a site of four pages. The
liveness run has no hooks and one pending request, as hooks share nothing with
the refresh loop. Runs with bounded tables stop when a table is full, hence
`CHECK_DEADLOCK FALSE`.

### Fairness

`PaymentReconciliation.FairSpec`: a request in progress goes on (Node runs it to
its end unless it fails or the process dies); the provider redelivers an event
until it is answered with a 200, as `docs/deployment.md` describes. That is
strong fairness, because a delivery can only start while a worker is free. Users
are not fair: nobody has to ask; nor is the provider's settling of a charge.
`IntegrationSync.FairSpec`: a request or job in progress goes on (every HTTP
request of a connector has a timeout), waiting jobs are taken. Connecting,
asking for a sync, disconnecting and faults are not fair.
`WorkspaceSpec`: weak fairness of each worker's work (`WorkOf`: the cron jobs and
clerks of reports, evaluations, agent runs, imports that have begun), of time in
the casts that have a clock (`TimePasses`: half hours of reports follow one another),
and of the browser's own work (`BrowserWork`: following a redirect, the oldest
summary being answered, as `fetch` settles in the end). Users, the network,
customers and changes of access are not fair: they may stop at any time. A report
that is refused leaves no run and ends the tick, so one whose creator has lost
access for good keeps those after it from being reached in every tick
(`reports.service.ts:97, 314`). The code has no remedy, so the property asks for
`<>[]NoneRefused` in any organization; what fails *after* it has a run is passed over
once its daily limit is reached, and that is what the run shows.

## 4. Findings

1. `payment.service.ts:65`: `verifyPayment` returns early on a SUCCESS payment,
   before it marks the invoice. After one failure between the two, no retry
   repairs it, against `docs/deployment.md:191`.
2. `payment.service.ts:160`: the status of a webhook event is checked in one call
   and overwritten in another, against `docs/deployment.md:190`.
3. `payment.service.ts:83`: a late payment reactivates a canceled subscription.
4. `integrations.service.ts:173`: the constant `jobId` with retained jobs makes
   later syncs no-ops that are answered as queued.
5. `integration-sync.processor.ts:135`: what the shared connector holds after a
   sync is saved as this integration's credential.

Met while modelling, and contained in the models as the code has them:

- `analytics.aggregation.service.ts:228`: the end of a month is taken with
  `setMonth`, which overflows on the 29th to the 31st; the audit script's churn
  check then fails for correct figures. The jobs aggregate the period that has
  just begun, so the newest row is near zero and is flagged as an anomaly.
- The executive summary lists the CUSTOM snapshots of windows inside its own.
- `forecasting.ts:18`: with one month of history the value itself is the trend;
  the levers of a scenario are unbounded, and two negative factors multiply to a gain.
- REFUND events are summed as revenue; a channel's new customers are conversions
  while the overall figure counts customers.
- `data-quality.service.ts`: a flat baseline gives z = 0, so the largest jump is
  only MEDIUM; a rescan refreshes `occurredAt`, so a penalty does not expire.
- A benchmark aggregated with the default window is not found by a later default
  query, and against zeros every value is in the top quartile.
- A success metric of governance may pass 100 %: its total is counted in one query
  and its part in a later one.
- The copilot remembers the oldest twelve messages; a failing insert leaves a
  question without an answer.
- A cookie that expired while the stored session is there sends the browser in
  circles; two administrators who demote each other lock a workspace out;
  overlapping `createSignal`, `createOrderFromMessage` and `addVariant`
  requests each write a row (a signal, an order, a control arm); `max_retries` NaN makes no attempt.
- `reports.service.ts:97, 314`: one schedule without access ends each tick of the
  cron job before it reaches the schedules after it, those of other
  organizations included.
- `integration-sync.processor.ts:166-214`: a call that fails after the commit
  makes the handler log FAILED of records that are stored.
- `data-quality.service.ts:233`: the key of an anomaly has its lookback, so scans
  of 30 and of 60 days leave two events of one day, and both lower the score.
- `dashboard/page.tsx:67-75`: an older answer may replace a newer summary.
- A suppressed alert is stored as SENT of its own value, even if another value
  is the newest event by then; the window then belongs to the older value.
- `notify-qa-gate-failure.mjs` reads its report where the crawler never writes
  it, and its keys of checks differ from the crawler's: everybody is told of a
  synthetic failure. Findings are cut to 20, so the default threshold of 20 is
  never exceeded. Services are started before the `try` whose `finally` stops
  them. A page that never loaded counts as tested.

## 5. Proofs

Theorems hold for any values of the constants that satisfy the named assumptions,
which TLC evaluates in the runs. They ask for what makes the model
one of this code and for no bound on its size: `LifecycleAssumption` and
`BillingAssumption` (prices are natural numbers, a period has at least a month),
`ReconciliationAssumption`, `SyncAssumption`, `OnboardingAssumption`,
`OperationsAssumption`, `ReportsAssumption`, `BillingAccessAssumption`,
`AlertsAssumption`, `RecommendationsAssumption`, `AgentsAssumption`,
`ExperimentsAssumption` (a winner's trace tells its variant),
`VerifiedMetricsAssumption` (the end of a period that has begun never moves
back), `MembersAssumption`, `RecordsAssumption`, `NavigationAssumption`
(redirects of the middleware lead to pages that are not redirected again),
`DashboardAssumption`, `CompetitiveAssumption`, `CopilotAssumption` (`Recall` is
even, as the code's 12 is), `CrawlerAssumption`, `WorkspaceAssumption` (the
traces of winners are not those of summaries and agents), and for the
calculations `AnalyticsAssumption`, `InsightsAssumption`, `MarketAssumption` and
`GovernanceAssumption` (rows have integral figures, tables are finite).
`AnalyticsAssumption` says of the rows what `validateRecord` lets through
(`IsRow`: no amount, cost or value is negative), of a range that is asked for that
it ends no earlier than it begins (the code checks nothing here, and a reversed
range selects no row), and of the calendar, a finite set of firsts of months,
that it is long enough: a month has begun before each range and each audit, and
the months that a forecast goes on to are in it.

| module | theorems about |
|---|---|
| `SumProofs` | no module: sums over finite sets, extremes, counts |
| `SubscriptionLifecycleProofs`, `PaymentReconciliationProofs` | the two halves of billing |
| `BillingProofs` | the two over one set of tables |
| `IntegrationSyncProofs` | syncs |
| `OfficeProofs` | `Operations`, `Reports`, `Members`, `Records` |
| `AdviceProofs` | `AlertRules`, `Recommendations`, `Agents`, `Experiments`, `VerifiedMetrics` and the calculations of `Governance`, `Insights`, `Market`, `Analytics` |
| `WorkspaceProofs` | the pages, the gate, and the whole of `Workspace` |

### Billing

`SubscriptionLifecycleProofs`, for any organizations, plans, prices, number of
overlapping requests, failing calls and bounds:

- `TypeCorrect`. `TypeOK` is not inductive, because an update by id needs its
  row: `TypeInv` adds that the ids a request holds are rows of the tables when
  its `pc` says that it will use them.
- `NumbersGapFree`. `NumberingInv` adds that the number a request holds is at
  most one more than the invoices there are: the count it read can only be
  overtaken. An insert whose number is still free therefore adds n + 1, and one
  whose number was taken is refused by the unique constraint.
- `PaymentsStayLinked`, `RevenueIsBacked`. `BackInv` adds what each request still
  owes: the invoice it created is its own, no other request has it, it has no
  revenue event yet and, before the payment, no payment.
- `OneCurrentIfSerialized`, `CanceledStaysCanceledIfSerialized`,
  `NoPeriodBilledTwiceIfSerialized`, `NothingHalfDoneIfSerialized`,
  `LedgerAddsUpIfSerialized`. The code does not keep these when requests of one
  organization overlap, so each is proved as `Spec /\ []Serialized => ...`:
  `Serialized` says that an organization has at most one request under way, while
  those of other organizations interleave as they like. The last two
  also need `~CallsFail`. The hypothesis is what a user with one browser tab
  does, and every behaviour of the sequential run satisfies it; the
  theorems say that overlapping requests (and failing calls) are the *only* way
  to break these properties. `StandingInv` adds that what a
  request saw of the current subscription still stands when it writes;
  `PeriodsInv` that no event lies beyond the end of the current subscription;
  `WholeInv` that what is not whole yet belongs to a request that is about to
  make it so; `LedgerInv` that the balance of the ledger and the difference a
  request still owes make up the plan's price.

`PaymentReconciliationProofs`, for any number of overlapping requests, events,
payments and faults:

- `TypeCorrect`, `PaidIsCollected`, `PaymentsStayLinked` from `RecInv`: a request
  that was answered has the answer that `charge` still has, as a settled charge
  never changes.
- `AckedIsPaid` from `AckInv`: while nothing failed, a payment that is SUCCESS
  has its invoice PAID *or a request under way to it*.
- `BooksAreKept`: every step is a step of `Settlement` or a stutter, under the
  mapping of section 2.

`BillingProofs` is about the handlers and the workers over the same tables. The
two invariants above are used as they stand, and what is new is that a step of
one component keeps the invariant of the other: `TablesWritten` and
`WorkersWritten` say what a step of each may do to the tables (handlers add rows
and rewrite a subscription; workers add none and rewrite no link), and
`ChecksInv` that a checkout opens a payment of its own. `Billing` reaches the
components by `INSTANCE`, their proofs by other instances of the same modules,
so that each definition comes in two equal copies: the lemmas `Same...` identify
them. The theorems are `TypeCorrect`, `PaidIsCollected`, `PastDueIsRefused` and
`RowsStayLinked`.

### Syncs

`IntegrationSyncProofs`, for any integrations, providers, processes, attempts,
tokens and faults:

- `TypeCorrect`, `SyncsAlone`. `SyncInv` adds to the types that a worker that is
  not idle has an *active* job that no other worker has (`OwnJob`), which is what
  the constant `jobId` is for; that a worker which waits for the provider has a
  token in its connector and one that was answered has a result (`Carries`);
  and that a connect request has its token (`Connects`).
- `PendingIsTemporary` from `PendingInv`: the worker is between the write of
  PENDING and the next write of the status, so that no worker ends its job with
  PENDING left behind.
- `ErrorsAreLogged` from `ErrorInv`: an ERROR without a log is owed one by a
  worker that is about to write it.
- `IngestsOnce` from `IngestInv`: with at most one failed call, a job has ingested
  at most as often as workers crashed and its integration was reconnected, and
  once more. A job that has used up all of these either has a worker past that
  point, or waits with a status that is not ACTIVE, so that the attempt will skip.

`OfficeProofs` has `ImportsWhole`, for any batches, overlapping transactions and
failing calls, before and after the commit. `RecordsInv` says how far each transaction is: what it filed is
the records before its place, what it made is locked by it, locks of two
transactions are apart, and no two children, stored or made, are the same.

### Services

- Orders, messages (`OpsTypeCorrect`, `LinksHold`, `FlowIsKept`,
  `NothingIsUndone`). `OpsInv` adds that what a request holds fits its operation:
  ids of rows, a validated copy, and for a conversion the order that it made from
  its message.
- Reports (`ReportsTypeCorrect`, `RowsTellWhatWasDone`, `CompletedStays`).
  `RowsInv` adds that each generation has its own row, open as its `pc` says;
  `LimitInv` counts the runs of a template and day together with the ticks that
  passed the check and have yet to create one.
- Accounts (`RegisteredKeepIt`, `LockedOutOnlyByOverlap`, `SettingsStaySaved`).
  `MembersInv` adds that the request under way is that of its address and names
  its target.
- Alerts (`AlertsTypeCorrect`, `AlertsAreRight`). `ToldInv` adds that an
  evaluation that suppresses, or will store a delivery, holds a value that was
  told. `EventsBounded` adds to the deliveries of a window the evaluations that
  will still deliver the same value: their sum is at most the number of
  evaluations, because none joins them while a duplicate is on record. (The proof
  is also why `Suppress` starts a new window if another value came first: the
  count of the older value must not be taken for that of the new one.)
- Recommendations and agent runs (`CallersWriteOnce`, `AnswersAreBacked`,
  `RunLogsAreTrue`, `DecisionsAreKept`). `RecsInv` adds that a caller which is
  about to write has written nothing of that trace, and one that is about to log
  a success has; `AgentsInv` relates a run to its caller.
- Experiments (`WinnersHaveRun`, `ExperimentFlowIsKept`, `ArmsAreKept`).
  `ExperimentsInv` adds that a request writes what its checks passed of the
  experiment it read, and that whatever is recommended, or about to be, is the
  trace of an arm with a result.
- Verified figures (`FiguresDoAgree`). `MetricsInv` says of two views which one's
  figures can be older, and of a job that its row has what the snapshots have.
  Figures are counts of records, and `WiderMeasuresMore` that a longer window
  counts no less.

### Pages and the gate

`WorkspaceProofs`, for any pages, roles, redirects, filters, intervals, numbers of
chats, sites and webhooks, and for answers in any order: `Arrives` (`NavInv`: all
redirects from here lead to what was asked for, or to "unauthorized"),
`PagesDoShowWhatIs` (what it says and what not is in section 3; `DashboardInv`:
only the last run of the refresh effect has a timer; `CompetitiveInv`: the newest request of a panel is for its filter;
`CopilotInv`: as long as chats come one after the other, what is stored and what
is recalled alternates) and `GateStaysSound` (`CrawlerInv`: each expected or
linked route is visited or queued, the expected ones before the others; a probe
that is over has passed or failed; the probe of the outage captures nothing
until the routes are restored). The links of a page are taken as a set,
visited in any order: the properties do not depend on it.

### The workspace

A step of `Workspace` is a step of one part, of those actors that its cast has at
work. `AlertsGoOn`, `MetricsGoOn`, `AccountsGoOn`, `ImportsGoOn` and `PagesGoOn`
show that it implements each part that shares nothing; its theorems carry over. For parts that share rows
there is an invariant of both: `OfficeInv` (reports write the checklist of
orders) and `AdviceInv` (of agents and experiments the one at work has its
invariant, and the other is as it began, its traces apart from the first's). From
these: `WorkspaceLinksHold`, `WorkspaceReportsAccountedFor`, `NothingIsLost`,
`LifeCyclesStay`, `AdviceStaysOnRecord`, `WorkspaceAccountsAreKept` and, with all
of them, `WorkspaceTypeCorrect`.

`FiguresAreSound` is about the calculations, over `FiguresInv`:

- *Sums and counts.* A sum over a finite set is a fold of the community modules,
  whose induction theorem takes an operator and cannot be cited. `SumProofs`
  proves induction over subsets as a set (`SubsetInduction`: a
  set of subsets that has the empty one and grows by an element has all), from
  the well-founded order of the naturals, and from it what
  a sum is, that it grows, splits and does not depend on the order
  (`TotalAdds`, `TotalOfBoth`, `TotalAgrees`), that what is counted by parts is
  all there is (`CountedByPart`), and that the square of a sum is at most the
  number of terms times the sum of squares (`SquareOfTotal`: no variance is
  negative). Ledger, scores and counts of signals rest on these.
- *Advice* (`AdviceIsFounded`): an anomaly's event is the only one of its metric,
  day and lookback, however scans overlap; advice that is not suppressed rests on a source synced within twelve hours,
  since the guardrail asks for an average freshness of a half, so that one source
  has at least that, as no failed, silent or older one can; all factors lie in
  their ranges, so the score is a share of 1.
- *Churn* (`ChurnIsOfItsMonths`): a month that is asked for alone has the customers
  and the cancellations that it has in the range (`MonthAlone`). The overall rate
  is that of the sums of both, so it lies between the least and the greatest of
  the months' rates (`MeanLies`).
- *Spend and growth* (`SegmentsAreRequests`, `GrowthIsOverTheDaysBefore`): a
  channel's rows are the rows of a request for that channel, and every row is of
  one channel and one month, so the parts of a sum are the sum (`TotalByPart`).
- *Forecast* (`ForecastGoesOn`): months go on from the last (`MonthsGoOn`), and a
  history that never falls has moving averages that do not, so a trend that is
  not negative (`NeverFallen`, `SmoothedGrow`).
- *Velocity and snapshots* (`VelocityIsOfTheValue`, `FiguresHaveRecords`): the
  code's `Math.max(1, ...)` makes every cycle at least a day; a figure that is not
  0 has a row that it is of, counted in the sample.
- *Audit* (`AuditPasses`). `AnalyticsInv` says that every row is one that can be
  imported and that the rows during an audit are exactly those it seeded. The
  proof computes each metric of these rows for the day, the week and the month
  around it, for any day, any length of a month and any first weekday
  (`RichPasses`, `StressPasses`).
- *Benchmarks* (`BenchmarksAreFound`): `Ascending` chooses the i-th value as one
  with fewer than i values below it and at least i up to it: `AscendingIs` shows
  that there is one (the least with i up to it), `AscendingGrows` that they are in
  order. From the two neighbours that a percentile interpolates between
  (`PercentileLies`, `PercentileGrows`) follows how many figures lie on either side
  of it (`SharesOf`). `BenchmarksInv` says that what was aggregated since the
  last row is stored, so an asked window inside an aggregated one is covered.
- *Market* (`SignalCountsAgree`, `ScenariosAreInOrder`, `GraphIsWhole`). The
  second holds only if no factor is negative (`NoFactorIsNegative`). The proof
  failed without this premise, and rightly: no lever is bounded, so with
  marketing and pricing both at -100 % two negative factors multiply to a
  conservative scenario that is above the base one. `MCLevers` has this case.
- *Activation* (`ActivatedOnce`): a customer's first purchase is one instant, so
  two ranges that do not meet cannot both have it.
- *Success metrics* (`SuccessMetricsAreRates`): `GovernanceInv` says which of the
  two counts came first and what it can at most be, now that rows were added.

### Model-checked only

- Liveness: `EventuallyAcked`, `JobsEnd`, `ServedInTheEnd`, `NothingGetsStuck`.
  The prover reasons neither about fairness nor about `ENABLED`.

## 6. What is left out

- Days within a month of a subscription (`setMonth` on the 31st, which is in
  `Analytics` for the aggregates), amounts as decimals, rounding.
- Decryption, webhook signatures, parsing of payloads, the content and wording of
  reports, alerts and prompts.
- Connectors of single providers: mappings of an answer to records, with no state
  beyond what the base class has. The Python agents: stateless heuristics.
- Read-only queries, paging, searching, and pages that load once and render.
- The plan's limit on the number of integrations (counted in one call and created
  in another; listed as a hazard) and a subscription's renewal while PAST_DUE,
  which no document forbids.
- A disconnected integration becoming ACTIVE again when its sync ends: the model
  does it, and no document or test says that it must not.
- Two parts of the workspace at work at once. They share only the checklist, the
  recommendations and the plan; the casts that share one of these have all its
  writers (orders, reports and users' ticks on the checklist; runs and deciders
  on the recommendations).

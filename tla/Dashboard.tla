------------------------------- MODULE Dashboard ------------------------------
(***************************************************************************)
(* The dashboard in a browser: DashboardHomePage, which loads the          *)
(* executive summary and refreshes it on a timer with a backoff, and the   *)
(* hooks of useDashboard, which load on every change of the filters and    *)
(* share one loading flag and one error.  Answers come in any order; no    *)
(* request is ever aborted.                                                *)
(*                                                                         *)
(* The operators named Bug... are faulty variants of definitions after     *)
(* them; no specification uses them.                                       *)
(***************************************************************************)
EXTENDS Naturals, Sequences, SequencesExt

CONSTANTS
    MaxLoops,       \* bound: times that the refresh interval is set
    RefreshIntervals,      \* preferences.refreshInterval, in seconds
    Hooks,          \* useDashboardMetrics, useDashboardCharts, useDashboardInsights
    MaxPending      \* bound: unanswered requests of a hook, and loads of the page

ASSUME DashboardAssumption ==
    /\ MaxLoops \in Nat \ {0}
    /\ RefreshIntervals \subseteq Nat \ {0}
    /\ MaxPending \in Nat \ {0}

VARIABLES
    page,       \* the state of the page: useState and failureCountRef
    loops,      \* the runs of the refresh effect, oldest first
    fetches,    \* the unanswered summary requests, oldest first
    store,      \* isLoading and error of the dashboard store
    pending     \* how many requests of each hook are unanswered

dashboardVars == <<page, loops, fetches, store, pending>>

Page == [mounted : BOOLEAN, organization : BOOLEAN, loading : BOOLEAN,
         status : {"syncing", "live", "degraded"}, failures : 0..5, interval : RefreshIntervals]
Loop == [timer : {"armed", "fetching", "none"}, delay : Nat]
Fetch == [silent : BOOLEAN, loop : 0..MaxLoops]     \* loop 0: not of a timer

DashboardTypeOK ==
    /\ page \in Page
    /\ loops \in Seq(Loop) /\ Len(loops) <= MaxLoops
    /\ fetches \in Seq(Fetch)
    /\ store \in [loading : BOOLEAN, error : BOOLEAN]
    /\ pending \in [Hooks -> 0..MaxPending]

DashboardInit ==
    /\ \E interval \in RefreshIntervals :
           page = [mounted |-> TRUE, organization |-> FALSE, loading |-> FALSE,
                   status |-> "syncing", failures |-> 0, interval |-> interval]
    /\ loops = <<>> /\ fetches = <<>>
    /\ store = [loading |-> FALSE, error |-> FALSE]
    /\ pending = [h \in Hooks |-> 0]

-----------------------------------------------------------------------------
(* The refresh loop *)

MAX_DELAY == 5 * 60
Smaller(a, b) == IF a < b THEN a ELSE b
NextDelay(interval, failures) == Smaller(interval * 2 ^ Smaller(failures, 3), MAX_DELAY)

(* isCancelled of a run of the effect: the clean-up has run. *)
Cancelled(n) == ~page.mounted \/ n # Len(loops)

BugNoTimerAfterFailure(loop, interval, failures) ==
    IF failures = 0
    THEN [loop EXCEPT !.timer = "armed", !.delay = NextDelay(interval, failures)]
    ELSE [loop EXCEPT !.timer = "none"]

ScheduleNext(loop, interval, failures) ==
    [loop EXCEPT !.timer = "armed", !.delay = NextDelay(interval, failures)]
FirstSchedule(interval, failures) ==
    ScheduleNext([timer |-> "none", delay |-> 0], interval, failures)

BugTimerKept(loop) == loop

(* The clean-up clears the timer; a run that awaits its fetch goes on.     *)
CleanUp(loop) == IF loop.timer = "armed" THEN [loop EXCEPT !.timer = "none"] ELSE loop

(* useAuth has read the session: both effects run. *)
OrganizationKnown ==
    /\ page.mounted /\ ~page.organization
    /\ page' = [page EXCEPT !.organization = TRUE, !.loading = TRUE]
    /\ fetches' = Append(fetches, [silent |-> FALSE, loop |-> 0])
    /\ loops' = <<FirstSchedule(page.interval, page.failures)>>
    /\ UNCHANGED <<store, pending>>

SetInterval ==
    /\ page.mounted /\ page.organization /\ Len(loops) < MaxLoops
    /\ \E interval \in RefreshIntervals \ {page.interval} :
           /\ page' = [page EXCEPT !.interval = interval]
           /\ loops' = Append([loops EXCEPT ![Len(loops)] = CleanUp(@)],
                              FirstSchedule(interval, page.failures))
    /\ UNCHANGED <<fetches, store, pending>>

Leave ==
    /\ page.mounted
    /\ page' = [page EXCEPT !.mounted = FALSE]
    /\ loops' = [n \in DOMAIN loops |-> CleanUp(loops[n])]
    /\ UNCHANGED <<fetches, store, pending>>

(* handleManualRefresh, beside the loop. *)
ManualRefresh ==
    /\ page.mounted /\ page.organization
    /\ Len(SelectSeq(fetches, LAMBDA f : ~f.silent)) < MaxPending
    /\ page' = [page EXCEPT !.loading = TRUE, !.status = "syncing"]
    /\ fetches' = Append(fetches, [silent |-> FALSE, loop |-> 0])
    /\ UNCHANGED <<loops, store, pending>>

TimerFires(n) ==
    /\ loops[n].timer = "armed"
    /\ loops' = [loops EXCEPT ![n].timer = "fetching"]
    /\ fetches' = Append(fetches, [silent |-> TRUE, loop |-> n])
    /\ page' = [page EXCEPT !.status = "syncing"]
    /\ UNCHANGED <<store, pending>>

BugFailuresKept(p, ok) ==
    IF ok THEN [p EXCEPT !.status = "live"]
    ELSE [p EXCEPT !.status = "degraded", !.failures = Smaller(@ + 1, 5)]

(* fetchSummary goes on, and then the run of the effect that awaited it.   *)
Answered(p, ok) ==
    IF ok THEN [p EXCEPT !.status = "live", !.failures = 0]
    ELSE [p EXCEPT !.status = "degraded", !.failures = Smaller(@ + 1, 5)]
Finally(p, silent) == IF silent THEN p ELSE [p EXCEPT !.loading = FALSE]
SummaryAnswers(k, ok) ==
    LET f == fetches[k]
        after == Finally(Answered(page, ok), f.silent)
    IN  /\ page' = IF page.mounted THEN after ELSE page
        /\ fetches' = RemoveAt(fetches, k)
        /\ loops' = IF f.loop = 0 THEN loops
                    ELSE [loops EXCEPT ![f.loop] =
                        IF Cancelled(f.loop) THEN [@ EXCEPT !.timer = "none"]
                        ELSE ScheduleNext(@, page.interval, after.failures)]
        /\ UNCHANGED <<store, pending>>

-----------------------------------------------------------------------------
(* The hooks *)

(* The filters change: the effect of every hook starts its request. *)
SetFilters ==
    /\ Hooks # {}
    /\ \A h \in Hooks : pending[h] < MaxPending
    /\ pending' = [h \in Hooks |-> pending[h] + 1]
    /\ store' = [loading |-> TRUE, error |-> FALSE]
    /\ UNCHANGED <<page, loops, fetches>>

BugNotStopped == store.loading

FinallyLoading == FALSE
HookAnswers(h, ok) ==
    /\ pending[h] > 0
    /\ pending' = [pending EXCEPT ![h] = @ - 1]
    /\ store' = [loading |-> FinallyLoading, error |-> store.error \/ ~ok]
    /\ UNCHANGED <<page, loops, fetches>>

BrowserStep ==
    \/ OrganizationKnown
    \/ \E n \in DOMAIN loops : TimerFires(n)
    \/ \E k \in DOMAIN fetches, ok \in BOOLEAN : SummaryAnswers(k, ok)
    \/ \E h \in Hooks, ok \in BOOLEAN : HookAnswers(h, ok)
DashboardNext == BrowserStep \/ SetInterval \/ Leave \/ ManualRefresh \/ SetFilters
DashboardSpec == DashboardInit /\ [][DashboardNext]_dashboardVars

(* Every summary request is answered or fails. *)
OldestSummaryAnswers == fetches # <<>> /\ \E ok \in BOOLEAN : SummaryAnswers(1, ok)
DashboardFairness == WF_dashboardVars(OldestSummaryAnswers)
DashboardFairSpec == DashboardSpec /\ DashboardFairness

-----------------------------------------------------------------------------

(* There is never more than one refresh loop: only the last run of the     *)
(* effect may set a timer, also when its predecessor was awaiting an       *)
(* answer as the interval changed (dashboard/page.tsx:103-137).             *)
OneRefreshLoop ==
    \A n \in DOMAIN loops : loops[n].timer = "armed" => ~Cancelled(n)

(* The page does not show that it is loading, or syncing, when no answer   *)
(* is on its way, and degraded exactly after a failure, however the first  *)
(* load and the silent ones overlap (dashboard/page.tsx:55-92).            *)
ShowsWhatGoesOn ==
    page.mounted /\ page.organization =>
        /\ page.loading => \E k \in DOMAIN fetches : ~fetches[k].silent
        /\ page.status = "live" => page.failures = 0
        /\ page.status = "degraded" => page.failures > 0
        /\ page.status = "syncing" => fetches # <<>>

(* A spinner of the charts and insights stops when the last of the         *)
(* overlapping requests that share its flag was answered                   *)
(* (useDashboard.ts:29-53, 72-93, 108-129).                                *)
SpinnerStops == store.loading => \E h \in Hooks : pending[h] > 0

(* An open page goes on refreshing, whatever fails: the run that awaited   *)
(* an answer sets the next timer (page.tsx:118-125).                       *)
RefreshesAgain ==
    \A n \in 1..MaxLoops :
        n \in DOMAIN loops /\ loops[n].timer = "fetching"
            ~> Cancelled(n) \/ loops[n].timer = "armed"
===============================================================================

-------------------------------- MODULE Crawler --------------------------------
(***************************************************************************)
(* The crawler of the quality gate (scripts/ui_crawler.mjs): it starts what*)
(* does not run, walks through the pages and clicks on them, probes the    *)
(* assistants, the outages and the contracts, and ends with the exit code  *)
(* of its gate; and the script that tells of a production gate that failed.*)
(*                                                                         *)
(* An issue is what the gate tells apart: its severity, its route, and     *)
(* whether it is a finding.  The thresholds that the production profile has*)
(* at 0 are 0.                                                             *)
(*                                                                         *)
(* The operators named Bug... are faulty variants of definitions after     *)
(* them; no specification uses them.                                       *)
(***************************************************************************)
EXTENDS Naturals, FiniteSets, FiniteSetsExt, Sequences, SequencesExt

CONSTANTS
    Started,            \* the services that it starts where they do not run
    SiteRoutes,
    ExpectedRoutes,     \* the queue at first
    LinksOn,            \* the links of each route, in whichever order the page has them
    MaxPages, MaxClicks,
    MinPages,           \* the gate's minPagesTested
    MaxFindings,        \* the gate's maxActionableFindings
    ListedFindings,     \* the length of the report's list of findings
    GateEnforced,
    Webhooks,           \* the channels that are configured, in their order
    MaxIssues,          \* bound on the issues that the browser reports
    NoExit

ASSUME CrawlerAssumption ==
    /\ ExpectedRoutes \in Seq(SiteRoutes) /\ LinksOn \in [SiteRoutes -> SUBSET SiteRoutes]
    /\ \A r \in SiteRoutes : IsFiniteSet(LinksOn[r])
    /\ {"/login", "/dashboard"} \subseteq SiteRoutes
    /\ Started \subseteq {"api", "agents", "web"}
    /\ {MaxPages, MaxClicks, MinPages, MaxFindings, ListedFindings, MaxIssues} \subseteq Nat
    /\ GateEnforced \in BOOLEAN
    /\ Webhooks \in Seq(Range(Webhooks))
    /\ NoExit \notin {0, 1}

VARIABLES
    crawl,      \* where the script is, what it has visited and has yet to
    issues,
    outage,     \* what the probe of the outages has done to the network
    launched,   \* what was started, and the exit code
    escalation  \* what the script that tells of a failure has done

crawlVars == <<crawl, issues, outage, launched, escalation>>

Critical == {"route-404", "pageerror", "failed-request-5xx"}
Medium == {"console-error", "failed-request", "blank-page", "slow-page"}
NotActionable == {"request-aborted", "resource-forbidden", "no-op-click",
                  "asset-request-failed", "rsc-fallback-recovered"}
OfNetwork == {"failed-request-5xx", "failed-request", "request-aborted"}
Probe == {"ai", "outage", "contract"}
NoRoute == ""
GateKey == {"critical", "medium", "ai-failures", "outage-fallback-failures",
            "contract-lite-failures", "actionable-findings", "pages-tested"}

CrawlerTypeOK ==
    /\ crawl.queue \in Seq(SiteRoutes) /\ crawl.at \in SiteRoutes
    /\ crawl.clicks \in 0..MaxClicks /\ crawl.visited \subseteq SiteRoutes
    /\ issues \subseteq [severity : {"critical", "medium", "minor"}, finding : BOOLEAN,
                         route : SiteRoutes \cup {NoRoute}]
    /\ crawl.passed \subseteq Probe /\ crawl.failed \subseteq Probe
    /\ outage.capture \in BOOLEAN /\ outage.blocked \in {"none", "api", "copilot"}
    /\ launched.started \subseteq Started /\ launched.running \subseteq Started
    /\ launched.exit \in {NoExit, 0, 1}
    /\ Range(escalation.told) \subseteq Range(Webhooks)

CrawlerInit ==
    /\ crawl = [pc |-> "start", queue |-> ExpectedRoutes, visited |-> {}, pages |-> <<>>,
                route |-> "/login", at |-> "/login", clicks |-> 0, links |-> {},
                passed |-> {}, failed |-> {}]
    /\ issues = {}
    /\ outage = [capture |-> TRUE, blocked |-> "none", left |-> <<"api", "copilot">>,
                 graceful |-> TRUE]
    /\ launched = [started |-> {}, running |-> {}, exit |-> NoExit]
    /\ escalation = [pc |-> "waits", told |-> <<>>, roles |-> {}]

(* One issue of a type, by what the gate makes of it.                      *)
Issue(type, route) ==
    [severity |-> IF type \in Critical THEN "critical"
                  ELSE IF type \in Medium THEN "medium" ELSE "minor",
     finding |-> type \notin NotActionable,
     route |-> route]
Note(types, route) == issues' = issues \cup {Issue(t, route) : t \in types}

-----------------------------------------------------------------------------
(* The services it starts, and its ends *)

StartEnvironment ==
    /\ crawl.pc = "start"
    /\ \E down \in SUBSET Started :
           launched' = [launched EXCEPT !.started = down, !.running = down]
    /\ crawl' = [crawl EXCEPT !.pc = "verify"]
    /\ UNCHANGED <<issues, outage, escalation>>
(* A service that cannot be spawned ends the script before its try block,  *)
(* which is to stop those that were started before.                        *)
Before == [api |-> {}, agents |-> {"api"}, web |-> {"api", "agents"}]
StartThrows ==
    /\ crawl.pc = "start"
    /\ \E up \in SUBSET Started, s \in Started :
           /\ up \subseteq Before[s]
           /\ launched' = [launched EXCEPT !.started = up, !.running = up, !.exit = 1]
    /\ crawl' = [crawl EXCEPT !.pc = "crashed"]
    /\ UNCHANGED <<issues, outage, escalation>>
(* Nothing handles the error of a command that is not there, which ends    *)
(* the script on the spot.                                                 *)
LauncherMissing ==
    /\ crawl.pc = "verify"
    /\ \E s \in launched.started :
           launched' = [launched EXCEPT !.running = @ \ {s}, !.exit = 1]
    /\ crawl' = [crawl EXCEPT !.pc = "crashed"]
    /\ UNCHANGED <<issues, outage, escalation>>

BugKilledUnlessFailed(code) ==
    launched' = [launched EXCEPT !.running = IF code = 1 THEN @ ELSE {}, !.exit = code]

(* The finally block of main kills what was started.                       *)
Exit(code) == launched' = [launched EXCEPT !.running = {}, !.exit = code]
CrawlThrows ==
    /\ crawl.pc \in {"verify", "preauth", "read", "report"}
    /\ crawl' = [crawl EXCEPT !.pc = "thrown"]
    /\ Exit(1)
    /\ UNCHANGED <<issues, outage, escalation>>
VerifyServicesReady ==
    /\ crawl.pc = "verify"
    /\ crawl' = [crawl EXCEPT !.pc = "preauth"]
    /\ UNCHANGED <<issues, outage, launched, escalation>>

-----------------------------------------------------------------------------
(* The walk *)

(* The forms of a user who is not signed in, and their submission; after   *)
(* that a session is seeded.                                               *)
PreAuth ==
    /\ crawl.pc = "preauth"
    /\ \E found \in SUBSET {"missing-auth-form", "form-submit-check-failure"} :
           Note(found, "/login")
    /\ crawl' = [crawl EXCEPT !.pc = "loop"]
    /\ UNCHANGED <<outage, launched, escalation>>

BugOnePageMore(c) == c.queue # <<>> /\ Len(c.pages) <= MaxPages

GoesOn(c) == c.queue # <<>> /\ Len(c.pages) < MaxPages

Tested(c) == Append(c.pages, c.route)

BugNotVisited(c, next) == [c EXCEPT !.queue = Tail(@), !.route = next]

TakeOff(c, next) ==
    [c EXCEPT !.queue = Tail(@), !.visited = @ \cup {next}, !.route = next]
SkipVisited ==
    /\ crawl.pc = "loop" /\ GoesOn(crawl) /\ Head(crawl.queue) \in crawl.visited
    /\ crawl' = [crawl EXCEPT !.queue = Tail(@)]
    /\ UNCHANGED <<issues, outage, launched, escalation>>
(* The page loads, or another one in its place where the site redirects;   *)
(* only the dashboard and its analytics are timed.                         *)
Slow(route) == SUBSET {i \in {"slow-page"} : route \in {"/dashboard", "/dashboard/analytics"}}
VisitPage ==
    /\ crawl.pc = "loop" /\ GoesOn(crawl) /\ Head(crawl.queue) \notin crawl.visited
    /\ \E slow \in Slow(Head(crawl.queue)), at \in {Head(crawl.queue), "/login"} :
           LET taken == TakeOff(crawl, Head(crawl.queue)) IN
           /\ Note(slow, taken.route)
           /\ crawl' = [taken EXCEPT !.pc = "read", !.at = at]
    /\ UNCHANGED <<outage, launched, escalation>>
(* A page that does not load, quickly or slowly, is one that was tested.   *)
NavigationFails ==
    /\ crawl.pc = "loop" /\ GoesOn(crawl) /\ Head(crawl.queue) \notin crawl.visited
    /\ \E slow \in Slow(Head(crawl.queue)) :
           LET taken == TakeOff(crawl, Head(crawl.queue)) IN
           /\ Note({"navigation-failure"} \cup slow, taken.route)
           /\ crawl' = [taken EXCEPT !.pages = Tested(taken)]
    /\ UNCHANGED <<outage, launched, escalation>>

BugNewestFirst(c, unseen) == [c EXCEPT !.queue = unseen \o @]

(* The links that were not visited join the queue at its end, whether they *)
(* are in it or not.                                                       *)
Discover(c, unseen) ==
    [c EXCEPT !.queue = @ \o unseen, !.links = @ \cup LinksOn[c.at]]
ReadPage ==
    /\ crawl.pc = "read"
    /\ \E found \in SUBSET {"route-404", "blank-page", "a11y-unlabeled-inputs"} :
           /\ Cardinality(issues) + Cardinality(found) <= MaxIssues
           /\ Note(found, crawl.route)
    /\ \E unseen \in SetToSeqs(LinksOn[crawl.at] \ crawl.visited) :
           crawl' = [Discover(crawl, unseen) EXCEPT !.pc = "click", !.clicks = MaxClicks]
    /\ UNCHANGED <<outage, launched, escalation>>
(* A click may leave the page; those that follow are made where it led,    *)
(* and what they find is filed under the page that was to be tested.       *)
ClickTarget ==
    /\ crawl.pc = "click" /\ crawl.clicks > 0
    /\ \/ /\ \E at \in LinksOn[crawl.at] \cup {crawl.at} :
                 crawl' = [crawl EXCEPT !.clicks = @ - 1, !.at = at]
          /\ UNCHANGED issues
       \/ /\ crawl' = [crawl EXCEPT !.clicks = @ - 1]
          /\ Cardinality(issues) < MaxIssues
          /\ \E type \in {"no-op-click", "click-failure"} : Note({type}, crawl.route)
    /\ UNCHANGED <<outage, launched, escalation>>
EndPage ==
    /\ crawl.pc = "click"
    /\ crawl' = [crawl EXCEPT !.pc = "loop", !.clicks = 0, !.pages = Tested(crawl)]
    /\ UNCHANGED <<issues, outage, launched, escalation>>

(* The handlers of the page's events; those of the network are held back   *)
(* while the outages are probed.                                           *)
BrowserReports ==
    /\ crawl.pc \notin {"start", "verify", "report", "thrown", "crashed", "done"}
    /\ Cardinality(issues) < MaxIssues
    /\ \E type \in OfNetwork \cup {"console-error", "pageerror"} :
           /\ type \in OfNetwork => outage.capture
           /\ Note({type}, crawl.at)
    /\ UNCHANGED <<crawl, outage, launched, escalation>>

EndWalk ==
    /\ crawl.pc = "loop" /\ ~GoesOn(crawl)
    /\ crawl' = [crawl EXCEPT !.pc = "audit"]
    /\ UNCHANGED <<issues, outage, launched, escalation>>
BrokenLinkAudit ==
    /\ crawl.pc = "audit"
    /\ \E broken \in {{}} \cup {{r} : r \in crawl.links} :
           issues' = issues \cup {Issue("broken-link", r) : r \in broken}
    /\ crawl' = [crawl EXCEPT !.pc = "ai"]
    /\ UNCHANGED <<outage, launched, escalation>>

-----------------------------------------------------------------------------
(* The probes: one passes, or a check of it fails, or its runner throws,   *)
(* which the caller takes for a check that failed.                         *)

Failure(probe) ==
    CASE probe = "ai" -> "ai-check-failure"
      [] probe = "outage" -> "outage-fallback-failure"
      [] probe = "contract" -> "api-contract-lite-failure"

BugThrownIsNoCheck(c, probe) == c

Thrown(c, probe) == [c EXCEPT !.failed = @ \cup {probe}]
(* The end of a probe and what it adds to the issues.                      *)
EndProbe(c, probe) ==
    /\ crawl' = c
    /\ Note({Failure(p) : p \in c.failed \cap {probe}}, NoRoute)

RunAiProbes ==
    /\ crawl.pc = "ai"
    /\ \E c \in {Thrown(crawl, "ai"), [crawl EXCEPT !.failed = @ \cup {"ai"}],
                [crawl EXCEPT !.passed = @ \cup {"ai"}]} :
           EndProbe([c EXCEPT !.pc = "block", !.at = "/dashboard"], "ai")
    /\ UNCHANGED <<outage, launched, escalation>>

(* The API and then the calls of the copilot are blocked, each between     *)
(* setCapture(false) and setCapture(true), for a page of the probe's own;  *)
(* the crawler's page stays open meanwhile.                                *)
StopCapture ==
    /\ crawl.pc = "block"
    /\ outage' = [outage EXCEPT !.capture = FALSE]
    /\ crawl' = [crawl EXCEPT !.pc = "cut"]
    /\ UNCHANGED <<issues, launched, escalation>>
BlockCalls ==
    /\ crawl.pc = "cut"
    /\ outage' = [outage EXCEPT !.blocked = Head(outage.left)]
    /\ crawl' = [crawl EXCEPT !.pc = "offline"]
    /\ UNCHANGED <<issues, launched, escalation>>
OutageThrows ==
    /\ crawl.pc \in {"block", "cut"}
    /\ EndProbe([Thrown(crawl, "outage") EXCEPT !.pc = "contract"], "outage")
    /\ UNCHANGED <<outage, launched, escalation>>
ProbeOutage ==
    /\ crawl.pc = "offline"
    /\ \E graceful \in BOOLEAN :
           outage' = [outage EXCEPT !.graceful = @ /\ graceful]
    /\ crawl' = [crawl EXCEPT !.pc = "unblock"]
    /\ UNCHANGED <<issues, launched, escalation>>

BugCaptureFirst(o) == [o EXCEPT !.capture = TRUE]

Unblocked(o) == [o EXCEPT !.blocked = "none"]
UnblockCalls ==
    /\ crawl.pc = "unblock"
    /\ outage' = Unblocked(outage)
    /\ crawl' = [crawl EXCEPT !.pc = "restore"]
    /\ UNCHANGED <<issues, launched, escalation>>
RestoreCapture ==
    /\ crawl.pc = "restore"
    /\ outage' = [outage EXCEPT !.capture = TRUE, !.left = Tail(@)]
    /\ IF outage'.left # <<>> THEN
           crawl' = [crawl EXCEPT !.pc = "block"] /\ UNCHANGED issues
       ELSE EndProbe([crawl EXCEPT
                          !.pc = "contract",
                          !.passed = @ \cup {p \in {"outage"} : outage.graceful},
                          !.failed = @ \cup {p \in {"outage"} : ~outage.graceful}], "outage")
    /\ UNCHANGED <<launched, escalation>>

RunContractLiteChecks ==
    /\ crawl.pc = "contract"
    /\ \E c \in {Thrown(crawl, "contract"), [crawl EXCEPT !.failed = @ \cup {"contract"}],
                [crawl EXCEPT !.passed = @ \cup {"contract"}]} :
           EndProbe([c EXCEPT !.pc = "report"], "contract")
    /\ UNCHANGED <<outage, launched, escalation>>

-----------------------------------------------------------------------------
(* The gate *)

(* The findings of the report, of which it lists only so many.             *)
ActionableFindings ==
    Min({Cardinality({i \in issues : i.finding}), ListedFindings})

BugLinksToo == Len(crawl.pages) + Cardinality(crawl.links)

PagesTested == Len(crawl.pages)
GateFails(key) ==
    \/ key = "critical" /\ \E i \in issues : i.severity = "critical"
    \/ key = "medium" /\ \E i \in issues : i.severity = "medium"
    \/ key = "ai-failures" /\ "ai" \in crawl.failed
    \/ key = "outage-fallback-failures" /\ "outage" \in crawl.failed
    \/ key = "contract-lite-failures" /\ "contract" \in crawl.failed
    \/ key = "actionable-findings" /\ ActionableFindings > MaxFindings
    \/ key = "pages-tested" /\ PagesTested < MinPages
FailedKeys == {k \in GateKey : GateFails(k)}

EvaluateQaGate ==
    /\ crawl.pc = "report"
    /\ Exit(IF GateEnforced /\ FailedKeys # {} THEN 1 ELSE 0)
    /\ crawl' = [crawl EXCEPT !.pc = "done"]
    /\ UNCHANGED <<issues, outage, escalation>>

-----------------------------------------------------------------------------
(* Telling of a gate that failed *)

HighSeverityKeys == {"critical", "medium", "contract-failures", "outage-failures"}
StaffFocusKeys == {"ai-failures", "actionable-findings", "min-pages-tested"}

EscalationTargets(keys) ==
    {r \in {"Delivery Manager"} : keys # {}}
    \cup {r \in {"Owner"} : keys \cap HighSeverityKeys # {}}
    \cup {r \in {"Staff"} : keys # {}}

BugNoKeyForMissing == {"qa-report-missing"}

(* The report is looked for where the crawler, which has a directory for   *)
(* each of its runs, never writes it: a report that is missing is one more *)
(* critical failure.                                                       *)
KeysRead == {"critical"}
ReadReport ==
    /\ launched.exit = 1 /\ escalation.pc = "waits" /\ Webhooks # <<>>
    /\ escalation' = [escalation EXCEPT !.pc = "send", !.roles = EscalationTargets(KeysRead)]
    /\ UNCHANGED <<crawl, issues, outage, launched>>

BugRestUnsent(e) == "done"

(* A channel that refuses the notification ends the script, so that those  *)
(* after it are not told.                                                  *)
AfterSent(e) == IF Len(e.told) + 1 = Len(Webhooks) THEN "done" ELSE "send"
SendNotification ==
    /\ escalation.pc = "send"
    /\ \/ escalation' = [escalation EXCEPT !.told = Append(@, Webhooks[Len(@) + 1]),
                                           !.pc = AfterSent(escalation)]
       \/ escalation' = [escalation EXCEPT !.pc = "refused"]
    /\ UNCHANGED <<crawl, issues, outage, launched>>

CrawlerStep ==
    \/ StartEnvironment \/ StartThrows \/ LauncherMissing \/ CrawlThrows \/ VerifyServicesReady
    \/ PreAuth \/ SkipVisited \/ VisitPage \/ NavigationFails \/ ReadPage \/ ClickTarget
    \/ EndPage \/ BrowserReports \/ EndWalk \/ BrokenLinkAudit \/ RunAiProbes
    \/ StopCapture \/ BlockCalls \/ OutageThrows \/ ProbeOutage \/ UnblockCalls
    \/ RestoreCapture \/ RunContractLiteChecks \/ EvaluateQaGate \/ ReadReport \/ SendNotification

-----------------------------------------------------------------------------
(* Safety *)

(* No page is tested twice, those that are expected before those that are  *)
(* found, and the walk ends early only where no link is left               *)
(* (ui_crawler.mjs:1061-1212).                                             *)
WalkIsThorough ==
    /\ Cardinality(Range(crawl.pages)) = Len(crawl.pages)
    /\ Len(crawl.pages) <= MaxPages
    /\ \A n \in DOMAIN crawl.pages :
           crawl.pages[n] \notin Range(ExpectedRoutes) =>
               Range(ExpectedRoutes) \subseteq Range(SubSeq(crawl.pages, 1, n))
    /\ crawl.pc \in {"ai", "done"} /\ Len(crawl.pages) < MaxPages =>
           Range(ExpectedRoutes) \cup crawl.links \subseteq Range(crawl.pages)

(* No failure of the network that the crawler causes by itself becomes an  *)
(* issue of the site: nothing is captured while calls are blocked          *)
(* (ui_crawler.mjs:681-763).                                               *)
OwnOutageIsNotCaptured == outage.blocked # "none" => ~outage.capture

(* A gate that lets a change pass has seen each probe through and enough   *)
(* pages, and no issue that counts; findings are limited only by a         *)
(* threshold below the number that is listed, which the default is not     *)
(* (ui_crawler.mjs:242-330, 1461-1506).                                    *)
PassedMeansClean ==
    launched.exit = 0 /\ GateEnforced =>
        /\ crawl.passed = Probe
        /\ Len(crawl.pages) >= MinPages
        /\ \A i \in issues : i.severity = "minor"
        /\ \/ Cardinality({i \in issues : i.finding}) <= MaxFindings
           \/ MaxFindings >= ListedFindings

(* Whatever ends the script after all services were spawned, what it       *)
(* started is not left running; a service that cannot be spawned or whose  *)
(* launcher is missing leaves the others (ui_crawler.mjs:1434-1506).       *)
NothingLeftRunning ==
    launched.exit # NoExit => launched.running = {} \/ crawl.pc = "crashed"

(* Whoever is to be told of the checks that failed is told, on all the     *)
(* channels unless one refuses (notify-qa-gate-failure.mjs:36-59, 207-289).*)
FailureIsTold ==
    escalation.pc = "done" =>
        /\ escalation.told = Webhooks
        /\ EscalationTargets(FailedKeys) \subseteq escalation.roles
        /\ "Owner" \in escalation.roles
================================================================================

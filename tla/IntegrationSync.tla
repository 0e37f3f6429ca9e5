--------------------------- MODULE IntegrationSync ---------------------------
(***************************************************************************)
(* Connecting an integration, asking for its sync, and the queued job that *)
(* runs it: IntegrationsService, the scheduler, IntegrationSyncProcessor   *)
(* and the connector objects they share.  Every API process has one        *)
(* connector per provider, whatever the organization, which holds the      *)
(* credentials it was last given; one worker, which runs one job at a      *)
(* time; and requests.  One step is one awaited call and the code up to    *)
(* the next one.  BullMQ, the provider's API and its OAuth server are      *)
(* external.                                                               *)
(***************************************************************************)
EXTENDS Integers, Sequences, FiniteSets

CONSTANTS
    Integrations, \* Integration rows, each of an organization of its own
    Provider,     \* Provider[i]
    Processes,    \* API processes
    Attempts,     \* of a job (3 in enqueueSync)
    MaxGrants,    \* bound: tokens that the provider issues for an account
    MaxFaults     \* bound: awaited calls that fail and processes that crash

ASSUME SyncAssumption ==
    /\ Attempts \in Nat \ {0}
    /\ {MaxGrants, MaxFaults} \subseteq Nat
    /\ "nobody" \notin Integrations

VARIABLES
    status,     \* Integration.status
    creds,      \* IntegrationCredential rows, oldest first
    logs,       \* statuses of the IntegrationSyncLog rows of each integration
    grants,     \* tokens the provider has issued for each account (external)
    job,        \* the queue's job of each integration, by its jobId
    asked,      \* enqueueSync calls that found the integration ACTIVE
    held,       \* credentials that each connector object holds
    work,       \* what each process' worker is doing
    connecting, \* what each process' connect request is doing (bound: one at a time)
    batches,    \* batches the current job has ingested (history)
    reopened,   \* connects since it first did (history)
    failures, crashes

vars == <<status, creds, logs, grants, job, asked, held,
          work, connecting, batches, reopened, failures, crashes>>

Providers == {Provider[i] : i \in Integrations}

(* A token is of one account, that of the integration it was granted for;  *)
(* grant 0 is the empty token, which the request's validation lets through. *)
Token == [owner : Integrations, grant : Nat]
NoToken == [owner |-> "nobody", grant |-> 0]

Status == {"absent", "ACTIVE", "INACTIVE", "ERROR", "PENDING"}
LogStatus == {"SUCCESS", "PARTIAL", "FAILED"}
JobState == {"none", "waiting", "active", "finished"}
maxStalledCount == 1
Job == [state : JobState, tries : 0..Attempts, stalls : 0..maxStalledCount]
NewJob(state) == [state |-> state, tries |-> 0, stalls |-> 0]
Pc == {"idle", "lookup", "mark", "credential", "hydrate", "fetch", "refresh",
       "refetch", "save", "persist", "status", "log", "issue", "error", "errorlog"}
Work == [pc : Pc, on : Integrations \cup {"nobody"}, row : Nat,
         token : Token \cup {NoToken}, from : Integrations \cup {"nobody"},
         result : LogStatus \cup {"none"}]
Connecting == [pc : {"idle", "credential", "authenticate", "log", "milestone"},
               on : Integrations \cup {"nobody"}, token : Token \cup {NoToken}]

IdleWork == [pc |-> "idle", on |-> "nobody", row |-> 0, token |-> NoToken,
             from |-> "nobody", result |-> "none"]
IdleConnect == [pc |-> "idle", on |-> "nobody", token |-> NoToken]

TypeOK ==
    /\ status \in [Integrations -> Status]
    /\ creds \in [Integrations -> Seq(Token)]
    /\ logs \in [Integrations -> SUBSET LogStatus]
    /\ grants \in [Integrations -> Nat]
    /\ job \in [Integrations -> Job]
    /\ asked \subseteq Integrations
    /\ held \in [Processes -> [Providers -> Token \cup {NoToken}]]
    /\ work \in [Processes -> Work]
    /\ connecting \in [Processes -> Connecting]
    /\ batches \in [Integrations -> Nat]
    /\ reopened \in [Integrations -> Nat]
    /\ failures \in Nat /\ crashes \in Nat

Init ==
    /\ status = [i \in Integrations |-> "absent"]
    /\ creds = [i \in Integrations |-> <<>>]
    /\ logs = [i \in Integrations |-> {}]
    /\ grants = [i \in Integrations |-> 0]
    /\ job = [i \in Integrations |-> NewJob("none")]
    /\ asked = {}
    /\ held = [p \in Processes |-> [v \in Providers |-> NoToken]]
    /\ work = [p \in Processes |-> IdleWork]
    /\ connecting = [p \in Processes |-> IdleConnect]
    /\ batches = [i \in Integrations |-> 0]
    /\ reopened = [i \in Integrations |-> 0]
    /\ failures = 0 /\ crashes = 0

(***************************************************************************)
(* Faulty variants of definitions below; no specification uses them.       *)
(***************************************************************************)
BugAnyStatus(i) == status[i] # "INACTIVE"
BugFreshJobId(i) == job[i].state # "waiting"
BugOnlyLogged == "errorlog"
BugLogKept(result) == "SUCCESS"
BugNoAttemptLimit(i) == TRUE
BugSkipPutOff(p) ==
    /\ work' = [work EXCEPT ![p] = IdleWork]
    /\ job' = [job EXCEPT ![work[p].on].state = "waiting"]

(***************************************************************************)
(* Tests and results                                                       *)
(***************************************************************************)

(* process() runs an ACTIVE integration and skips any other. *)
Syncable(i) == status[i] = "ACTIVE"

(* The connector that a request about integration i uses. *)
Connector(i) == Provider[i]

(* BullMQ: an add whose jobId the queue still knows, finished jobs that    *)
(* removeOnComplete and removeOnFail keep included, adds nothing.          *)
Addable(i) == job[i].state = "none"

(* A thrown error leaves an attempt. *)
AttemptsLeft(i) == job[i].tries + 1 < Attempts

(* Where a thrown error leads: the ERROR status is written before the log. *)
FirstOfFailure == "error"

(* The status that writeSyncLog records. *)
Logged(result) == result

Empty(i) == [owner |-> i, grant |-> 0]
Fresh(i) == [owner |-> i, grant |-> grants[i] + 1]
Held(p, i) == held[p][Connector(i)]
Hold(p, i, token) == held' = [held EXCEPT ![p][Connector(i)] = token]
Goto(p, pc) == work' = [work EXCEPT ![p].pc = pc]

(* sync() has returned. If the connector holds another token than the one  *)
(* that was given to it, it is taken for a refreshed one, to be saved.     *)
Synced(p, result) ==
    LET now  == Held(p, work[p].on)
        next == IF now # work[p].token THEN "save"
                ELSE IF result = "FAILED" THEN "status" ELSE "persist"
    IN  work' = [work EXCEPT ![p] = [@ EXCEPT !.pc = next, !.token = now, !.result = result]]

(* BullMQ keeps a finished job among the 100 newest of all integrations. *)
FinishJob(i) == job' = [job EXCEPT ![i].state = "finished"]

(* process() returns, or throws: another attempt, or the job has failed.   *)
Completes(p) ==
    /\ FinishJob(work[p].on)
    /\ work' = [work EXCEPT ![p] = IdleWork]

Throws(p) ==
    /\ work' = [work EXCEPT ![p] = IdleWork]
    /\ IF AttemptsLeft(work[p].on)
       THEN job' = [job EXCEPT ![work[p].on] =
                       [@ EXCEPT !.state = "waiting", !.tries = job[work[p].on].tries + 1]]
       ELSE FinishJob(work[p].on)

(* An integration that is not ACTIVE is skipped: the job is completed. *)
Skip(p) == Completes(p)

(***************************************************************************)
(* Requests: connect, disconnect, enqueueSync (also the scheduler's)       *)
(***************************************************************************)

(* The history variables that an enqueued job and a connect write. *)
StartCount(i) ==
    /\ batches' = [batches EXCEPT ![i] = 0]
    /\ reopened' = [reopened EXCEPT ![i] = 0]

CountConnect(i) ==
    IF batches[i] > 0 /\ job[i].state \in {"waiting", "active"}
    THEN reopened' = [reopened EXCEPT ![i] = @ + 1]
    ELSE UNCHANGED reopened

(* The user comes with a token of the account, or with none; the upsert    *)
(* makes the integration ACTIVE before anything is known of the token.     *)
ConnectWith(p, i, token) ==
    /\ connecting[p].pc = "idle"
    /\ status' = [status EXCEPT ![i] = "ACTIVE"]
    /\ CountConnect(i)
    /\ connecting' = [connecting EXCEPT ![p] =
                         [pc |-> "credential", on |-> i, token |-> token]]
    /\ UNCHANGED <<creds, logs, job, asked, held, work, batches, failures, crashes>>

Connect(p, i) ==
    /\ grants[i] < MaxGrants
    /\ grants' = [grants EXCEPT ![i] = @ + 1]
    /\ \E token \in {Fresh(i), Empty(i)} : ConnectWith(p, i, token)

StoreCredential(p) ==
    /\ connecting[p].pc = "credential"
    /\ creds' = [creds EXCEPT ![connecting[p].on] = Append(@, connecting[p].token)]
    /\ connecting' = [connecting EXCEPT ![p].pc = "authenticate"]
    /\ UNCHANGED <<status, logs, grants, job, asked, held, work,
                   batches, reopened, failures, crashes>>

(* authenticate hands the token to the shared connector, unless it is      *)
(* empty; no connector of the repository validates it.                     *)
Authenticated(token) == token.grant > 0

Authenticate(p) ==
    /\ connecting[p].pc = "authenticate"
    /\ IF Authenticated(connecting[p].token)
       THEN Hold(p, connecting[p].on, connecting[p].token)
       ELSE UNCHANGED held
    /\ connecting' = [connecting EXCEPT ![p].pc = "log"]
    /\ UNCHANGED <<status, creds, logs, grants, job, asked, work,
                   batches, reopened, failures, crashes>>

LogConnection(p) ==
    /\ connecting[p].pc = "log"
    /\ LET ok == Authenticated(connecting[p].token)
       IN  /\ logs' = [logs EXCEPT ![connecting[p].on] =
                          @ \cup {IF ok THEN "SUCCESS" ELSE "FAILED"}]
           /\ connecting' = [connecting EXCEPT ![p] =
                                IF ok THEN [@ EXCEPT !.pc = "milestone"] ELSE IdleConnect]
    /\ UNCHANGED <<status, creds, grants, job, asked, held, work,
                   batches, reopened, failures, crashes>>

(* markMilestone writes the checklist of Onboarding, or refuses. *)
MarkMilestone(p) ==
    /\ connecting[p].pc = "milestone"
    /\ connecting' = [connecting EXCEPT ![p] = IdleConnect]
    /\ UNCHANGED <<status, creds, logs, grants, job, asked, held, work,
                   batches, reopened, failures, crashes>>

Disconnect(i) ==
    /\ status[i] # "absent"
    /\ status' = [status EXCEPT ![i] = "INACTIVE"]
    /\ UNCHANGED <<creds, logs, grants, job, asked, held, work,
                   connecting, batches, reopened, failures, crashes>>

AskSync(i) ==
    /\ status[i] = "ACTIVE"
    /\ asked' = asked \cup {i}
    /\ UNCHANGED <<status, creds, logs, grants, job, held, work,
                   connecting, batches, reopened, failures, crashes>>

(* queue.add, answered with 'queued: true' whether it added or not. *)
AddJob(i) ==
    /\ i \in asked
    /\ asked' = asked \ {i}
    /\ IF Addable(i)
       THEN job' = [job EXCEPT ![i] = NewJob("waiting")] /\ StartCount(i)
       ELSE UNCHANGED <<job, batches, reopened>>
    /\ UNCHANGED <<status, creds, logs, grants, held, work, connecting,
                   failures, crashes>>

(* Jobs of other integrations have finished since: the queue forgets one. *)
ForgetJob(i) ==
    /\ job[i].state = "finished"
    /\ job' = [job EXCEPT ![i] = NewJob("none")]
    /\ UNCHANGED <<status, creds, logs, grants, asked, held, work, connecting,
                   batches, reopened, failures, crashes>>

(***************************************************************************)
(* The worker: IntegrationSyncProcessor.process                            *)
(***************************************************************************)

TakeJob(p, i) ==
    /\ work[p].pc = "idle"
    /\ job[i].state = "waiting"
    /\ job' = [job EXCEPT ![i].state = "active"]
    /\ work' = [work EXCEPT ![p] = [IdleWork EXCEPT !.pc = "lookup", !.on = i]]
    /\ UNCHANGED <<status, creds, logs, grants, asked, held, connecting,
                   batches, reopened, failures, crashes>>

Lookup(p) ==
    /\ work[p].pc = "lookup"
    /\ IF Syncable(work[p].on)
       THEN Goto(p, "mark") /\ UNCHANGED job
       ELSE Skip(p)
    /\ UNCHANGED <<status, creds, logs, grants, asked, held, connecting,
                   batches, reopened, failures, crashes>>

MarkPending(p) ==
    /\ work[p].pc = "mark"
    /\ status' = [status EXCEPT ![work[p].on] = "PENDING"]
    /\ Goto(p, "credential")
    /\ UNCHANGED <<creds, logs, grants, job, asked, held, connecting,
                   batches, reopened, failures, crashes>>

(* The newest credential; none is a failure of the sync. *)
LoadCredential(p) ==
    /\ work[p].pc = "credential"
    /\ LET rows == creds[work[p].on]
       IN  IF rows = <<>>
           THEN Goto(p, FirstOfFailure)
           ELSE work' = [work EXCEPT ![p] = [@ EXCEPT !.pc = "hydrate",
                            !.row = Len(rows), !.token = rows[Len(rows)]]]
    /\ UNCHANGED <<status, creds, logs, grants, job, asked, held,
                   connecting, batches, reopened, failures, crashes>>

(* setCredentials and sync(), which sends its request with this token. *)
Hydrate(p) ==
    /\ work[p].pc = "hydrate"
    /\ Hold(p, work[p].on, work[p].token)
    /\ work' = [work EXCEPT ![p] = [@ EXCEPT !.pc = "fetch", !.from = work[p].token.owner]]
    /\ UNCHANGED <<status, creds, logs, grants, job, asked, connecting,
                   batches, reopened, failures, crashes>>

(* The provider's answer to the first request or to the one after a        *)
(* refresh; sync() turns every error into a FAILED result, and sends       *)
(* nothing without a token.                                                *)
Fetched(p, result) ==
    /\ work[p].pc \in {"fetch", "refetch"}
    /\ Authenticated(work[p].token) \/ result = "FAILED"
    /\ Synced(p, result)
    /\ UNCHANGED <<status, creds, logs, grants, job, asked, held,
                   connecting, batches, reopened, failures, crashes>>

(* A 401: the refresh sends what the connector holds by now. *)
Unauthorized(p) ==
    /\ work[p].pc = "fetch"
    /\ Authenticated(work[p].token)
    /\ work' = [work EXCEPT ![p] = [@ EXCEPT !.pc = "refresh",
                    !.from = Held(p, work[p].on).owner]]
    /\ UNCHANGED <<status, creds, logs, grants, job, asked, held,
                   connecting, batches, reopened, failures, crashes>>

(* The OAuth server answers with a new token of the same account, which    *)
(* the connector holds and sends from now on.                              *)
Refreshed(p) ==
    /\ work[p].pc = "refresh"
    /\ LET account == work[p].from
       IN  /\ grants[account] < MaxGrants
           /\ grants' = [grants EXCEPT ![account] = @ + 1]
           /\ Hold(p, work[p].on, Fresh(account))
    /\ Goto(p, "refetch")
    /\ UNCHANGED <<status, creds, logs, job, asked, connecting,
                   batches, reopened, failures, crashes>>

RefreshRefused(p) ==
    /\ work[p].pc = "refresh"
    /\ Synced(p, "FAILED")
    /\ UNCHANGED <<status, creds, logs, grants, job, asked, held,
                   connecting, batches, reopened, failures, crashes>>

(* The token replaces that of the credential row that was loaded. *)
SaveCredential(p) ==
    /\ work[p].pc = "save"
    /\ creds' = [creds EXCEPT ![work[p].on][work[p].row] = work[p].token]
    /\ Goto(p, IF work[p].result = "FAILED" THEN "status" ELSE "persist")
    /\ UNCHANGED <<status, logs, grants, job, asked, held, connecting,
                   batches, reopened, failures, crashes>>

(* persistRecords is one transaction. *)
Persist(p) ==
    /\ work[p].pc = "persist"
    /\ batches' = [batches EXCEPT ![work[p].on] = @ + 1]
    /\ Goto(p, "status")
    /\ UNCHANGED <<status, creds, logs, grants, job, asked, held,
                   connecting, reopened, failures, crashes>>

SetStatus(p) ==
    /\ work[p].pc = "status"
    /\ status' = [status EXCEPT ![work[p].on] =
                     IF work[p].result = "FAILED" THEN "ERROR" ELSE "ACTIVE"]
    /\ Goto(p, "log")
    /\ UNCHANGED <<creds, logs, grants, job, asked, held, connecting,
                   batches, reopened, failures, crashes>>

(* A PARTIAL or FAILED result may have rejected records to report. *)
WriteLog(p) ==
    /\ work[p].pc = "log"
    /\ logs' = [logs EXCEPT ![work[p].on] = @ \cup {Logged(work[p].result)}]
    /\ \/ Completes(p)
       \/ /\ work[p].result # "SUCCESS"
          /\ Goto(p, "issue")
          /\ UNCHANGED job
    /\ UNCHANGED <<status, creds, grants, asked, held, connecting, batches,
                   reopened, failures, crashes>>

ReportIssue(p) ==
    /\ work[p].pc = "issue"
    /\ Completes(p)
    /\ UNCHANGED <<status, creds, logs, grants, asked, held, connecting,
                   batches, reopened, failures, crashes>>

(* handleSyncFailure and the catch block, then the throw. *)
SetError(p) ==
    /\ work[p].pc = "error"
    /\ status' = [status EXCEPT ![work[p].on] = "ERROR"]
    /\ Goto(p, "errorlog")
    /\ UNCHANGED <<creds, logs, grants, job, asked, held, connecting,
                   batches, reopened, failures, crashes>>

LogError(p) ==
    /\ work[p].pc = "errorlog"
    /\ logs' = [logs EXCEPT ![work[p].on] = @ \cup {"FAILED"}]
    /\ Throws(p)
    /\ UNCHANGED <<status, creds, grants, asked, held, connecting, batches,
                   reopened, failures, crashes>>

(* An awaited database call of the worker throws (or decrypt does, after   *)
(* the credential's): in the try block that begins with persistRecords the *)
(* catch block runs next.                                                  *)
CallFails(p) ==
    /\ failures + crashes < MaxFaults
    /\ work[p].pc \notin {"idle", "fetch", "refresh", "refetch"}
    /\ failures' = failures + 1
    /\ IF work[p].pc \in {"persist", "status", "log", "issue"}
       THEN Goto(p, FirstOfFailure) /\ UNCHANGED job
       ELSE Throws(p)
    /\ UNCHANGED <<status, creds, logs, grants, asked, held, connecting,
                   batches, reopened, crashes>>

ConnectFails(p) ==
    /\ failures + crashes < MaxFaults
    /\ connecting[p].pc # "idle"
    /\ failures' = failures + 1
    /\ connecting' = [connecting EXCEPT ![p] = IdleConnect]
    /\ UNCHANGED <<status, creds, logs, grants, job, asked, held, work,
                   batches, reopened, crashes>>

(* The process dies; BullMQ finds its job stalled and lets it be taken     *)
(* again, or, when it has stalled maxStalledCount times before, fails it.  *)
Stall(i) ==
    IF job[i].stalls < maxStalledCount
    THEN job' = [job EXCEPT ![i] =
                    [@ EXCEPT !.state = "waiting", !.stalls = job[i].stalls + 1]]
    ELSE FinishJob(i)

Crash(p) ==
    /\ failures + crashes < MaxFaults
    /\ crashes' = crashes + 1
    /\ held' = [held EXCEPT ![p] = [v \in Providers |-> NoToken]]
    /\ connecting' = [connecting EXCEPT ![p] = IdleConnect]
    /\ work' = [work EXCEPT ![p] = IdleWork]
    /\ IF work[p].pc = "idle" THEN UNCHANGED job ELSE Stall(work[p].on)
    /\ UNCHANGED <<status, creds, logs, grants, asked, batches, reopened, failures>>

Step(p) ==
    \/ Lookup(p) \/ MarkPending(p) \/ LoadCredential(p) \/ Hydrate(p)
    \/ \E result \in LogStatus : Fetched(p, result)
    \/ Unauthorized(p) \/ Refreshed(p) \/ RefreshRefused(p)
    \/ SaveCredential(p) \/ Persist(p) \/ SetStatus(p) \/ WriteLog(p) \/ ReportIssue(p)
    \/ SetError(p) \/ LogError(p)

Continue(p) ==
    StoreCredential(p) \/ Authenticate(p) \/ LogConnection(p) \/ MarkMilestone(p)

Next ==
    \/ \E i \in Integrations : Disconnect(i) \/ AskSync(i) \/ AddJob(i) \/ ForgetJob(i)
    \/ \E p \in Processes :
           \/ Step(p) \/ Continue(p) \/ CallFails(p) \/ ConnectFails(p) \/ Crash(p)
           \/ \E i \in Integrations : Connect(p, i) \/ TakeJob(p, i)

(* What a process has begun goes on, its worker takes waiting jobs, and    *)
(* every request is answered.                                              *)
Fairness ==
    /\ \A p \in Processes : WF_vars(Step(p)) /\ WF_vars(Continue(p))
    /\ \A i \in Integrations :
           WF_vars(AddJob(i)) /\ WF_vars(\E p \in Processes : TakeJob(p, i))

Spec == Init /\ [][Next]_vars
FairSpec == Spec /\ Fairness

(***************************************************************************)
(* Properties                                                              *)
(***************************************************************************)

Syncing(i) == {p \in Processes : work[p].on = i}

(* An integration is synced by one process at a time, although requests    *)
(* and the scheduler of every process enqueue it: the jobId's purpose.     *)
OneSyncAtATime == \A i \in Integrations : Cardinality(Syncing(i)) <= 1

(* PENDING, which process() writes and no request can sync again, is never *)
(* left behind by a job that is over, unless a call failed or the process  *)
(* crashed.                                                                *)
PendingOnlyWhileSyncing ==
    failures + crashes = 0 =>
        \A i \in Integrations : status[i] = "PENDING" => Syncing(i) # {}

(* A job ingests its data once, although it is attempted again after a     *)
(* failure that may have come after its transaction: the failure leaves    *)
(* ERROR, and process() skips that.  What makes an attempt ingest again    *)
(* is a crash, a connect meanwhile, which writes ACTIVE over the ERROR, or *)
(* a second failure in the catch block.                                    *)
IngestedOnce ==
    failures <= 1 => \A i \in Integrations : batches[i] <= 1 + crashes + reopened[i]

(* The credentials of an integration, and those its sync sends, are of its *)
(* own account, although process() stores what the connector holds.        *)
OwnCredential ==
    \A i \in Integrations :
        /\ \A k \in DOMAIN creds[i] : creds[i][k].owner = i
        /\ \A p \in Syncing(i) : work[p].from \in {i, "nobody"}

(* An integration shown with ERROR has a log that says why, once no        *)
(* request or job is about to write one.                                   *)
ErrorIsLogged ==
    \A i \in Integrations :
        (/\ status[i] = "ERROR"
         /\ failures + crashes = 0
         /\ Syncing(i) = {}
         /\ \A p \in Processes : connecting[p].on # i)
            => "FAILED" \in logs[i]

(* Every job that is taken comes to an end, whatever its attempts meet.    *)
JobsEnd ==
    \A i \in Integrations :
        job[i].state = "waiting" ~> job[i].state \in {"none", "finished"}

(* integrations.controller.spec.ts, 'POST /integrations/:id/sync': a        *)
(* request answered with 'queued: true' leaves a job that is yet to be run *)
(* or running.                                                             *)
QueuedMeansQueued ==
    [][\A i \in Integrations :
           AddJob(i) => job'[i].state \in {"waiting", "active"}]_vars
==============================================================================

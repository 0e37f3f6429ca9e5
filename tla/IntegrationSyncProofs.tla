------------------------ MODULE IntegrationSyncProofs ------------------------
(***************************************************************************)
(* Theorems about IntegrationSync, for any integrations, providers,        *)
(* processes, attempts and bounds.                                         *)
(***************************************************************************)
EXTENDS IntegrationSync, FiniteSetTheorems, SequenceTheorems, TLAPS

(***************************************************************************)
(* The inductive invariant                                                 *)
(***************************************************************************)

(* A worker that is not idle has an active job, which no other has. *)
OwnJob ==
    /\ \A p \in Processes : work[p].pc = "idle" <=> work[p].on = "nobody"
    /\ \A p \in Processes : work[p].pc # "idle" => job[work[p].on].state = "active"
    /\ \A p, q \in Processes :
           (work[p].pc # "idle" /\ work[q].on = work[p].on) => p = q

AwaitsProvider == {"fetch", "refresh", "refetch"}

HasResult == {"save", "persist", "status", "log"}

(* A worker that waits for the provider has a connector with a token, and  *)
(* one that was answered has a result.                                     *)
Carries ==
    \A p \in Processes :
        /\ work[p].pc \in AwaitsProvider \cup {"hydrate", "save"} => work[p].token \in Token
        /\ work[p].pc \in AwaitsProvider =>
               Held(p, work[p].on) \in Token /\ work[p].from \in Integrations
        /\ work[p].pc \in HasResult => work[p].result \in LogStatus

(* A connect request knows its integration and its token. *)
Connects ==
    \A p \in Processes : connecting[p].pc # "idle" =>
        connecting[p].on \in Integrations /\ connecting[p].token \in Token

SyncInv == TypeOK /\ OwnJob /\ Carries /\ Connects

LEMMA IdleTyped == IdleWork \in Work /\ IdleConnect \in Connecting
  BY DEF IdleWork, IdleConnect, Work, Connecting, Pc

LEMMA NewJobTyped ==
  ASSUME NEW state \in JobState
  PROVE  NewJob(state) \in Job /\ NewJob(state).state = state
BY SyncAssumption DEF NewJob, Job, maxStalledCount

LEMMA InitInv == Init => SyncInv
<1> SUFFICES ASSUME Init PROVE SyncInv
  OBVIOUS
<1>1. TypeOK
  BY IdleTyped, SyncAssumption, NewJobTyped DEF Init, TypeOK, Status, JobState
<1> QED
  BY <1>1, IdleTyped DEF Init, SyncInv, OwnJob, Carries, Connects, IdleWork,
     IdleConnect, AwaitsProvider, HasResult

(***************************************************************************)
(* What the worker's steps have in common                                  *)
(***************************************************************************)

(* A worker goes on with its job. *)
LEMMA Moves ==
  ASSUME SyncInv, NEW p \in Processes, NEW w \in Work,
         work' = [work EXCEPT ![p] = w], job' = job, connecting' = connecting,
         work[p].pc # "idle", w.pc # "idle", w.on = work[p].on,
         w.pc \in AwaitsProvider \cup {"hydrate", "save"} => w.token \in Token,
         w.pc \in AwaitsProvider =>
             held'[p][Connector(w.on)] \in Token /\ w.from \in Integrations,
         w.pc \in HasResult => w.result \in LogStatus,
         \A q \in Processes \ {p} : held'[q] = held[q]
  PROVE  work' \in [Processes -> Work] /\ OwnJob' /\ Carries' /\ Connects'
<1> USE DEF SyncInv, TypeOK
<1>1. work' \in [Processes -> Work] /\ work'[p] = w
  OBVIOUS
<1>2. \A q \in Processes \ {p} : work'[q] = work[q]
  OBVIOUS
<1>3. w.on # "nobody"
  BY DEF OwnJob
<1>4. OwnJob'
  BY <1>1, <1>2, <1>3 DEF OwnJob
<1>5. Carries'
  BY <1>1, <1>2 DEF Carries, Held, Connector, AwaitsProvider
<1>6. Connects'
  BY DEF Connects
<1> QED
  BY <1>1, <1>4, <1>5, <1>6

(* A worker is done with its job. *)
LEMMA Ends ==
  ASSUME SyncInv, NEW p \in Processes,
         work' = [work EXCEPT ![p] = IdleWork],
         \A j \in Integrations : j # work[p].on => job'[j] = job[j],
         \A q \in Processes \ {p} : held'[q] = held[q]
  PROVE  work' \in [Processes -> Work] /\ OwnJob' /\ Carries'
<1> USE DEF SyncInv, TypeOK
<1>1. work' \in [Processes -> Work] /\ work'[p] = IdleWork
  BY IdleTyped
<1>2. \A q \in Processes \ {p} : work'[q] = work[q]
  OBVIOUS
<1>3. \A q \in Processes : work[q].on \in Integrations \cup {"nobody"}
  BY DEF Work
<1>4. OwnJob'
  <2>1. \A q \in Processes : work'[q].pc = "idle" <=> work'[q].on = "nobody"
    BY <1>1, <1>2 DEF OwnJob, IdleWork
  <2>2. ASSUME NEW q \in Processes, work'[q].pc # "idle"
        PROVE  q # p /\ work'[q] = work[q] /\ work[q].on \in Integrations /\ work[q].on # work[p].on
    BY <1>1, <1>2, <1>3, <2>2 DEF OwnJob, IdleWork
  <2>3. \A q \in Processes : work'[q].pc # "idle" => job'[work'[q].on].state = "active"
    BY <2>2 DEF OwnJob
  <2>4. \A q, r \in Processes :
            (work'[q].pc # "idle" /\ work'[r].on = work'[q].on) => q = r
    BY <2>1, <2>2 DEF OwnJob
  <2> QED
    BY <2>1, <2>3, <2>4 DEF OwnJob
<1>5. Carries'
  BY <1>1, <1>2 DEF Carries, Held, Connector, AwaitsProvider, HasResult, IdleWork
<1> QED
  BY <1>1, <1>4, <1>5

(* A job that is not being run may change. *)
LEMMA Waits ==
  ASSUME SyncInv, NEW i \in Integrations, NEW j,
         job[i].state # "active", job' = [job EXCEPT ![i] = j],
         work' = work, held' = held
  PROVE  OwnJob' /\ Carries'
<1> USE DEF SyncInv, TypeOK
<1>1. OwnJob'
  BY DEF OwnJob, Work
<1>2. Carries'
  BY DEF Carries, Held, Connector
<1> QED
  BY <1>1, <1>2

(***************************************************************************)
(* Requests, the queue and crashes                                         *)
(***************************************************************************)

LEMMA FreshIsToken ==
  ASSUME TypeOK, NEW i \in Integrations
  PROVE  Fresh(i) \in Token /\ Empty(i) \in Token
BY DEF TypeOK, Fresh, Empty, Token

LEMMA RequestInv ==
  ASSUME SyncInv, NEW i \in Integrations,
         Disconnect(i) \/ AskSync(i) \/ AddJob(i) \/ ForgetJob(i)
  PROVE  SyncInv'
<1> USE DEF SyncInv, TypeOK
<1>1. CASE Disconnect(i)
  BY <1>1 DEF Disconnect, Status, OwnJob, Carries, Held, Connects
<1>2. CASE AskSync(i)
  BY <1>2 DEF AskSync, OwnJob, Carries, Held, Connects
<1>3. CASE AddJob(i)
  <2>1. OwnJob' /\ Carries'
    <3>1. CASE Addable(i)
      BY <1>3, <3>1, Waits DEF AddJob, Addable
    <3>2. CASE ~Addable(i)
      BY <1>3, <3>2 DEF AddJob, OwnJob, Carries, Held, Connector
    <3> QED
      BY <3>1, <3>2
  <2>2. NewJob("waiting") \in Job
    BY NewJobTyped DEF JobState
  <2>3. job' \in [Integrations -> Job]
    BY <1>3, <2>2 DEF AddJob
  <2>4. /\ batches' \in [Integrations -> Nat] /\ reopened' \in [Integrations -> Nat]
        /\ asked' \subseteq Integrations
    <3>1. CASE Addable(i)
      <4>1. StartCount(i) /\ asked' = asked \ {i}
        BY <1>3, <3>1 DEF AddJob
      <4>2. batches' \in [Integrations -> Nat]
        BY <4>1 DEF StartCount
      <4>3. reopened' \in [Integrations -> Nat]
        BY <4>1 DEF StartCount
      <4> QED
        BY <4>1, <4>2, <4>3
    <3>2. CASE ~Addable(i)
      BY <1>3, <3>2, SMTT(30) DEF AddJob
    <3> QED
      BY <3>1, <3>2
  <2>5. Connects'
    BY <1>3 DEF AddJob, Connects
  <2>6. TypeOK'
    BY <1>3, <2>3, <2>4 DEF AddJob
  <2> QED
    BY <2>1, <2>5, <2>6
<1>4. CASE ForgetJob(i)
  <2>1. OwnJob' /\ Carries'
    BY <1>4, Waits DEF ForgetJob
  <2>2. TypeOK' /\ Connects'
    BY <1>4, NewJobTyped DEF ForgetJob, JobState, Connects
  <2> QED
    BY <2>1, <2>2
<1> QED
  BY <1>1, <1>2, <1>3, <1>4

LEMMA ConnectInv ==
  ASSUME SyncInv, NEW p \in Processes,
         \/ \E i \in Integrations : Connect(p, i)
         \/ Continue(p) \/ ConnectFails(p)
  PROVE  SyncInv'
<1> USE DEF SyncInv, TypeOK
<1>1. ASSUME NEW i \in Integrations, Connect(p, i) PROVE SyncInv'
  <2>0. PICK token \in Token : ConnectWith(p, i, token)
    BY <1>1, FreshIsToken DEF Connect
  <2>1. grants' \in [Integrations -> Nat] /\ reopened' \in [Integrations -> Nat]
    BY <1>1, <2>0 DEF Connect, ConnectWith, CountConnect
  <2>2. [pc |-> "credential", on |-> i, token |-> token] \in Connecting
    BY DEF Connecting
  <2>3. TypeOK'
    BY <2>0, <2>1, <2>2 DEF ConnectWith, Status
  <2>4. Connects'
    BY <2>0 DEF ConnectWith, Connects
  <2>5. OwnJob' /\ Carries'
    BY <2>0 DEF ConnectWith, OwnJob, Carries, Held, Connector
  <2> QED
    BY <2>3, <2>4, <2>5
<1>2. CASE StoreCredential(p)
  <2>1. connecting[p].on \in Integrations /\ connecting[p].token \in Token
    BY <1>2 DEF StoreCredential, Connects
  <2>2. Append(creds[connecting[p].on], connecting[p].token) \in Seq(Token)
    BY <2>1
  <2>3. TypeOK'
    BY <1>2, <2>1, <2>2 DEF StoreCredential, Connecting
  <2>4. OwnJob' /\ Carries' /\ Connects'
    BY <1>2 DEF StoreCredential, OwnJob, Carries, Held, Connector, Connects, Connecting
  <2> QED
    BY <2>3, <2>4
<1>3. CASE Authenticate(p)
  <2>1. connecting[p].on \in Integrations /\ connecting[p].token \in Token
    BY <1>3 DEF Authenticate, Connects
  <2>2. Connector(connecting[p].on) \in Providers
    BY <2>1 DEF Connector, Providers
  <2>3. TypeOK'
    <3>1. CASE Authenticated(connecting[p].token)
      <4>1. Hold(p, connecting[p].on, connecting[p].token)
        BY <1>3, <3>1 DEF Authenticate
      <4>2. held' \in [Processes -> [Providers -> Token \cup {NoToken}]]
        BY <2>1, <2>2, <4>1 DEF Hold
      <4> QED
        BY <1>3, <4>2 DEF Authenticate, Connecting
    <3>2. CASE ~Authenticated(connecting[p].token)
      BY <1>3, <3>2 DEF Authenticate, Connecting
    <3> QED
      BY <3>1, <3>2
  <2>4. \A q \in Processes, v \in Providers : held[q][v] \in Token => held'[q][v] \in Token
    <3>1. CASE Authenticated(connecting[p].token)
      <4>1. Hold(p, connecting[p].on, connecting[p].token)
        BY <1>3, <3>1 DEF Authenticate
      <4> QED
        BY <2>1, <2>2, <4>1 DEF Hold
    <3>2. CASE ~Authenticated(connecting[p].token)
      BY <1>3, <3>2 DEF Authenticate
    <3> QED
      BY <3>1, <3>2
  <2>5. \A q \in Processes : work[q].pc \in AwaitsProvider => Connector(work[q].on) \in Providers
    BY DEF OwnJob, Work, Connector, Providers, AwaitsProvider
  <2>6. OwnJob' /\ Carries'
    BY <1>3, <2>4, <2>5 DEF Authenticate, OwnJob, Carries, Held, Connector
  <2>7. Connects'
    BY <1>3 DEF Authenticate, Connects, Connecting
  <2> QED
    BY <2>3, <2>6, <2>7
<1>4. CASE LogConnection(p)
  <2>1. [connecting[p] EXCEPT !.pc = "milestone"] \in Connecting
    BY DEF Connecting
  <2>2. TypeOK'
    BY <1>4, <2>1, IdleTyped DEF LogConnection, LogStatus, Connects
  <2>3. Connects'
    BY <1>4 DEF LogConnection, Connects, IdleConnect, Connecting
  <2>4. OwnJob' /\ Carries'
    BY <1>4 DEF LogConnection, OwnJob, Carries, Held, Connector
  <2> QED
    BY <2>2, <2>3, <2>4
<1>5. CASE MarkMilestone(p)
  <2>1. TypeOK'
    BY <1>5, IdleTyped DEF MarkMilestone
  <2>2. OwnJob' /\ Carries' /\ Connects'
    BY <1>5 DEF MarkMilestone, OwnJob, Carries, Held, Connector, Connects, IdleConnect
  <2> QED
    BY <2>1, <2>2
<1>6. CASE ConnectFails(p)
  <2>1. TypeOK'
    BY <1>6, IdleTyped DEF ConnectFails
  <2>2. OwnJob' /\ Carries' /\ Connects'
    BY <1>6 DEF ConnectFails, OwnJob, Carries, Held, Connector, Connects, IdleConnect
  <2> QED
    BY <2>1, <2>2
<1> QED
  BY <1>1, <1>2, <1>3, <1>4, <1>5, <1>6 DEF Continue

LEMMA TakeInv ==
  ASSUME SyncInv, NEW p \in Processes, NEW i \in Integrations, TakeJob(p, i)
  PROVE  SyncInv'
<1> USE DEF SyncInv, TypeOK
<1> DEFINE w == [IdleWork EXCEPT !.pc = "lookup", !.on = i]
<1>1. w \in Work /\ w.pc = "lookup" /\ w.on = i /\ i # "nobody"
  BY SyncAssumption, IdleTyped DEF IdleWork, Work, Pc
<1>2. work' \in [Processes -> Work] /\ work'[p] = w
      /\ \A q \in Processes \ {p} : work'[q] = work[q]
  BY <1>1 DEF TakeJob
<1> HIDE DEF w
<1>3. TypeOK'
  <2>1. [job[i] EXCEPT !.state = "active"] \in Job
    BY DEF Job, JobState
  <2> QED
    BY <1>2, <2>1 DEF TakeJob
<1>4. \A q \in Processes : work[q].on # i
  BY SyncAssumption DEF TakeJob, OwnJob
<1>5. OwnJob'
  BY <1>1, <1>2, <1>4 DEF TakeJob, OwnJob
<1>6. Carries' /\ Connects'
  BY <1>1, <1>2 DEF TakeJob, Carries, Held, Connector, Connects, AwaitsProvider, HasResult
<1> QED
  BY <1>3, <1>5, <1>6

(* A finished job, and one that has stalled, is a job. *)
LEMMA FinishTyped ==
  ASSUME TypeOK, NEW i \in Integrations, FinishJob(i)
  PROVE  \E j \in Job : job' = [job EXCEPT ![i] = j] /\ j.state = "finished"
<1>1. [job[i] EXCEPT !.state = "finished"] \in Job
      /\ [job[i] EXCEPT !.state = "finished"].state = "finished"
  BY DEF TypeOK, Job, JobState
<1> QED
  BY <1>1 DEF FinishJob

LEMMA StallTyped ==
  ASSUME TypeOK, NEW i \in Integrations, Stall(i)
  PROVE  \E j \in Job : job' = [job EXCEPT ![i] = j]
<1>1. CASE job[i].stalls < maxStalledCount
  <2>0. job[i] \in Job /\ job[i].stalls + 1 \in 0..maxStalledCount
    BY <1>1 DEF TypeOK, Job, maxStalledCount
  <2>1. [job[i] EXCEPT !.state = "waiting", !.stalls = job[i].stalls + 1] \in Job
    BY <2>0 DEF Job, JobState
  <2> QED
    BY <1>1, <2>1 DEF Stall
<1>2. CASE ~(job[i].stalls < maxStalledCount)
  BY <1>2, FinishTyped DEF Stall
<1> QED
  BY <1>1, <1>2

LEMMA CrashInv ==
  ASSUME SyncInv, NEW p \in Processes, Crash(p)
  PROVE  SyncInv'
<1> USE DEF SyncInv, TypeOK
<1>1. OwnJob' /\ Carries'
  BY Ends DEF Crash, Stall, FinishJob
<1>2. Connects'
  BY DEF Crash, Connects, IdleConnect
<1>3. held' \in [Processes -> [Providers -> Token \cup {NoToken}]]
  BY DEF Crash
<1>4. job' \in [Integrations -> Job]
  <2>1. CASE work[p].pc = "idle"
    BY <2>1 DEF Crash
  <2>2. CASE work[p].pc # "idle"
    <3>1. work[p].on \in Integrations
      BY <2>2 DEF OwnJob, Work
    <3>2. PICK j \in Job : job' = [job EXCEPT ![work[p].on] = j]
      BY <2>2, <3>1, StallTyped DEF Crash
    <3> QED
      BY <3>2
  <2> QED
    BY <2>1, <2>2
<1>5. TypeOK'
  BY <1>1, <1>3, <1>4, IdleTyped DEF Crash
<1> QED
  BY <1>1, <1>2, <1>5

(***************************************************************************)
(* The worker                                                              *)
(***************************************************************************)

(* What a worker with a job knows. *)
LEMMA AtWork ==
  ASSUME SyncInv, NEW p \in Processes, work[p].pc # "idle"
  PROVE  /\ work[p].on \in Integrations
         /\ Connector(work[p].on) \in Providers
         /\ \A pc \in Pc : [work[p] EXCEPT !.pc = pc] \in Work
BY DEF SyncInv, TypeOK, OwnJob, Work, Connector, Providers

(* A step that only changes where the worker is, and rows. *)
LEMMA Goes ==
  ASSUME SyncInv, NEW p \in Processes, work[p].pc # "idle",
         NEW pc \in Pc \ (AwaitsProvider \cup {"idle", "hydrate", "save"}),
         work[p].pc \in HasResult \/ pc \notin HasResult,
         Goto(p, pc), job' = job, held' = held, connecting' = connecting
  PROVE  work' \in [Processes -> Work] /\ OwnJob' /\ Carries' /\ Connects'
<1> DEFINE w == [work[p] EXCEPT !.pc = pc]
<1>1. w \in Work /\ w.pc = pc /\ w.on = work[p].on
      /\ (pc \in HasResult => w.result \in LogStatus)
  BY AtWork DEF SyncInv, TypeOK, Work, Carries
<1>2. work' = [work EXCEPT ![p] = w]
  BY DEF Goto
<1> HIDE DEF w
<1> QED
  BY <1>1, <1>2, Moves

(* A job that ends, with or without another attempt. *)
LEMMA Finishes ==
  ASSUME SyncInv, NEW p \in Processes, work[p].pc # "idle",
         Completes(p) \/ Throws(p), held' = held, connecting' = connecting
  PROVE  /\ work' \in [Processes -> Work] /\ OwnJob' /\ Carries' /\ Connects'
         /\ job' \in [Integrations -> Job]
<1> DEFINE i == work[p].on
<1> USE DEF SyncInv, TypeOK
<1>1. i \in Integrations
  BY AtWork
<1>2. work' = [work EXCEPT ![p] = IdleWork]
  BY DEF Completes, Throws
<1>3. PICK j \in Job : job' = [job EXCEPT ![i] = j]
  <2>1. job[i] \in Job
    BY <1>1
  <2>2. CASE FinishJob(i)
    BY <1>1, <2>2, FinishTyped
  <2>3. CASE /\ AttemptsLeft(i)
             /\ job' = [job EXCEPT ![i] =
                           [@ EXCEPT !.state = "waiting", !.tries = job[i].tries + 1]]
    <3>0. job[i].tries + 1 \in 0..Attempts
      BY <2>1, <2>3, SyncAssumption DEF Job, AttemptsLeft
    <3>1. [job[i] EXCEPT !.state = "waiting", !.tries = job[i].tries + 1] \in Job
      BY <2>1, <3>0 DEF Job, JobState
    <3> QED
      BY <2>3, <3>1
  <2> QED
    BY <2>2, <2>3 DEF Completes, Throws
<1>4. job' \in [Integrations -> Job]
  BY <1>3
<1>5. \A k \in Integrations : k # i => job'[k] = job[k]
  BY <1>3
<1> HIDE DEF i
<1>6. work' \in [Processes -> Work] /\ OwnJob' /\ Carries'
  BY <1>2, <1>5, Ends DEF i
<1>7. Connects'
  BY DEF Connects
<1> QED
  BY <1>4, <1>6, <1>7

(* sync() has returned. *)
LEMMA SyncReturns ==
  ASSUME SyncInv, NEW p \in Processes, work[p].pc \in AwaitsProvider,
         NEW result \in LogStatus, Synced(p, result),
         job' = job, held' = held, connecting' = connecting
  PROVE  work' \in [Processes -> Work] /\ OwnJob' /\ Carries' /\ Connects'
<1> DEFINE i == work[p].on
           now1 == Held(p, i)
           next == IF now1 # work[p].token THEN "save"
                   ELSE IF result = "FAILED" THEN "status" ELSE "persist"
           w == [work[p] EXCEPT !.pc = next, !.token = now1, !.result = result]
<1>1. work[p].pc # "idle" /\ now1 \in Token
  BY DEF AwaitsProvider, SyncInv, Carries
<1>2. next \in {"save", "status", "persist"}
  OBVIOUS
<1>3. work' = [work EXCEPT ![p] = w]
  BY DEF Synced
<1> HIDE DEF next, now1
<1>4. w \in Work /\ w.pc = next /\ w.on = i /\ w.token = now1 /\ w.result = result
  BY <1>1, <1>2 DEF SyncInv, TypeOK, Work, Pc
<1> HIDE DEF w
<1> QED
  BY <1>1, <1>2, <1>3, <1>4, Moves DEF AwaitsProvider, HasResult

(* The steps between the job's start and the provider's answer. *)
LEMMA BeginInv ==
  ASSUME SyncInv, NEW p \in Processes,
         Lookup(p) \/ MarkPending(p) \/ LoadCredential(p) \/ Hydrate(p)
  PROVE  SyncInv'
<1> USE DEF SyncInv, TypeOK
<1>0. work[p].pc # "idle"
  BY DEF Lookup, MarkPending, LoadCredential, Hydrate
<1>1. CASE Lookup(p)
  <2>1. CASE Syncable(work[p].on)
    BY <1>0, <1>1, <2>1, Goes DEF Lookup, Pc, AwaitsProvider, HasResult
  <2>2. CASE ~Syncable(work[p].on)
    BY <1>0, <1>1, <2>2, Finishes DEF Lookup, Skip
  <2> QED
    BY <2>1, <2>2
<1>2. CASE MarkPending(p)
  <2>1. work' \in [Processes -> Work] /\ OwnJob' /\ Carries' /\ Connects'
    BY <1>0, <1>2, Goes DEF MarkPending, Pc, AwaitsProvider, HasResult
  <2> QED
    BY <1>2, <2>1 DEF MarkPending, Status
<1>3. CASE LoadCredential(p)
  <2> DEFINE rows == creds[work[p].on]
             w == [work[p] EXCEPT !.pc = "hydrate", !.row = Len(rows), !.token = rows[Len(rows)]]
  <2>1. rows \in Seq(Token)
    BY <1>0, AtWork
  <2>2. CASE rows = <<>>
    <3>1. Goto(p, "error")
      BY <1>3, <2>2 DEF LoadCredential, FirstOfFailure
    <3>2. work' \in [Processes -> Work] /\ OwnJob' /\ Carries' /\ Connects'
      BY <1>0, <1>3, <3>1, Goes DEF LoadCredential, Pc, AwaitsProvider, HasResult
    <3> QED
      BY <1>3, <3>2 DEF LoadCredential
  <2>3. CASE rows # <<>>
    <3>1. work' = [work EXCEPT ![p] = w]
      BY <1>3, <2>3 DEF LoadCredential
    <3> HIDE DEF rows
    <3>2. Len(rows) \in Nat /\ rows[Len(rows)] \in Token
      BY <2>1, <2>3
    <3>3. w \in Work /\ w.pc = "hydrate" /\ w.on = work[p].on /\ w.token \in Token
      BY <3>2 DEF Work, Pc
    <3> HIDE DEF w
    <3>4. work' \in [Processes -> Work] /\ OwnJob' /\ Carries' /\ Connects'
      BY <1>0, <1>3, <3>1, <3>3, Moves DEF LoadCredential, AwaitsProvider, HasResult
    <3> QED
      BY <1>3, <3>4 DEF LoadCredential
  <2> QED
    BY <2>2, <2>3
<1>4. CASE Hydrate(p)
  <2> DEFINE w == [work[p] EXCEPT !.pc = "fetch", !.from = work[p].token.owner]
             v == Connector(work[p].on)
  <2>1. work' = [work EXCEPT ![p] = w] /\ held' = [held EXCEPT ![p][v] = work[p].token]
    BY <1>4 DEF Hydrate, Hold
  <2>2. work[p].token \in Token /\ v \in Providers
    BY <1>0, <1>4, AtWork DEF Hydrate, Carries
  <2>3. w \in Work /\ w.pc = "fetch" /\ w.on = work[p].on /\ w.token \in Token
        /\ w.from \in Integrations
    BY <2>2 DEF Work, Pc, Token
  <2> HIDE DEF w
  <2>4. held'[p][v] \in Token /\ \A q \in Processes \ {p} : held'[q] = held[q]
    BY <2>1, <2>2
  <2>5. work' \in [Processes -> Work] /\ OwnJob' /\ Carries' /\ Connects'
    BY <1>0, <1>4, <2>1, <2>3, <2>4, Moves DEF Hydrate, AwaitsProvider, HasResult
  <2>6. held' \in [Processes -> [Providers -> Token \cup {NoToken}]]
    BY <2>1, <2>2
  <2> QED
    BY <1>4, <2>5, <2>6 DEF Hydrate
<1> QED
  BY <1>1, <1>2, <1>3, <1>4

(* The steps that wait for the provider. *)
LEMMA ProviderInv ==
  ASSUME SyncInv, NEW p \in Processes,
         \/ \E result \in LogStatus : Fetched(p, result)
         \/ Unauthorized(p) \/ Refreshed(p) \/ RefreshRefused(p)
  PROVE  SyncInv'
<1> USE DEF SyncInv, TypeOK
<1>0. /\ work[p].pc \in AwaitsProvider /\ work[p].pc # "idle"
      /\ work[p].token \in Token /\ Held(p, work[p].on) \in Token
      /\ work[p].from \in Integrations
  BY DEF Fetched, Unauthorized, Refreshed, RefreshRefused, AwaitsProvider, Carries
<1>1. ASSUME NEW result \in LogStatus, Fetched(p, result) PROVE SyncInv'
  <2>1. work' \in [Processes -> Work] /\ OwnJob' /\ Carries' /\ Connects'
    BY <1>0, <1>1, SyncReturns DEF Fetched
  <2> QED
    BY <1>1, <2>1 DEF Fetched
<1>2. CASE RefreshRefused(p)
  <2>1. work' \in [Processes -> Work] /\ OwnJob' /\ Carries' /\ Connects'
    BY <1>0, <1>2, SyncReturns DEF RefreshRefused, LogStatus
  <2> QED
    BY <1>2, <2>1 DEF RefreshRefused
<1>3. CASE Unauthorized(p)
  <2> DEFINE owner == Held(p, work[p].on).owner
             w == [work[p] EXCEPT !.pc = "refresh", !.from = owner]
  <2>1. work' = [work EXCEPT ![p] = w]
    BY <1>3 DEF Unauthorized
  <2>2. owner \in Integrations
    BY <1>0 DEF Token
  <2> HIDE DEF owner
  <2>3. w \in Work /\ w.pc = "refresh" /\ w.on = work[p].on /\ w.token \in Token
        /\ w.from \in Integrations
    BY <1>0, <2>2 DEF Work, Pc
  <2> HIDE DEF w
  <2>4. work' \in [Processes -> Work] /\ OwnJob' /\ Carries' /\ Connects'
    BY <1>0, <1>3, <2>1, <2>3, Moves DEF Unauthorized, AwaitsProvider, HasResult, Held
  <2> QED
    BY <1>3, <2>4 DEF Unauthorized
<1>4. CASE Refreshed(p)
  <2> DEFINE w == [work[p] EXCEPT !.pc = "refetch"]
             v == Connector(work[p].on)
             token == Fresh(work[p].from)
  <2>1. work' = [work EXCEPT ![p] = w] /\ held' = [held EXCEPT ![p][v] = token]
    BY <1>4 DEF Refreshed, Hold, Goto
  <2>2. token \in Token /\ v \in Providers
    BY <1>0, AtWork, FreshIsToken
  <2>3. w \in Work /\ w.pc = "refetch" /\ w.on = work[p].on /\ w.token \in Token
        /\ w.from \in Integrations
    BY <1>0 DEF Work, Pc
  <2> HIDE DEF w, token
  <2>4. held'[p][v] \in Token /\ \A q \in Processes \ {p} : held'[q] = held[q]
    BY <2>1, <2>2
  <2>5. work' \in [Processes -> Work] /\ OwnJob' /\ Carries' /\ Connects'
    BY <1>0, <1>4, <2>1, <2>3, <2>4, Moves DEF Refreshed, AwaitsProvider, HasResult
  <2>6. held' \in [Processes -> [Providers -> Token \cup {NoToken}]]
    BY <2>1, <2>2
  <2>7. grants' \in [Integrations -> Nat]
    BY <1>0, <1>4 DEF Refreshed
  <2> QED
    BY <1>4, <2>5, <2>6, <2>7 DEF Refreshed
<1> QED
  BY <1>1, <1>2, <1>3, <1>4

(* The steps from the provider's answer to the end of the job. *)
LEMMA StoreInv ==
  ASSUME SyncInv, NEW p \in Processes,
         \/ SaveCredential(p) \/ Persist(p) \/ SetStatus(p) \/ WriteLog(p)
         \/ ReportIssue(p) \/ SetError(p) \/ LogError(p) \/ CallFails(p)
  PROVE  SyncInv'
<1> USE DEF SyncInv, TypeOK
<1>0. work[p].pc # "idle" /\ work[p].on \in Integrations
  BY AtWork DEF SaveCredential, Persist, SetStatus, WriteLog, ReportIssue, SetError,
     LogError, CallFails
<1> DEFINE Later == Pc \ (AwaitsProvider \cup {"idle", "hydrate", "save"})
           Kept == work' \in [Processes -> Work] /\ OwnJob' /\ Carries' /\ Connects'
<1>1. {"persist", "status", "log", "issue", "error", "errorlog"} \subseteq Later
  BY DEF Pc, AwaitsProvider
<1> HIDE DEF Later
<1>2. ASSUME NEW pc \in Later, work[p].pc \in HasResult \/ pc \notin HasResult,
             Goto(p, pc), job' = job, held' = held, connecting' = connecting
      PROVE  Kept
  BY <1>0, <1>2, Goes DEF Later
<1>3. CASE SaveCredential(p)
  <2>1. Kept
    BY <1>1, <1>2, <1>3 DEF SaveCredential, HasResult
  <2>2. work[p].token \in Token
    BY <1>3 DEF SaveCredential, Carries
  <2>3. [creds[work[p].on] EXCEPT ![work[p].row] = work[p].token] \in Seq(Token)
    <3>1. creds[work[p].on] \in Seq(Token)
      BY <1>0
    <3>2. CASE work[p].row \in DOMAIN creds[work[p].on]
      BY <2>2, <3>1, <3>2, ExceptSeq
    <3>3. CASE work[p].row \notin DOMAIN creds[work[p].on]
      <4>1. [creds[work[p].on] EXCEPT ![work[p].row] = work[p].token] = creds[work[p].on]
        BY <3>1, <3>3
      <4> QED
        BY <3>1, <4>1
    <3> QED
      BY <3>2, <3>3
  <2> QED
    BY <1>0, <1>3, <2>1, <2>3 DEF SaveCredential
<1>4. CASE Persist(p)
  <2>1. Kept
    BY <1>1, <1>2, <1>4 DEF Persist, HasResult
  <2> QED
    BY <1>0, <1>4, <2>1 DEF Persist
<1>5. CASE SetStatus(p)
  <2>1. Kept
    BY <1>1, <1>2, <1>5 DEF SetStatus, HasResult
  <2> QED
    BY <1>5, <2>1 DEF SetStatus, Status
<1>6. CASE WriteLog(p)
  <2>1. Kept /\ job' \in [Integrations -> Job]
    <3>1. CASE Completes(p)
      BY <1>0, <1>6, <3>1, Finishes DEF WriteLog
    <3>2. CASE work[p].result # "SUCCESS" /\ Goto(p, "issue") /\ UNCHANGED job
      BY <1>1, <1>2, <1>6, <3>2 DEF WriteLog, HasResult
    <3> QED
      BY <1>6, <3>1, <3>2 DEF WriteLog
  <2>2. logs' \in [Integrations -> SUBSET LogStatus]
    BY <1>6 DEF WriteLog, Logged, Carries, HasResult
  <2> QED
    BY <1>6, <2>1, <2>2 DEF WriteLog
<1>7. CASE ReportIssue(p)
  BY <1>0, <1>7, Finishes DEF ReportIssue
<1>8. CASE SetError(p)
  <2>1. Kept
    BY <1>1, <1>2, <1>8 DEF SetError, HasResult
  <2> QED
    BY <1>8, <2>1 DEF SetError, Status
<1>9. CASE LogError(p)
  <2>1. Kept /\ job' \in [Integrations -> Job]
    BY <1>0, <1>9, Finishes DEF LogError
  <2> QED
    BY <1>9, <2>1 DEF LogError, LogStatus
<1>10. CASE CallFails(p)
  <2>1. Kept /\ job' \in [Integrations -> Job]
    <3>1. CASE work[p].pc \in {"persist", "status", "log", "issue"}
      BY <1>1, <1>2, <1>10, <3>1 DEF CallFails, FirstOfFailure, HasResult
    <3>2. CASE work[p].pc \notin {"persist", "status", "log", "issue"}
      BY <1>0, <1>10, <3>2, Finishes DEF CallFails
    <3> QED
      BY <3>1, <3>2
  <2> QED
    BY <1>10, <2>1 DEF CallFails
<1> QED
  BY <1>3, <1>4, <1>5, <1>6, <1>7, <1>8, <1>9, <1>10

LEMMA StepInv == SyncInv /\ [Next]_vars => SyncInv'
<1> SUFFICES ASSUME SyncInv, [Next]_vars PROVE SyncInv'
  OBVIOUS
<1>1. CASE UNCHANGED vars
  BY <1>1 DEF vars, SyncInv, TypeOK, OwnJob, Carries, Held, Connects
<1>2. ASSUME NEW p \in Processes, Step(p) PROVE SyncInv'
  BY <1>2, BeginInv, ProviderInv, StoreInv DEF Step
<1> QED
  BY <1>1, <1>2, RequestInv, ConnectInv, TakeInv, CrashInv, StoreInv DEF Next

(***************************************************************************)
(* The theorems                                                            *)
(***************************************************************************)

(* Tables, jobs, connectors and workers keep their types; in particular a  *)
(* sync never runs, and a credential is never stored, without a token.     *)
THEOREM TypeCorrect == Spec => []TypeOK
<1>1. SyncInv => TypeOK
  BY DEF SyncInv
<1> QED
  BY <1>1, InitInv, StepInv, PTL DEF Spec

(* However many processes, requests and scheduler runs enqueue it, and     *)
(* whatever fails, is retried or crashes: an integration is synced by one  *)
(* process at a time.                                                      *)
THEOREM SyncsAlone == Spec => []OneSyncAtATime
<1>1. SyncInv => OneSyncAtATime
  <2> SUFFICES ASSUME SyncInv, NEW i \in Integrations
               PROVE  Cardinality(Syncing(i)) <= 1
    BY DEF OneSyncAtATime
  <2>1. CASE Syncing(i) = {}
    BY <2>1, FS_EmptySet
  <2>2. CASE Syncing(i) # {}
    <3>1. PICK p \in Processes : p \in Syncing(i)
      BY <2>2 DEF Syncing
    <3>2. Syncing(i) = {p}
      BY <3>1, SyncAssumption DEF SyncInv, OwnJob, Syncing
    <3>3. Cardinality({p}) = 1
      BY FS_Singleton, Zenon
    <3> QED
      BY <3>2, <3>3
  <2> QED
    BY <2>1, <2>2
<1> QED
  BY <1>1, InitInv, StepInv, PTL DEF Spec

(***************************************************************************)
(* PENDING.  That a worker has the integration as long as it is PENDING is *)
(* not inductive: the worker's last steps must find another status.        *)
(***************************************************************************)

(* Where a worker is from the write of PENDING to the next of the status. *)
Between == {"credential", "hydrate", "fetch", "refresh", "refetch", "save",
            "persist", "status", "error"}

PendingInv ==
    failures + crashes = 0 =>
        \A i \in Integrations : status[i] = "PENDING" =>
            \E p \in Processes : work[p].on = i /\ work[p].pc \in Between

(* A worker that is somewhere between stays there. *)
LEMMA StaysBetween ==
  ASSUME SyncInv, PendingInv, NEW p \in Processes,
         \A q \in Processes \ {p} : work'[q] = work[q],
         work'[p].on = work[p].on, work'[p].pc \in Between,
         status' = status, failures' = failures, crashes' = crashes
  PROVE  PendingInv'
<1> SUFFICES ASSUME failures + crashes = 0, NEW i \in Integrations, status[i] = "PENDING"
             PROVE  \E q \in Processes : work'[q].on = i /\ work'[q].pc \in Between
  BY DEF PendingInv
<1>1. PICK q \in Processes : work[q].on = i /\ work[q].pc \in Between
  BY DEF PendingInv
<1>2. work'[q].on = i /\ work'[q].pc \in Between
  BY <1>1 DEF SyncInv, TypeOK
<1> QED
  BY <1>2

(* A worker that writes the status, or is done, leaves no PENDING. *)
LEMMA LeavesBetween ==
  ASSUME SyncInv, PendingInv, NEW p \in Processes, work[p].pc # "idle",
         \A q \in Processes \ {p} : work'[q] = work[q],
         \A i \in Integrations : i # work[p].on => status'[i] = status[i],
         \/ status'[work[p].on] # "PENDING"
         \/ status' = status /\ work[p].pc \notin Between,
         failures' = failures, crashes' = crashes
  PROVE  PendingInv'
<1> SUFFICES ASSUME failures + crashes = 0, NEW i \in Integrations, status'[i] = "PENDING"
             PROVE  \E q \in Processes : work'[q].on = i /\ work'[q].pc \in Between
  BY DEF PendingInv
<1>1. status[i] = "PENDING"
  BY DEF SyncInv, TypeOK
<1>2. PICK q \in Processes : work[q].on = i /\ work[q].pc \in Between
  BY <1>1 DEF PendingInv
<1>3. q # p
  BY <1>2
<1> QED
  BY <1>2, <1>3

(* The worker's next step does not change its integration. *)
LEMMA GoesOn ==
  ASSUME SyncInv, NEW p \in Processes, NEW w, work' = [work EXCEPT ![p] = w],
         w.on = work[p].on, w.pc \in Between
  PROVE  work'[p].on = work[p].on /\ work'[p].pc \in Between
         /\ \A q \in Processes \ {p} : work'[q] = work[q]
BY DEF SyncInv, TypeOK

LEMMA PendingKept == SyncInv /\ PendingInv /\ [Next]_vars => PendingInv'
<1> SUFFICES ASSUME SyncInv, PendingInv, [Next]_vars PROVE PendingInv'
  OBVIOUS
<1> USE DEF SyncInv, TypeOK
<1>1. CASE UNCHANGED vars
  BY <1>1 DEF vars, PendingInv
<1>2. ASSUME NEW i \in Integrations,
             Disconnect(i) \/ AskSync(i) \/ AddJob(i) \/ ForgetJob(i)
      PROVE  PendingInv'
  BY <1>2 DEF Disconnect, AskSync, AddJob, ForgetJob, PendingInv
<1>3. ASSUME NEW p \in Processes, NEW i \in Integrations, Connect(p, i)
      PROVE  PendingInv'
  BY <1>3 DEF Connect, ConnectWith, PendingInv
<1>4. ASSUME NEW p \in Processes, Continue(p) PROVE PendingInv'
  BY <1>4 DEF Continue, StoreCredential, Authenticate, LogConnection,
     MarkMilestone, PendingInv
<1>5. ASSUME NEW p \in Processes, NEW i \in Integrations, TakeJob(p, i)
      PROVE  PendingInv'
  BY <1>5 DEF TakeJob, PendingInv, Between
<1>6. ASSUME NEW p \in Processes, CallFails(p) \/ ConnectFails(p) \/ Crash(p)
      PROVE  PendingInv'
  BY <1>6 DEF CallFails, ConnectFails, Crash, PendingInv
<1>7. ASSUME NEW p \in Processes, Step(p) PROVE PendingInv'
  <2>0. work[p].pc # "idle" /\ work[p].on \in Integrations
    BY <1>7, AtWork DEF Step, Lookup, MarkPending, LoadCredential, Hydrate, Fetched,
       Unauthorized, Refreshed, RefreshRefused, SaveCredential, Persist, SetStatus,
       WriteLog, ReportIssue, SetError, LogError
  <2>1. CASE Lookup(p) \/ WriteLog(p) \/ ReportIssue(p) \/ LogError(p)
    BY <2>0, <2>1, LeavesBetween DEF Lookup, WriteLog, ReportIssue, LogError, Goto, Skip,
       Completes, Throws, Between
  <2>2. CASE SetStatus(p) \/ SetError(p)
    BY <2>0, <2>2, LeavesBetween DEF SetStatus, SetError, Goto
  <2>3. CASE MarkPending(p)
    <3>1. work'[p].on = work[p].on /\ work'[p].pc \in Between
      BY <2>3 DEF MarkPending, Goto, Between, Work
    <3>2. \A q \in Processes : work[q].pc \in Between => work'[q] = work[q]
      BY <2>3 DEF MarkPending, Goto, Between
    <3>3. failures' = failures /\ crashes' = crashes
          /\ \A i \in Integrations : i # work[p].on => status'[i] = status[i]
      BY <2>3 DEF MarkPending
    <3> SUFFICES ASSUME failures + crashes = 0, NEW i \in Integrations, status'[i] = "PENDING"
                 PROVE  \E q \in Processes : work'[q].on = i /\ work'[q].pc \in Between
      BY <3>3 DEF PendingInv
    <3>4. CASE i = work[p].on
      BY <3>1, <3>4
    <3>5. CASE i # work[p].on
      <4>1. PICK q \in Processes : work[q].on = i /\ work[q].pc \in Between
        BY <3>3, <3>5 DEF PendingInv
      <4> QED
        BY <3>2, <4>1
    <3> QED
      BY <3>4, <3>5
  <2>4. CASE LoadCredential(p)
    <3> DEFINE rows == creds[work[p].on]
               w == IF rows = <<>> THEN [work[p] EXCEPT !.pc = "error"]
                    ELSE [work[p] EXCEPT !.pc = "hydrate", !.row = Len(rows),
                                         !.token = rows[Len(rows)]]
    <3>1. work' = [work EXCEPT ![p] = w]
      BY <2>4 DEF LoadCredential, Goto, FirstOfFailure
    <3> HIDE DEF rows
    <3>2. w.on = work[p].on /\ w.pc \in Between
      BY DEF Between, Work
    <3> HIDE DEF w
    <3>3. work'[p].on = work[p].on /\ work'[p].pc \in Between
          /\ \A q \in Processes \ {p} : work'[q] = work[q]
      BY <3>1, <3>2, GoesOn
    <3> QED
      BY <2>4, <3>3, StaysBetween DEF LoadCredential
  <2>5. CASE Hydrate(p) \/ Unauthorized(p)
    <3>0. PICK pc \in Between :
            \E from : work' = [work EXCEPT ![p] = [work[p] EXCEPT !.pc = pc, !.from = from]]
      BY <2>5 DEF Hydrate, Unauthorized, Between
    <3>1. PICK from : work' = [work EXCEPT ![p] = [work[p] EXCEPT !.pc = pc, !.from = from]]
      BY <3>0
    <3> DEFINE w == [work[p] EXCEPT !.pc = pc, !.from = from]
    <3>2. w.on = work[p].on /\ w.pc \in Between
      BY DEF Between, Work
    <3>3. work' = [work EXCEPT ![p] = w]
      BY <3>1
    <3> HIDE DEF w
    <3>4. work'[p].on = work[p].on /\ work'[p].pc \in Between
          /\ \A q \in Processes \ {p} : work'[q] = work[q]
      BY <3>2, <3>3, GoesOn
    <3> QED
      BY <2>5, <3>4, StaysBetween DEF Hydrate, Unauthorized
  <2>6. CASE Refreshed(p) \/ SaveCredential(p) \/ Persist(p)
    <3>1. work'[p].on = work[p].on /\ work'[p].pc \in Between
          /\ \A q \in Processes \ {p} : work'[q] = work[q]
      BY <2>6 DEF Refreshed, SaveCredential, Persist, Goto, Between, Work
    <3> QED
      BY <2>6, <3>1, StaysBetween DEF Refreshed, SaveCredential, Persist
  <2>7. CASE RefreshRefused(p) \/ \E result \in LogStatus : Fetched(p, result)
    <3>0. PICK pc \in Between : \E result : work' = [work EXCEPT ![p] =
                   [work[p] EXCEPT !.pc = pc, !.token = Held(p, work[p].on), !.result = result]]
      BY <2>7 DEF RefreshRefused, Fetched, Synced, Between
    <3>1. PICK result : work' = [work EXCEPT ![p] =
                   [work[p] EXCEPT !.pc = pc, !.token = Held(p, work[p].on), !.result = result]]
      BY <3>0
    <3> DEFINE w == [work[p] EXCEPT !.pc = pc, !.token = Held(p, work[p].on), !.result = result]
    <3>2. w.on = work[p].on /\ w.pc \in Between
      BY DEF Between, Work
    <3>3. work' = [work EXCEPT ![p] = w]
      BY <3>1
    <3> HIDE DEF w
    <3>4. work'[p].on = work[p].on /\ work'[p].pc \in Between
          /\ \A q \in Processes \ {p} : work'[q] = work[q]
      BY <3>2, <3>3, GoesOn
    <3> QED
      BY <2>7, <3>4, StaysBetween DEF RefreshRefused, Fetched
  <2> QED
    BY <1>7, <2>1, <2>2, <2>3, <2>4, <2>5, <2>6, <2>7 DEF Step
<1> QED
  BY <1>1, <1>2, <1>3, <1>4, <1>5, <1>6, <1>7 DEF Next

(* Without a failed call or a crash, PENDING, which no request can sync    *)
(* and every job skips, is only seen while a worker has the integration.   *)
THEOREM PendingIsTemporary == Spec => []PendingOnlyWhileSyncing
<1>1. Init => PendingInv
  BY DEF Init, PendingInv
<1>2. PendingInv => PendingOnlyWhileSyncing
  BY DEF PendingInv, PendingOnlyWhileSyncing, Syncing
<1> QED
  BY <1>1, <1>2, InitInv, StepInv, PendingKept, PTL DEF Spec

(***************************************************************************)
(* ERROR.  Whoever writes ERROR goes on to write the log that says why.    *)
(***************************************************************************)

OwesLog(p) ==
    \/ work[p].pc = "errorlog"
    \/ work[p].pc = "log" /\ work[p].result = "FAILED"

ErrorInv ==
    failures + crashes = 0 =>
        \A i \in Integrations : status[i] = "ERROR" =>
            \/ "FAILED" \in logs[i]
            \/ \E p \in Processes : work[p].on = i /\ OwesLog(p)

(* A worker's step that pays what it owes, and owes a log for the ERROR    *)
(* that it writes.                                                         *)
LEMMA PaysLog ==
  ASSUME SyncInv, ErrorInv, NEW p \in Processes,
         \A q \in Processes \ {p} : work'[q] = work[q],
         \A i \in Integrations : logs[i] \subseteq logs'[i],
         \A i \in Integrations : status'[i] = "ERROR" =>
             status[i] = "ERROR" \/ (work'[p].on = i /\ OwesLog(p)'),
         \A i \in Integrations : work[p].on = i /\ OwesLog(p) => "FAILED" \in logs'[i],
         failures' = failures, crashes' = crashes
  PROVE  ErrorInv'
<1> SUFFICES ASSUME failures + crashes = 0, NEW i \in Integrations, status'[i] = "ERROR"
             PROVE  \/ "FAILED" \in logs'[i]
                    \/ \E q \in Processes : work'[q].on = i /\ OwesLog(q)'
  BY DEF ErrorInv
<1>1. CASE work'[p].on = i /\ OwesLog(p)'
  BY <1>1
<1>2. CASE "FAILED" \in logs[i]
  BY <1>2
<1>3. ASSUME NEW q \in Processes, work[q].on = i, OwesLog(q)
      PROVE  \/ "FAILED" \in logs'[i]
             \/ \E r \in Processes : work'[r].on = i /\ OwesLog(r)'
  <2>1. CASE q = p
    BY <1>3, <2>1
  <2>2. CASE q # p
    <3>1. work'[q] = work[q]
      BY <2>2
    <3>2. work'[q].on = i /\ OwesLog(q)'
      BY <1>3, <3>1 DEF OwesLog
    <3> QED
      BY <3>2
  <2> QED
    BY <2>1, <2>2
<1> QED
  BY <1>1, <1>2, <1>3 DEF ErrorInv

(* A step of someone else that writes no ERROR.                            *)
LEMMA NoErrorWritten ==
  ASSUME ErrorInv, work' = work,
         \A i \in Integrations : logs[i] \subseteq logs'[i],
         \A i \in Integrations : status'[i] = "ERROR" => status[i] = "ERROR",
         failures' = failures, crashes' = crashes
  PROVE  ErrorInv'
BY DEF ErrorInv, OwesLog

LEMMA ErrorKept == SyncInv /\ ErrorInv /\ [Next]_vars => ErrorInv'
<1> SUFFICES ASSUME SyncInv, ErrorInv, [Next]_vars PROVE ErrorInv'
  OBVIOUS
<1> USE DEF SyncInv, TypeOK
<1>1. CASE UNCHANGED vars
  BY <1>1 DEF vars, ErrorInv, OwesLog
<1>2. ASSUME NEW i \in Integrations,
             Disconnect(i) \/ AskSync(i) \/ AddJob(i) \/ ForgetJob(i)
      PROVE  ErrorInv'
  BY <1>2, NoErrorWritten DEF Disconnect, AskSync, AddJob, ForgetJob
<1>3. ASSUME NEW p \in Processes, NEW i \in Integrations, Connect(p, i)
      PROVE  ErrorInv'
  BY <1>3, NoErrorWritten DEF Connect, ConnectWith
<1>4. ASSUME NEW p \in Processes, Continue(p) PROVE ErrorInv'
  <2>1. CASE StoreCredential(p) \/ Authenticate(p) \/ MarkMilestone(p)
    BY <2>1, NoErrorWritten DEF StoreCredential, Authenticate, MarkMilestone
  <2>2. CASE LogConnection(p)
    <3>1. \A i \in Integrations : logs[i] \subseteq logs'[i]
      BY <2>2 DEF LogConnection
    <3> QED
      BY <2>2, <3>1, NoErrorWritten DEF LogConnection
  <2> QED
    BY <1>4, <2>1, <2>2 DEF Continue
<1>5. ASSUME NEW p \in Processes, NEW i \in Integrations, TakeJob(p, i)
      PROVE  ErrorInv'
  <2>1. ~OwesLog(p) /\ \A q \in Processes \ {p} : work'[q] = work[q]
    BY <1>5 DEF TakeJob, OwesLog
  <2>2. status' = status /\ logs' = logs /\ failures' = failures /\ crashes' = crashes
    BY <1>5 DEF TakeJob
  <2> QED
    BY <2>1, <2>2, PaysLog
<1>6. ASSUME NEW p \in Processes, CallFails(p) \/ ConnectFails(p) \/ Crash(p)
      PROVE  ErrorInv'
  BY <1>6 DEF CallFails, ConnectFails, Crash, ErrorInv
<1>7. ASSUME NEW p \in Processes, Step(p) PROVE ErrorInv'
  <2>0. work[p].pc # "idle" /\ work[p].on \in Integrations
    BY <1>7, AtWork DEF Step, Lookup, MarkPending, LoadCredential, Hydrate, Fetched,
       Unauthorized, Refreshed, RefreshRefused, SaveCredential, Persist, SetStatus,
       WriteLog, ReportIssue, SetError, LogError
  <2>1. CASE \/ Lookup(p) \/ LoadCredential(p) \/ Hydrate(p) \/ Unauthorized(p) \/ Refreshed(p)
             \/ RefreshRefused(p) \/ (\E result \in LogStatus : Fetched(p, result))
             \/ SaveCredential(p) \/ Persist(p) \/ ReportIssue(p)
    <3>1. ~OwesLog(p)
      BY <2>1 DEF OwesLog, Lookup, LoadCredential, Hydrate, Fetched, Unauthorized, Refreshed,
         RefreshRefused, SaveCredential, Persist, ReportIssue
    <3>2. PICK w : work' = [work EXCEPT ![p] = w]
      BY <2>1 DEF Lookup, LoadCredential, Hydrate, Fetched, Unauthorized, Refreshed,
         RefreshRefused, SaveCredential, Persist, ReportIssue, Goto, Skip, Completes, Synced
    <3>3. status' = status /\ logs' = logs /\ failures' = failures /\ crashes' = crashes
      BY <2>1 DEF Lookup, LoadCredential, Hydrate, Fetched, Unauthorized, Refreshed,
         RefreshRefused, SaveCredential, Persist, ReportIssue
    <3> QED
      BY <3>1, <3>2, <3>3, PaysLog
  <2>2. CASE MarkPending(p)
    BY <2>0, <2>2, PaysLog DEF MarkPending, Goto, OwesLog
  <2>3. CASE SetStatus(p)
    <3>1. work'[p].on = work[p].on /\ work'[p].pc = "log" /\ work'[p].result = work[p].result
          /\ \A q \in Processes \ {p} : work'[q] = work[q]
      BY <2>3 DEF SetStatus, Goto, Work
    <3>2. \A i \in Integrations : status'[i] = "ERROR" =>
              status[i] = "ERROR" \/ (work'[p].on = i /\ OwesLog(p)')
      BY <2>3, <3>1 DEF SetStatus, OwesLog
    <3> QED
      BY <2>3, <3>1, <3>2, PaysLog DEF SetStatus, OwesLog
  <2>4. CASE SetError(p)
    <3>1. work'[p].on = work[p].on /\ work'[p].pc = "errorlog"
          /\ \A q \in Processes \ {p} : work'[q] = work[q]
      BY <2>4 DEF SetError, Goto, Work
    <3>2. \A i \in Integrations : status'[i] = "ERROR" =>
              status[i] = "ERROR" \/ (work'[p].on = i /\ OwesLog(p)')
      BY <2>4, <3>1 DEF SetError, OwesLog
    <3> QED
      BY <2>4, <3>1, <3>2, PaysLog DEF SetError, OwesLog
  <2>5. CASE WriteLog(p)
    <3>1. \A q \in Processes \ {p} : work'[q] = work[q]
      BY <2>5 DEF WriteLog, Completes, Goto
    <3>2. \A i \in Integrations : logs[i] \subseteq logs'[i]
      BY <2>0, <2>5 DEF WriteLog
    <3>3. OwesLog(p) => "FAILED" \in logs'[work[p].on]
      BY <2>0, <2>5 DEF WriteLog, Logged, OwesLog
    <3> QED
      BY <2>5, <3>1, <3>2, <3>3, PaysLog DEF WriteLog
  <2>6. CASE LogError(p)
    <3>1. \A q \in Processes \ {p} : work'[q] = work[q]
      BY <2>6 DEF LogError, Throws
    <3>2. \A i \in Integrations : logs[i] \subseteq logs'[i]
      BY <2>0, <2>6 DEF LogError
    <3>3. "FAILED" \in logs'[work[p].on]
      BY <2>0, <2>6 DEF LogError
    <3> QED
      BY <2>6, <3>1, <3>2, <3>3, PaysLog DEF LogError
  <2> QED
    BY <1>7, <2>1, <2>2, <2>3, <2>4, <2>5, <2>6 DEF Step
<1> QED
  BY <1>1, <1>2, <1>3, <1>4, <1>5, <1>6, <1>7 DEF Next

(* Without a failed call or a crash, an integration that is shown with     *)
(* ERROR has a log that says why, or a worker that is about to write it.   *)
THEOREM ErrorsAreLogged == Spec => []ErrorIsLogged
<1>1. Init => ErrorInv
  BY DEF Init, ErrorInv
<1>2. ErrorInv => ErrorIsLogged
  BY DEF ErrorInv, ErrorIsLogged, Syncing
<1> QED
  BY <1>1, <1>2, InitInv, StepInv, ErrorKept, PTL DEF Spec

(***************************************************************************)
(* What a job ingests.  That it ingests once is not inductive: a worker    *)
(* that may still ingest, or a job that may yet be taken, must not have    *)
(* ingested before.                                                        *)
(***************************************************************************)

(* A worker whose job has been ingested does not do so again: it is past   *)
(* it, or another failure would be needed, or it will skip the job.        *)
PastIngest(i, p) ==
    \/ work[p].pc \in {"status", "log", "issue"}
    \/ work[p].pc = "error" /\ failures = 1
    \/ work[p].pc \in {"lookup", "errorlog"} /\ status[i] # "ACTIVE"

IngestedOf(i) ==
    /\ batches[i] <= 1 + crashes + reopened[i]
    /\ batches[i] > crashes + reopened[i] =>
           /\ job[i].state = "waiting" => status[i] # "ACTIVE"
           /\ \A p \in Processes : work[p].on = i => PastIngest(i, p)

IngestInv == failures <= 1 => \A i \in Integrations : IngestedOf(i)

OwnIngested(p, i) ==
    /\ batches[i] <= 1 + crashes + reopened[i]
    /\ batches[i] > crashes + reopened[i] =>
           /\ job[i].state = "waiting" => status[i] # "ACTIVE"
           /\ work[p].on = i => PastIngest(i, p)

(* A worker's step only concerns the job that it has.                      *)
LEMMA OwnIngest ==
  ASSUME SyncInv, IngestInv, NEW p \in Processes, NEW i \in Integrations,
         work[p].pc # "idle", work[p].on = i,
         \A q \in Processes \ {p} : work'[q] = work[q],
         work'[p].on \in {i, "nobody"},
         \A j \in Integrations \ {i} :
             status'[j] = status[j] /\ job'[j] = job[j] /\ batches'[j] = batches[j],
         failures' \in {failures, failures + 1}, crashes' = crashes, reopened' = reopened,
         failures' <= 1 => OwnIngested(p, i)'
  PROVE  IngestInv'
<1> USE DEF SyncInv, TypeOK, OwnIngested
<1> SUFFICES ASSUME failures' <= 1, NEW j \in Integrations PROVE IngestedOf(j)'
  BY DEF IngestInv
<1>0. failures <= 1 /\ IngestedOf(j)
  BY DEF IngestInv
<1>1. CASE j = i
  <2>1. \A q \in Processes : work'[q].on = i => q = p
    BY DEF OwnJob
  <2> QED
    BY <1>1, <2>1 DEF IngestedOf
<1>2. CASE j # i
  <2>1. batches'[j] = batches[j] /\ job'[j] = job[j] /\ status'[j] = status[j]
    BY <1>2
  <2>2. ASSUME NEW q \in Processes, work'[q].on = j, batches[j] > crashes + reopened[j]
        PROVE  PastIngest(j, q)'
    <3>1. q # p
      BY <1>2, <2>2, SyncAssumption
    <3>2. work'[q] = work[q] /\ PastIngest(j, q)
      BY <1>0, <2>2, <3>1 DEF IngestedOf
    <3> QED
      BY <1>0, <2>1, <3>2 DEF PastIngest
  <2> QED
    BY <1>0, <2>1, <2>2 DEF IngestedOf
<1> QED
  BY <1>1, <1>2

(* What a job that has been ingested allows of its worker.                 *)
LEMMA WorkerIngest ==
  ASSUME SyncInv, IngestInv, failures <= 1, NEW p \in Processes, work[p].pc # "idle"
  PROVE  /\ work[p].on \in Integrations
         /\ batches[work[p].on] \in Nat /\ crashes \in Nat /\ reopened[work[p].on] \in Nat
         /\ batches[work[p].on] <= 1 + crashes + reopened[work[p].on]
         /\ batches[work[p].on] > crashes + reopened[work[p].on] => PastIngest(work[p].on, p)
         /\ job[work[p].on].state = "active"
BY AtWork DEF SyncInv, TypeOK, IngestInv, IngestedOf, OwnJob

(* A worker's step leaves the other workers alone, and its own integration *)
(* is still the one that it has, or none.                                  *)
LEMMA OwnWork ==
  ASSUME SyncInv, NEW p \in Processes, Step(p)
  PROVE  /\ \A q \in Processes \ {p} : work'[q] = work[q]
         /\ work'[p].on \in {work[p].on, "nobody"}
<1> USE DEF SyncInv, TypeOK
<1>0. work[p] \in Work
  OBVIOUS
<1>1. ASSUME NEW w, work' = [work EXCEPT ![p] = w], w.on \in {work[p].on, "nobody"}
      PROVE  /\ \A q \in Processes \ {p} : work'[q] = work[q]
             /\ work'[p].on \in {work[p].on, "nobody"}
  BY <1>1
<1>2. ASSUME NEW pc, Goto(p, pc)
      PROVE  \E w : work' = [work EXCEPT ![p] = w] /\ w.on \in {work[p].on, "nobody"}
  <2>1. work' = [work EXCEPT ![p] = [work[p] EXCEPT !.pc = pc]]
    BY <1>2 DEF Goto
  <2>2. [work[p] EXCEPT !.pc = pc].on = work[p].on
    BY <1>0 DEF Work
  <2> QED
    BY <2>1, <2>2
<1>3. CASE \/ Lookup(p) \/ MarkPending(p) \/ Refreshed(p) \/ SaveCredential(p) \/ Persist(p)
           \/ SetStatus(p) \/ WriteLog(p) \/ ReportIssue(p) \/ SetError(p) \/ LogError(p)
  <2>1. (\E pc : Goto(p, pc)) \/ work' = [work EXCEPT ![p] = IdleWork]
    BY <1>3 DEF Lookup, Skip, MarkPending, Refreshed, SaveCredential, Persist,
       SetStatus, WriteLog, ReportIssue, SetError, LogError, Completes, Throws
  <2>2. IdleWork.on = "nobody"
    BY DEF IdleWork
  <2> QED
    BY <1>1, <1>2, <2>1, <2>2
<1>4. CASE LoadCredential(p)
  <2>1. CASE creds[work[p].on] = <<>>
    BY <1>1, <1>2, <1>4, <2>1 DEF LoadCredential
  <2>2. CASE creds[work[p].on] # <<>>
    <3> DEFINE rows == creds[work[p].on]
               w == [work[p] EXCEPT !.pc = "hydrate", !.row = Len(rows), !.token = rows[Len(rows)]]
    <3>1. work' = [work EXCEPT ![p] = w]
      BY <1>4, <2>2 DEF LoadCredential
    <3> HIDE DEF rows
    <3>2. w.on = work[p].on
      BY <1>0 DEF Work
    <3> QED
      BY <1>1, <3>1, <3>2
  <2> QED
    BY <2>1, <2>2
<1>5. CASE Hydrate(p) \/ Unauthorized(p)
  <2>1. PICK pc, from : work' = [work EXCEPT ![p] = [work[p] EXCEPT !.pc = pc, !.from = from]]
    BY <1>5 DEF Hydrate, Unauthorized
  <2>2. [work[p] EXCEPT !.pc = pc, !.from = from].on = work[p].on
    BY <1>0 DEF Work
  <2> QED
    BY <1>1, <2>1, <2>2
<1>6. CASE RefreshRefused(p) \/ \E result \in LogStatus : Fetched(p, result)
  <2>1. PICK pc, token, result : work' = [work EXCEPT ![p] =
            [work[p] EXCEPT !.pc = pc, !.token = token, !.result = result]]
    BY <1>6 DEF RefreshRefused, Fetched, Synced
  <2>2. [work[p] EXCEPT !.pc = pc, !.token = token, !.result = result].on = work[p].on
    BY <1>0 DEF Work
  <2> QED
    BY <1>1, <2>1, <2>2
<1> QED
  BY <1>3, <1>4, <1>5, <1>6 DEF Step

LEMMA IngestStep ==
  ASSUME SyncInv, IngestInv, NEW p \in Processes, Step(p)
  PROVE  IngestInv'
<1> USE DEF SyncInv, TypeOK
<1>0. work[p].pc # "idle" /\ work[p].on \in Integrations
  BY AtWork DEF Step, Lookup, MarkPending, LoadCredential, Hydrate, Fetched,
     Unauthorized, Refreshed, RefreshRefused, SaveCredential, Persist, SetStatus,
     WriteLog, ReportIssue, SetError, LogError
<1> PICK i \in Integrations : i = work[p].on
  BY <1>0
<1>1. failures' = failures /\ crashes' = crashes /\ reopened' = reopened
  BY DEF Step, Lookup, MarkPending, LoadCredential, Hydrate, Fetched,
     Unauthorized, Refreshed, RefreshRefused, SaveCredential, Persist, SetStatus,
     WriteLog, ReportIssue, SetError, LogError
<1>2. failures <= 1 => /\ batches[i] \in Nat /\ crashes \in Nat /\ reopened[i] \in Nat
                       /\ batches[i] <= 1 + crashes + reopened[i]
                       /\ batches[i] > crashes + reopened[i] => PastIngest(i, p)
                       /\ job[i].state = "active"
  BY <1>0, WorkerIngest
<1>3. \A j \in Integrations \ {i} :
          status'[j] = status[j] /\ job'[j] = job[j] /\ batches'[j] = batches[j]
  <2>1. CASE \/ Lookup(p) \/ WriteLog(p) \/ ReportIssue(p) \/ LogError(p)
    BY <1>0, <2>1 DEF Lookup, Skip, WriteLog, ReportIssue, LogError, Completes, Throws, FinishJob
  <2>2. CASE ~(Lookup(p) \/ WriteLog(p) \/ ReportIssue(p) \/ LogError(p))
    BY <1>0, <2>2 DEF Step, MarkPending, LoadCredential, Hydrate, Fetched, Unauthorized,
       Refreshed, RefreshRefused, SaveCredential, Persist, SetStatus, SetError
  <2> QED
    BY <2>1, <2>2
<1>4. failures <= 1 =>
          /\ batches'[i] <= 1 + crashes + reopened[i]
          /\ batches'[i] > crashes + reopened[i] =>
                 /\ job'[i].state = "waiting" => status'[i] # "ACTIVE"
                 /\ work'[p].on = i => PastIngest(i, p)'
  <2> SUFFICES ASSUME failures <= 1
               PROVE  /\ batches'[i] <= 1 + crashes + reopened[i]
                      /\ batches'[i] > crashes + reopened[i] =>
                             /\ job'[i].state = "waiting" => status'[i] # "ACTIVE"
                             /\ work'[p].on = i => PastIngest(i, p)'
    OBVIOUS
  <2>0. i # "nobody"
    BY <1>0, SyncAssumption
  <2>1. CASE \/ MarkPending(p) \/ LoadCredential(p) \/ Hydrate(p) \/ Unauthorized(p)
             \/ Refreshed(p) \/ RefreshRefused(p) \/ (\E result \in LogStatus : Fetched(p, result))
             \/ SaveCredential(p)
    <3>1. batches' = batches
      BY <2>1 DEF MarkPending, LoadCredential, Hydrate, Fetched, Unauthorized,
         Refreshed, RefreshRefused, SaveCredential
    <3>2. ~PastIngest(i, p)
      BY <2>1 DEF PastIngest, MarkPending, LoadCredential, Hydrate, Fetched, Unauthorized,
         Refreshed, RefreshRefused, SaveCredential
    <3> QED
      BY <1>2, <3>1, <3>2
  <2>2. CASE Lookup(p)
    <3>1. batches' = batches /\ status' = status
      BY <2>2 DEF Lookup
    <3>2. CASE Syncable(i)
      BY <1>2, <2>2, <3>1, <3>2 DEF PastIngest, Syncable, Lookup
    <3>3. CASE ~Syncable(i)
      <4>1. FinishJob(i) /\ work'[p].on = "nobody"
        BY <2>2, <3>3 DEF Lookup, Skip, Completes, IdleWork
      <4>2. job'[i].state = "finished"
        BY <4>1, FinishTyped
      <4> QED
        BY <1>1, <1>2, <2>0, <3>1, <4>1, <4>2
    <3> QED
      BY <3>2, <3>3
  <2>3. CASE Persist(p)
    <3>1. ~PastIngest(i, p)
      BY <2>3 DEF PastIngest, Persist
    <3>2. batches'[i] = batches[i] + 1 /\ job' = job /\ work'[p].pc = "status"
      BY <1>0, <2>3 DEF Persist, Goto
    <3> QED
      BY <1>2, <3>1, <3>2 DEF PastIngest
  <2>4. CASE SetStatus(p)
    BY <1>0, <1>2, <2>4 DEF SetStatus, Goto, PastIngest
  <2>5. CASE WriteLog(p) \/ ReportIssue(p)
    <3>1. batches' = batches
      BY <2>5 DEF WriteLog, ReportIssue
    <3>2. CASE Completes(p)
      BY <1>0, <1>2, <2>0, <3>1, <3>2 DEF Completes, FinishJob, IdleWork
    <3>3. CASE Goto(p, "issue") /\ UNCHANGED job
      BY <1>0, <1>2, <3>1, <3>3 DEF Goto, PastIngest
    <3> QED
      BY <2>5, <3>2, <3>3 DEF WriteLog, ReportIssue
  <2>6. CASE SetError(p)
    BY <1>0, <1>2, <2>6 DEF SetError, Goto, PastIngest
  <2>7. CASE LogError(p)
    <3>1. batches' = batches /\ status' = status /\ work'[p].on = "nobody"
      BY <2>7 DEF LogError, Throws, IdleWork
    <3>2. batches[i] > crashes + reopened[i] => status[i] # "ACTIVE"
      BY <1>2, <2>7 DEF LogError, PastIngest
    <3> QED
      BY <1>2, <2>0, <3>1, <3>2
  <2> QED
    BY <2>1, <2>2, <2>3, <2>4, <2>5, <2>6, <2>7 DEF Step
<1> HIDE DEF SyncInv, TypeOK
<1>5. /\ \A q \in Processes \ {p} : work'[q] = work[q]
      /\ work'[p].on \in {i, "nobody"}
  BY OwnWork
<1>6. failures' \in {failures, failures + 1}
  BY <1>1
<1>7. failures' <= 1 => OwnIngested(p, i)'
  BY <1>1, <1>4 DEF OwnIngested
<1> QED
  BY <1>0, <1>1, <1>3, <1>5, <1>6, <1>7, OwnIngest

LEMMA IngestKept == SyncInv /\ IngestInv /\ [Next]_vars => IngestInv'
<1> SUFFICES ASSUME SyncInv, IngestInv, [Next]_vars PROVE IngestInv'
  OBVIOUS
<1> USE DEF SyncInv, TypeOK
<1>1. CASE UNCHANGED vars
  BY <1>1 DEF vars, IngestInv, IngestedOf, PastIngest
<1>2. ASSUME NEW i \in Integrations, Disconnect(i) \/ AskSync(i)
      PROVE  IngestInv'
  <2>1. \A j \in Integrations : status'[j] = status[j] \/ status'[j] # "ACTIVE"
    BY <1>2 DEF Disconnect, AskSync
  <2>2. UNCHANGED <<batches, reopened, crashes, failures, job, work>>
    BY <1>2 DEF Disconnect, AskSync
  <2> SUFFICES ASSUME failures <= 1, NEW j \in Integrations PROVE IngestedOf(j)'
    BY <2>2 DEF IngestInv
  <2>3. IngestedOf(j) /\ crashes \in Nat /\ reopened[j] \in Nat
    BY DEF IngestInv
  <2> QED
    BY <2>1, <2>2, <2>3 DEF IngestedOf, PastIngest
<1>3. ASSUME NEW i \in Integrations, AddJob(i) \/ ForgetJob(i)
      PROVE  IngestInv'
  <2>1. UNCHANGED <<status, crashes, failures, work>>
    BY <1>3 DEF AddJob, ForgetJob
  <2>2. \A j \in Integrations :
            \/ /\ batches'[j] = batches[j] /\ reopened'[j] = reopened[j]
               /\ job'[j] = job[j] \/ job'[j].state # "waiting"
            \/ batches'[j] = 0 /\ reopened'[j] = 0
    <3>1. CASE ForgetJob(i)
      BY <3>1, NewJobTyped DEF ForgetJob, JobState
    <3>2. CASE AddJob(i) /\ Addable(i)
      BY <3>2 DEF AddJob, StartCount
    <3>3. CASE AddJob(i) /\ ~Addable(i)
      BY <3>3 DEF AddJob
    <3> QED
      BY <1>3, <3>1, <3>2, <3>3
  <2> SUFFICES ASSUME failures <= 1, NEW j \in Integrations PROVE IngestedOf(j)'
    BY <2>1 DEF IngestInv
  <2>3. IngestedOf(j) /\ crashes \in Nat /\ reopened[j] \in Nat
    BY DEF IngestInv
  <2>4. CASE batches'[j] = 0 /\ reopened'[j] = 0
    BY <2>1, <2>3, <2>4 DEF IngestedOf
  <2>5. CASE /\ batches'[j] = batches[j] /\ reopened'[j] = reopened[j]
             /\ job'[j] = job[j] \/ job'[j].state # "waiting"
    BY <2>1, <2>3, <2>5 DEF IngestedOf, PastIngest
  <2> QED
    BY <2>2, <2>4, <2>5
<1>4. ASSUME NEW p \in Processes, NEW i \in Integrations, Connect(p, i)
      PROVE  IngestInv'
  <2>0. PICK token : ConnectWith(p, i, token)
    BY <1>4 DEF Connect
  <2>1. UNCHANGED <<batches, crashes, failures, job, work>>
    BY <2>0 DEF ConnectWith
  <2> SUFFICES ASSUME failures <= 1, NEW j \in Integrations PROVE IngestedOf(j)'
    BY <2>1 DEF IngestInv
  <2>2. IngestedOf(j) /\ crashes \in Nat /\ reopened[j] \in Nat /\ batches[j] \in Nat
    BY DEF IngestInv
  <2>3. CASE j # i
    <3>1. status'[j] = status[j] /\ reopened'[j] = reopened[j]
      BY <2>0, <2>3 DEF ConnectWith, CountConnect
    <3> QED
      BY <2>1, <2>2, <3>1 DEF IngestedOf, PastIngest
  <2>4. CASE j = i /\ batches[i] > 0 /\ job[i].state \in {"waiting", "active"}
    <3>1. reopened'[j] = reopened[j] + 1
      BY <2>0, <2>4 DEF ConnectWith, CountConnect
    <3> QED
      BY <2>1, <2>2, <3>1 DEF IngestedOf
  <2>5. CASE j = i /\ ~(batches[i] > 0 /\ job[i].state \in {"waiting", "active"})
    <3>1. reopened'[j] = reopened[j]
      BY <2>0, <2>5 DEF ConnectWith, CountConnect
    <3>2. CASE ~(batches[i] > 0)
      BY <2>1, <2>2, <2>5, <3>1, <3>2 DEF IngestedOf
    <3>3. CASE job[i].state \notin {"waiting", "active"}
      <4>1. \A q \in Processes : work[q].on # i
        BY <3>3, SyncAssumption DEF OwnJob
      <4> QED
        BY <2>1, <2>2, <2>5, <3>1, <3>3, <4>1 DEF IngestedOf
    <3> QED
      BY <2>5, <3>2, <3>3
  <2> QED
    BY <2>3, <2>4, <2>5
<1>5. ASSUME NEW p \in Processes, Continue(p) PROVE IngestInv'
  BY <1>5 DEF Continue, StoreCredential, Authenticate, LogConnection, MarkMilestone,
     IngestInv, IngestedOf, PastIngest
<1>6. ASSUME NEW p \in Processes, ConnectFails(p) PROVE IngestInv'
  BY <1>6 DEF ConnectFails, IngestInv, IngestedOf, PastIngest
<1>7. ASSUME NEW p \in Processes, NEW i \in Integrations, TakeJob(p, i)
      PROVE  IngestInv'
  <2> SUFFICES ASSUME failures <= 1, NEW j \in Integrations PROVE IngestedOf(j)'
    BY <1>7 DEF TakeJob, IngestInv
  <2>1. IngestedOf(j) /\ UNCHANGED <<status, batches, reopened, failures, crashes>>
    BY <1>7 DEF TakeJob, IngestInv
  <2>2. work'[p].pc = "lookup" /\ work'[p].on = i
        /\ \A q \in Processes \ {p} : work'[q] = work[q]
    BY <1>7, IdleTyped DEF TakeJob, IdleWork
  <2>3. job'[j].state = "waiting" => job[j].state = "waiting"
    BY <1>7 DEF TakeJob
  <2>4. job[i].state = "waiting"
    BY <1>7 DEF TakeJob
  <2>5. ASSUME NEW q \in Processes, work'[q].on = j, batches[j] > crashes + reopened[j]
        PROVE  PastIngest(j, q)'
    <3>1. CASE q = p
      BY <2>1, <2>2, <2>4, <2>5, <3>1 DEF IngestedOf, PastIngest
    <3>2. CASE q # p
      BY <2>1, <2>2, <2>5, <3>2 DEF IngestedOf, PastIngest
    <3> QED
      BY <3>1, <3>2
  <2> QED
    BY <2>1, <2>3, <2>5 DEF IngestedOf
<1>8. ASSUME NEW p \in Processes, CallFails(p) PROVE IngestInv'
  <2>0. work[p].pc # "idle" /\ work[p].on \in Integrations
    BY <1>8, AtWork DEF CallFails
  <2> PICK i \in Integrations : i = work[p].on
    BY <2>0
  <2>1. failures' = failures + 1 /\ UNCHANGED <<status, batches, reopened, crashes>>
    BY <1>8 DEF CallFails
  <2>2. failures <= 1 => /\ batches[i] \in Nat /\ crashes \in Nat /\ reopened[i] \in Nat
                         /\ batches[i] <= 1 + crashes + reopened[i]
                         /\ batches[i] > crashes + reopened[i] => PastIngest(i, p)
                         /\ job[i].state = "active"
    BY <2>0, WorkerIngest
  <2>3. i # "nobody"
    BY <2>0, SyncAssumption
  <2>4. CASE work[p].pc \in {"persist", "status", "log", "issue"}
    <3>1. work'[p].pc = "error" /\ work'[p].on = i
          /\ \A q \in Processes \ {p} : work'[q] = work[q]
      BY <1>8, <2>4 DEF CallFails, Goto, FirstOfFailure, Work
    <3>2. job' = job
      BY <1>8, <2>4 DEF CallFails
    <3>3. failures' <= 1 => PastIngest(i, p)' /\ job'[i].state # "waiting"
      BY <2>1, <2>2, <3>1, <3>2 DEF PastIngest
    <3> HIDE DEF SyncInv, TypeOK
    <3>4. failures' <= 1 => OwnIngested(p, i)'
      BY <2>1, <2>2, <3>3 DEF SyncInv, TypeOK, OwnIngested
    <3> QED
      BY <2>0, <2>1, <3>1, <3>2, <3>4, OwnIngest
  <2>5. CASE work[p].pc \notin {"persist", "status", "log", "issue"}
    <3>1. Throws(p)
      BY <1>8, <2>5 DEF CallFails
    <3>2. work'[p].on = "nobody" /\ \A q \in Processes \ {p} : work'[q] = work[q]
      BY <3>1 DEF Throws, IdleWork
    <3>3. \A j \in Integrations \ {i} : job'[j] = job[j]
      BY <2>0, <3>1 DEF Throws, FinishJob
    <3>4. failures' <= 1 => (batches[i] > crashes + reopened[i] => status[i] # "ACTIVE")
      BY <2>1, <2>2, <2>5 DEF PastIngest
    <3> HIDE DEF SyncInv, TypeOK
    <3>5. failures' <= 1 => OwnIngested(p, i)'
      BY <2>1, <2>2, <2>3, <3>2, <3>4 DEF SyncInv, TypeOK, OwnIngested
    <3> QED
      BY <2>0, <2>1, <3>2, <3>3, <3>5, OwnIngest
  <2> QED
    BY <2>4, <2>5
<1>9. ASSUME NEW p \in Processes, Crash(p) PROVE IngestInv'
  <2>1. UNCHANGED <<batches, reopened, failures>> /\ crashes' = crashes + 1
    BY <1>9 DEF Crash
  <2>2. \A j \in Integrations : failures <= 1 => batches'[j] <= crashes' + reopened'[j]
    BY <2>1 DEF IngestInv, IngestedOf
  <2>3. crashes' \in Nat /\ \A j \in Integrations : batches'[j] \in Nat /\ reopened'[j] \in Nat
    BY <2>1
  <2> QED
    BY <2>1, <2>2, <2>3 DEF IngestInv, IngestedOf
<1> QED
  BY <1>1, <1>2, <1>3, <1>4, <1>5, <1>6, <1>7, <1>8, <1>9, IngestStep DEF Next

(* With at most one failed call, a job ingests its data once, and once     *)
(* more for each crash and for each connect after it did so: the attempt   *)
(* after a failure finds ERROR and skips, although the failure may be that *)
(* of a write after the data's, unless a connect has made it ACTIVE.       *)
THEOREM IngestsOnce == Spec => []IngestedOnce
<1>1. Init => IngestInv
  BY DEF Init, IngestInv, IngestedOf
<1>2. IngestInv => IngestedOnce
  BY DEF IngestInv, IngestedOf, IngestedOnce
<1> QED
  BY <1>1, <1>2, InitInv, StepInv, IngestKept, PTL DEF Spec
==============================================================================

----------------------------- MODULE AdviceProofs -----------------------------
(***************************************************************************)
(* Theorems about what a workspace computes and recommends.  The           *)
(* recommendations and what persists them: the runs of Agents, for any runs,*)
(* traces and decisions, and the Experiments.  AlertRules: what overlapping*)
(* evaluations deliver, for any rules, readings, failing providers and     *)
(* deletions.  VerifiedMetrics: the figures of overlapping views and jobs. *)
(* Last, what is computed beside them, for any rows and any requests that  *)
(* overlap: the success metrics of Governance, the anomalies, scores and   *)
(* summaries of Insights, the signals, scenarios and the graph of Market,  *)
(* and the metrics of Analytics.                                           *)
(***************************************************************************)
EXTENDS Agents, Experiments, AlertRules, VerifiedMetrics, Analytics, Insights,
        Market, Governance, SumProofs, FiniteSetTheorems, SequenceTheorems,
        WellFoundedInduction, TLAPS

(***************************************************************************)
(* The recommendations                                                     *)
(***************************************************************************)

(* A caller has a trace while it persists.                                 *)
Traced == \A p \in Persisters : persist[p].pc # "idle" => persist[p].trace \in Traces

(* A decision is one about a row.                                          *)
Deciding ==
    \A d \in Deciders : decider[d] # NoDecision => decider[d].rec \in DOMAIN recs

(* A caller that found nothing has written nothing of its trace, and one   *)
(* that has written finds it.                                              *)
WrittenBy(p, trace) == \E i \in DOMAIN recs : recs[i].by = p /\ recs[i].trace = trace
Writing ==
    \A p \in Persisters :
        /\ persist[p].pc \in {"log", "insight", "recommend"} => ~WrittenBy(p, persist[p].trace)
        /\ persist[p].pc = "succeed" => WrittenBy(p, persist[p].trace)

RecsInv ==
    /\ RecsTypeOK /\ Traced /\ Deciding /\ Writing
    /\ OnceForEachCaller /\ PersistedIsThere

LEMMA RecsInitInv == RecsInit => RecsInv
<1> SUFFICES ASSUME RecsInit PROVE RecsInv
  OBVIOUS
<1>1. RecsTypeOK
  BY DEF RecsInit, RecsTypeOK, NoDecision, ExecutionStatus, PersistPc
<1> QED
  BY <1>1 DEF RecsInit, RecsInv, Traced, Deciding, Writing, OnceForEachCaller, PersistedIsThere

(* Where a caller is says all that its next step depends on.               *)
LEMMA CallerKept ==
  ASSUME RecsInv, NEW p \in Persisters, NEW pc \in PersistPc, NEW trace,
         pc # "idle" => trace \in Traces, pc = "idle" => trace = NoTrace,
         persist' = [persist EXCEPT ![p] = [pc |-> pc, trace |-> trace]],
         recs' = recs, decider' = decider,
         logs' \in [Persisters -> ExecutionStatus],
         \A q \in Persisters : logs'[q] = "SUCCESS" =>
             logs[q] = "SUCCESS" \/ (q = p /\ WrittenBy(p, trace)),
         pc \in {"log", "insight", "recommend"} => ~WrittenBy(p, trace),
         pc = "succeed" => WrittenBy(p, trace),
         pc = "persisted" => Recommended(trace)
  PROVE  RecsInv'
<1> USE DEF RecsInv, RecsTypeOK
<1>1. persist'[p] = [pc |-> pc, trace |-> trace]
      /\ \A q \in Persisters \ {p} : persist'[q] = persist[q]
  OBVIOUS
<1>2. RecsTypeOK'
  <2>1. [pc |-> pc, trace |-> trace] \in [pc : PersistPc, trace : Traces \cup {NoTrace}]
    OBVIOUS
  <2> QED
    BY <2>1
<1>3. Traced' /\ Deciding'
  BY <1>1 DEF Traced, Deciding
<1>4. Writing'
  BY <1>1 DEF Writing, WrittenBy
<1>5. OnceForEachCaller'
  BY DEF OnceForEachCaller
<1>6. PersistedIsThere'
  BY <1>1 DEF PersistedIsThere, Recommended, WrittenBy
<1> QED
  BY <1>2, <1>3, <1>4, <1>5, <1>6

LEMMA PersistStepInv ==
  ASSUME RecsInv, NEW p \in Persisters, PersistStep(p)
  PROVE  RecsInv'
<1>0. /\ persist[p] \in [pc : PersistPc, trace : Traces \cup {NoTrace}]
      /\ logs \in [Persisters -> ExecutionStatus]
      /\ persist \in [Persisters -> [pc : PersistPc, trace : Traces \cup {NoTrace}]]
  BY DEF RecsInv, RecsTypeOK
<1>1. persist[p].pc # "idle" /\ persist[p].trace \in Traces
  BY <1>0 DEF RecsInv, Traced, PersistStep, FindExisting, LogExecution, CreateInsight,
     CreateRecommendation, LogSuccess, PersistThrows, LogFailure, PersistGoes
<1> PICK t \in Traces : t = persist[p].trace
  BY <1>1
<1>2. ASSUME NEW from, NEW to, PersistGoes(p, from, to)
      PROVE  persist[p].pc = from /\ persist' = [persist EXCEPT ![p] = [pc |-> to, trace |-> t]]
  <2>1. [persist[p] EXCEPT !.pc = to] = [pc |-> to, trace |-> t]
    BY <1>0
  <2>2. persist' = [persist EXCEPT ![p] = [persist[p] EXCEPT !.pc = to]]
    BY <1>2 DEF PersistGoes
  <2> QED
    BY <1>2, <2>1, <2>2 DEF PersistGoes
<1>3. /\ persist[p].pc \in {"log", "insight", "recommend"} => ~WrittenBy(p, t)
      /\ persist[p].pc = "succeed" => WrittenBy(p, t)
  BY DEF RecsInv, Writing
<1>4. CASE FindExisting(p)
  <2>1. ~Recommended(t) => ~WrittenBy(p, t)
    BY DEF Recommended, WrittenBy
  <2>2. UNCHANGED <<recs, logs, decider>>
    BY <1>4 DEF FindExisting
  <2>3. CASE Recommended(t)
    BY <1>0, <1>1, <1>2, <1>4, <2>2, <2>3, CallerKept DEF FindExisting, PersistPc
  <2>4. CASE ~Recommended(t)
    BY <1>0, <1>1, <1>2, <1>4, <2>1, <2>2, <2>4, CallerKept DEF FindExisting, PersistPc
  <2> QED
    BY <2>3, <2>4
<1>5. CASE LogExecution(p)
  <2>1. /\ logs' \in [Persisters -> ExecutionStatus]
        /\ \A q \in Persisters : logs'[q] = "SUCCESS" => logs[q] = "SUCCESS"
    BY <1>0, <1>5 DEF LogExecution, ExecutionStatus
  <2> QED
    BY <1>1, <1>2, <1>3, <1>5, <2>1, CallerKept DEF LogExecution, PersistPc
<1>6. CASE CreateInsight(p)
  BY <1>0, <1>1, <1>2, <1>3, <1>6, CallerKept DEF CreateInsight, PersistPc
<1>7. CASE LogSuccess(p)
  <2>1. /\ logs' \in [Persisters -> ExecutionStatus]
        /\ \A q \in Persisters : logs'[q] = "SUCCESS" => logs[q] = "SUCCESS" \/ q = p
    BY <1>0, <1>7 DEF LogSuccess, ExecutionStatus
  <2>2. WrittenBy(p, t) /\ Recommended(t)
    BY <1>2, <1>3, <1>7 DEF LogSuccess, WrittenBy, Recommended
  <2> QED
    BY <1>1, <1>2, <1>7, <2>1, <2>2, CallerKept DEF LogSuccess, PersistPc
<1>8. CASE PersistThrows(p)
  <2>1. PICK pc \in {"threw", "fail"} : persist' = [persist EXCEPT ![p] = [pc |-> pc, trace |-> t]]
    BY <1>2, <1>8 DEF PersistThrows
  <2> QED
    BY <1>0, <1>1, <1>8, <2>1, CallerKept DEF PersistThrows, PersistPc
<1>9. CASE LogFailure(p)
  <2>1. /\ logs' \in [Persisters -> ExecutionStatus]
        /\ \A q \in Persisters : logs'[q] = "SUCCESS" => logs[q] = "SUCCESS"
    BY <1>0, <1>9 DEF LogFailure, ExecutionStatus
  <2> QED
    BY <1>1, <1>2, <1>9, <2>1, CallerKept DEF LogFailure, PersistPc
<1>10. CASE CreateRecommendation(p)
  <2> DEFINE row == [trace |-> t, status |-> "PENDING", history |-> <<>>, by |-> p]
             n == Len(recs) + 1
  <2>1. row \in Recommendation /\ row.trace = t /\ row.by = p
    BY <1>1 DEF Recommendation, RecommendationStatus
  <2> HIDE DEF row
  <2>2. recs' = Append(recs, row) /\ UNCHANGED <<logs, decider>> /\ recs \in Seq(Recommendation)
    BY <1>10 DEF CreateRecommendation, row, RecsInv, RecsTypeOK
  <2>3. /\ recs' \in Seq(Recommendation) /\ n \in DOMAIN recs' /\ recs'[n] = row
        /\ DOMAIN recs \subseteq DOMAIN recs' /\ \A i \in DOMAIN recs : recs'[i] = recs[i]
        /\ \A i \in DOMAIN recs' : i = n \/ i \in DOMAIN recs
    BY <2>1, <2>2, AppendProperties
  <2>4. /\ persist[p].pc = "recommend"
        /\ persist'[p] = [pc |-> "succeed", trace |-> t]
        /\ \A q \in Persisters \ {p} : persist'[q] = persist[q]
        /\ persist' \in [Persisters -> [pc : PersistPc, trace : Traces \cup {NoTrace}]]
    <3>1. [pc |-> "succeed", trace |-> t] \in [pc : PersistPc, trace : Traces \cup {NoTrace}]
      BY <1>1 DEF PersistPc
    <3> QED
      BY <1>0, <1>2, <1>10, <3>1 DEF CreateRecommendation
  <2> HIDE DEF n
  <2>5. RecsTypeOK' /\ Traced' /\ Deciding'
    <3>1. RecsTypeOK'
      BY <2>2, <2>3, <2>4 DEF RecsInv, RecsTypeOK
    <3>2. Traced'
      BY <1>1, <2>4 DEF RecsInv, Traced
    <3>3. Deciding'
      BY <2>2, <2>3 DEF RecsInv, Deciding
    <3> QED
      BY <3>1, <3>2, <3>3
  <2>6. WrittenBy(p, t)'
    BY <2>1, <2>3 DEF WrittenBy
  <2>7. \A q \in Persisters \ {p}, u \in Traces : WrittenBy(q, u)' <=> WrittenBy(q, u)
    BY <2>1, <2>3 DEF WrittenBy
  <2>8. Writing'
    BY <2>1, <2>3, <2>4, <2>7 DEF RecsInv, Writing, WrittenBy, Traced
  <2>9. OnceForEachCaller'
    BY <1>3, <2>1, <2>3, <2>4 DEF RecsInv, OnceForEachCaller, WrittenBy
  <2>10. PersistedIsThere'
    BY <2>2, <2>3, <2>4 DEF RecsInv, PersistedIsThere, Recommended
  <2> QED
    BY <2>5, <2>8, <2>9, <2>10 DEF RecsInv
<1> QED
  BY <1>4, <1>5, <1>6, <1>7, <1>8, <1>9, <1>10 DEF PersistStep
(* The modules that call for a recommendation begin and end.               *)
LEMMA PersistCallInv ==
  ASSUME RecsInv, NEW p \in Persisters, UNCHANGED <<recs, logs, decider>>,
         (\E trace \in Traces : PersistStarts(p, trace)) \/ PersistEnds(p)
  PROVE  RecsInv'
<1>0. logs' \in [Persisters -> ExecutionStatus]
  BY DEF RecsInv, RecsTypeOK
<1>1. ASSUME NEW trace \in Traces, PersistStarts(p, trace) PROVE RecsInv'
  BY <1>0, <1>1, CallerKept DEF PersistStarts, PersistPc
<1>2. CASE PersistEnds(p)
  BY <1>0, <1>2, CallerKept DEF PersistEnds, PersistPc
<1> QED
  BY <1>1, <1>2

(* A decision changes neither the trace of a row nor who wrote it.         *)
LEMMA DecideInv ==
  ASSUME RecsInv, NEW d \in Deciders, DecideStep(d)
  PROVE  RecsInv'
<1> USE DEF RecsInv, RecsTypeOK
<1>0. NoDecision \in [rec : Nat, history : Seq(RecommendationStatus)]
  BY DEF NoDecision
<1>1. CASE ReadDecisions(d)
  <2>1. PICK i \in DOMAIN recs :
            decider' = [decider EXCEPT ![d] = [rec |-> i, history |-> recs[i].history]]
    BY <1>1 DEF ReadDecisions
  <2>2. [rec |-> i, history |-> recs[i].history] \in [rec : Nat, history : Seq(RecommendationStatus)]
    <3>1. i \in Nat /\ recs[i] \in Recommendation
      OBVIOUS
    <3> QED
      BY <3>1 DEF Recommendation
  <2>3. UNCHANGED <<recs, logs, persist>>
    BY <1>1 DEF ReadDecisions
  <2>4. RecsTypeOK' /\ Deciding'
    BY <2>1, <2>2, <2>3 DEF Deciding
  <2> QED
    BY <2>3, <2>4 DEF Traced, Writing, WrittenBy, OnceForEachCaller, PersistedIsThere, Recommended
<1>2. ASSUME decider' = [decider EXCEPT ![d] = NoDecision], UNCHANGED <<logs, persist>>,
             recs' \in Seq(Recommendation), DOMAIN recs' = DOMAIN recs,
             \A i \in DOMAIN recs : recs'[i].trace = recs[i].trace /\ recs'[i].by = recs[i].by
      PROVE  RecsInv'
  <2>1. RecsTypeOK' /\ Traced' /\ Deciding'
    BY <1>0, <1>2 DEF Traced, Deciding
  <2>2. Writing'
    BY <1>2 DEF Writing, WrittenBy
  <2>3. OnceForEachCaller'
    BY <1>2 DEF OnceForEachCaller
  <2>4. PersistedIsThere'
    <3>1. \A trace \in Traces : Recommended(trace) => Recommended(trace)'
      BY <1>2 DEF Recommended
    <3>2. ASSUME NEW p \in Persisters, NEW i \in DOMAIN recs, recs[i].by = p
          PROVE  \E j \in DOMAIN recs' : recs'[j].by = p
      BY <1>2, <3>2
    <3> QED
      BY <1>2, <3>1, <3>2 DEF PersistedIsThere, Traced
  <2> QED
    BY <2>1, <2>2, <2>3, <2>4
<1>3. CASE WriteDecision(d)
  <2>0. decider[d].rec \in DOMAIN recs
    BY <1>3 DEF WriteDecision, Deciding
  <2>1. PICK i \in DOMAIN recs : i = decider[d].rec
    BY <2>0
  <2>2. PICK status \in Verdicts : recs' = [recs EXCEPT ![i] =
            [@ EXCEPT !.status = status, !.history = Append(decider[d].history, status)]]
    BY <1>3, <2>1 DEF WriteDecision
  <2> DEFINE row == [recs[i] EXCEPT !.status = status, !.history = Append(decider[d].history, status)]
  <2>3. row \in Recommendation /\ row.trace = recs[i].trace /\ row.by = recs[i].by
    <3>1. status \in RecommendationStatus /\ decider[d].history \in Seq(RecommendationStatus)
      BY RecommendationsAssumption
    <3>2. Append(decider[d].history, status) \in Seq(RecommendationStatus)
      BY <3>1, AppendProperties
    <3>3. recs[i] \in Recommendation
      OBVIOUS
    <3> QED
      BY <3>1, <3>2, <3>3 DEF Recommendation
  <2>4. recs' = [recs EXCEPT ![i] = row]
    BY <2>2
  <2> HIDE DEF row
  <2>5. /\ recs' \in Seq(Recommendation) /\ DOMAIN recs' = DOMAIN recs
        /\ \A j \in DOMAIN recs : recs'[j].trace = recs[j].trace /\ recs'[j].by = recs[j].by
    BY <2>3, <2>4, ExceptSeq
  <2> QED
    BY <1>2, <1>3, <2>5 DEF WriteDecision
<1>4. CASE DecisionThrows(d)
  BY <1>2, <1>4 DEF DecisionThrows
<1> QED
  BY <1>1, <1>3, <1>4 DEF DecideStep

(***************************************************************************)
(* The runs of agents                                                      *)
(***************************************************************************)

(* A run that is not over is logged as running; one that failed has used   *)
(* up its attempts; one that is advised is about the trace that is being   *)
(* persisted, and one that is to be marked as a success finds it; nothing  *)
(* is persisted but by a run that waits for it.                            *)
Running ==
    \A r \in Runners :
        /\ runs[r].pc # "idle" => runlog[r] = "RUNNING"
        /\ runs[r].pc = "fail" => runs[r].attempt >= runs[r].max
        /\ runs[r].pc = "advising" => runs[r].trace = persist[r].trace
        /\ runs[r].pc = "succeed" => Recommended(runs[r].trace)
        /\ persist[r].pc # "idle" => runs[r].pc \in {"summarizing", "advising"}

AgentsInv ==
    /\ RecsInv
    /\ runs \in [Runners -> Run] /\ runlog \in [Runners -> ExecutionStatus]
    /\ Running /\ RunLogIsTrue

LEMMA AgentsInitInv == AgentsInit => AgentsInv
<1> SUFFICES ASSUME AgentsInit PROVE AgentsInv
  OBVIOUS
<1>1. IdleRun \in Run /\ IdleRun.pc = "idle"
  BY DEF IdleRun, Run, RunPc
<1> QED
  BY <1>1, RecsInitInv, AgentsAssumption
  DEF AgentsInit, RecsInit, AgentsInv, Running, RunLogIsTrue, ExecutionStatus

(* A step of one run, which takes no recommendation away.                  *)
LEMMA RunKept ==
  ASSUME AgentsInv, RecsInv', NEW r \in Runners, NEW run \in Run, NEW log \in ExecutionStatus,
         runs' = [runs EXCEPT ![r] = run], runlog' = [runlog EXCEPT ![r] = log],
         \A q \in Runners \ {r} : persist'[q] = persist[q],
         \A trace \in Traces : Recommended(trace) => Recommended(trace)',
         run.pc # "idle" => log = "RUNNING",
         run.pc = "fail" => run.attempt >= run.max,
         run.pc = "advising" => run.trace = persist'[r].trace,
         run.pc = "succeed" => Recommended(run.trace)',
         persist'[r].pc # "idle" => run.pc \in {"summarizing", "advising"},
         run.pc = "idle" /\ log = "SUCCESS" => Recommended(run.trace)',
         run.pc = "idle" /\ log = "FAILED" => run.attempt >= run.max
  PROVE  AgentsInv'
<1>1. /\ runs'[r] = run /\ runlog'[r] = log
      /\ \A q \in Runners \ {r} : runs'[q] = runs[q] /\ runlog'[q] = runlog[q]
  BY DEF AgentsInv
<1>2. \A trace : Recommended(trace) => Recommended(trace)'
  <2> SUFFICES ASSUME NEW trace, Recommended(trace) PROVE Recommended(trace)'
    OBVIOUS
  <2>1. PICK i \in DOMAIN recs : recs[i].trace = trace
    BY DEF Recommended
  <2>2. recs[i] \in Recommendation
    BY DEF AgentsInv, RecsInv, RecsTypeOK
  <2>3. trace \in Traces
    BY <2>1, <2>2 DEF Recommendation
  <2> QED
    BY <2>3
<1>3. Running'
  BY <1>1, <1>2 DEF AgentsInv, Running
<1>4. RunLogIsTrue'
  BY <1>1, <1>2 DEF AgentsInv, RunLogIsTrue
<1> QED
  BY <1>1, <1>3, <1>4 DEF AgentsInv

(* A row is never taken away, nor its trace changed.                       *)
LEMMA NothingRemoved ==
  ASSUME RecsInv,
         (\E p \in Persisters : PersistStep(p)) \/ (\E d \in Deciders : DecideStep(d))
  PROVE  \A trace \in Traces : Recommended(trace) => Recommended(trace)'
<1>0. recs \in Seq(Recommendation)
  BY DEF RecsInv, RecsTypeOK
<1>1. DOMAIN recs \subseteq DOMAIN recs' /\ \A i \in DOMAIN recs : recs'[i].trace = recs[i].trace
  <2>1. CASE UNCHANGED recs
    BY <2>1
  <2>2. ASSUME NEW p \in Persisters, CreateRecommendation(p)
        PROVE  DOMAIN recs \subseteq DOMAIN recs' /\ \A i \in DOMAIN recs : recs'[i] = recs[i]
    <3>1. PICK row : recs' = Append(recs, row)
      BY <2>2 DEF CreateRecommendation
    <3>2. recs \in Seq(Recommendation \cup {row}) /\ row \in Recommendation \cup {row}
      BY <1>0
    <3> QED
      BY <3>1, <3>2, AppendProperties
  <2>3. ASSUME NEW d \in Deciders, WriteDecision(d)
        PROVE  DOMAIN recs' = DOMAIN recs /\ \A i \in DOMAIN recs : recs'[i].trace = recs[i].trace
    <3>1. PICK status \in Verdicts : recs' = [recs EXCEPT ![decider[d].rec] =
              [@ EXCEPT !.status = status, !.history = Append(decider[d].history, status)]]
      BY <2>3 DEF WriteDecision
    <3>2. \A i \in DOMAIN recs : recs[i] \in Recommendation
      BY <1>0
    <3> QED
      BY <3>1, <3>2 DEF Recommendation
  <2> QED
    BY <2>1, <2>2, <2>3 DEF PersistStep, FindExisting, LogExecution, CreateInsight, LogSuccess,
       PersistThrows, LogFailure, DecideStep, ReadDecisions, DecisionThrows
<1> QED
  BY <1>1 DEF Recommended

(* A caller waits for one trace at a time.                                 *)
LEMMA TraceKept ==
  ASSUME RecsInv, NEW p \in Persisters, PersistStep(p)
  PROVE  /\ persist[p].pc # "idle"
         /\ persist'[p].trace = persist[p].trace
         /\ \A q \in Persisters \ {p} : persist'[q] = persist[q]
<1>1. /\ persist[p] \in [pc : PersistPc, trace : Traces \cup {NoTrace}]
      /\ persist \in [Persisters -> [pc : PersistPc, trace : Traces \cup {NoTrace}]]
  BY DEF RecsInv, RecsTypeOK
<1>2. \E from \in PersistPc \ {"idle"}, to \in PersistPc : PersistGoes(p, from, to)
  BY DEF PersistStep, FindExisting, LogExecution, CreateInsight, CreateRecommendation,
     LogSuccess, PersistThrows, LogFailure, PersistPc
<1> QED
  BY <1>1, <1>2 DEF PersistGoes

(* The next attempt, or the end when none is left.                         *)
LEMMA AttemptKept ==
  ASSUME AgentsInv, RecsInv', NEW r \in Runners, NEW run \in Run, NextAttempt(r, run),
         UNCHANGED recs, runlog' = [runlog EXCEPT ![r] = "RUNNING"],
         \A q \in Runners \ {r} : persist'[q] = persist[q], persist'[r].pc = "idle"
  PROVE  AgentsInv'
<1>1. PICK next \in Run :
          /\ runs' = [runs EXCEPT ![r] = next]
          /\ \/ next.pc = "summary"
             \/ next.pc = "fail" /\ next.attempt >= next.max
  <2>1. CASE run.attempt < run.max
    <3>1. PICK next : next = [run EXCEPT !.pc = "summary", !.attempt = run.attempt + 1]
      OBVIOUS
    <3>2. next \in Run /\ next.pc = "summary"
      <4>1. run.attempt + 1 \in Nat /\ "summary" \in RunPc
        BY DEF Run, RunPc
      <4> QED
        BY <3>1, <4>1 DEF Run
    <3>3. runs' = [runs EXCEPT ![r] = next]
      BY <2>1, <3>1 DEF NextAttempt
    <3> QED
      BY <3>2, <3>3
  <2>2. CASE ~(run.attempt < run.max)
    <3>1. PICK next : next = [run EXCEPT !.pc = "fail"]
      OBVIOUS
    <3>2. next \in Run /\ next.pc = "fail"
      BY <3>1 DEF Run, RunPc
    <3>4. next.attempt >= next.max
      <4>1. run.attempt \in Nat /\ run.max \in Nat
            /\ next.attempt = run.attempt /\ next.max = run.max
        BY <3>1 DEF Run
      <4> QED
        BY <2>2, <4>1
    <3>3. runs' = [runs EXCEPT ![r] = next]
      BY <2>2, <3>1 DEF NextAttempt
    <3> QED
      BY <3>2, <3>3, <3>4
  <2> QED
    BY <2>1, <2>2
<1>2. \A trace \in Traces : Recommended(trace) => Recommended(trace)'
  BY DEF Recommended
<1> QED
  BY <1>1, <1>2, RunKept DEF ExecutionStatus

LEMMA RunStepInv ==
  ASSUME AgentsInv, NEW r \in Runners, AskRun(r) \/ RunStep(r)
  PROVE  AgentsInv'
<1>0. /\ r \in Persisters /\ RecsInv /\ runs[r] \in Run /\ runlog[r] \in ExecutionStatus
      /\ runs \in [Runners -> Run] /\ runlog \in [Runners -> ExecutionStatus]
      /\ SummaryTraces \cup AgentTraces \subseteq Traces
      /\ persist \in [Persisters -> [pc : PersistPc, trace : Traces \cup {NoTrace}]]
      /\ Runners \subseteq Persisters
  BY AgentsAssumption DEF AgentsInv, RecsInv, RecsTypeOK
<1>1. /\ runs[r].pc # "idle" => runlog[r] = "RUNNING"
      /\ runs[r].pc = "fail" => runs[r].attempt >= runs[r].max
      /\ runs[r].pc = "advising" => runs[r].trace = persist[r].trace
      /\ runs[r].pc = "succeed" => Recommended(runs[r].trace)
      /\ persist[r].pc # "idle" => runs[r].pc \in {"summarizing", "advising"}
  BY DEF AgentsInv, Running
<1>2. ASSUME UNCHANGED recs
      PROVE  \A trace : Recommended(trace) => Recommended(trace)'
  BY <1>2 DEF Recommended
<1>3. ASSUME UNCHANGED recVars PROVE RecsInv'
  BY <1>0, <1>3 DEF recVars, RecsInv, RecsTypeOK, Traced, Deciding, Writing, WrittenBy,
     OnceForEachCaller, PersistedIsThere, Recommended
<1>4. ASSUME NEW pc \in RunPc, RunGoes(r, pc)
      PROVE  \E run \in Run : run = [runs[r] EXCEPT !.pc = pc] /\ run.pc = pc
                 /\ run.trace = runs[r].trace /\ run.attempt = runs[r].attempt
                 /\ run.max = runs[r].max /\ runs' = [runs EXCEPT ![r] = run]
  <2>1. PICK run : run = [runs[r] EXCEPT !.pc = pc]
    OBVIOUS
  <2>2. runs' = [runs EXCEPT ![r] = run]
    BY <1>4, <2>1 DEF RunGoes
  <2>3. run \in Run /\ run.pc = pc /\ run.trace = runs[r].trace
        /\ run.attempt = runs[r].attempt /\ run.max = runs[r].max
    BY <1>0, <2>1 DEF Run
  <2> QED
    BY <2>1, <2>2, <2>3
<1>5. CASE AskRun(r)
  <2>1. PICK n \in MaxRetries : NextAttempt(r, [IdleRun EXCEPT !.max = Attempts(n)])
    BY <1>5 DEF AskRun
  <2>2. [IdleRun EXCEPT !.max = Attempts(n)] \in Run
    BY AgentsAssumption DEF IdleRun, Run, RunPc, Attempts
  <2>3. RecsInv'
    BY <1>3, <1>5 DEF AskRun
  <2>4. UNCHANGED <<recs, persist>> /\ runlog' = [runlog EXCEPT ![r] = "RUNNING"]
    BY <1>5 DEF AskRun, recVars
  <2>5. persist'[r].pc = "idle"
    BY <1>1, <1>5, <2>4 DEF AskRun
  <2> QED
    BY <2>1, <2>2, <2>3, <2>4, <2>5, AttemptKept
<1>6. CASE Summarize(r)
  <2>1. PICK trace \in SummaryTraces : PersistStarts(r, trace)
    BY <1>6 DEF Summarize
  <2>2. RecsInv'
    BY <1>0, <1>6, <2>1, PersistCallInv DEF Summarize
  <2>3. /\ \A q \in Runners \ {r} : persist'[q] = persist[q]
        /\ UNCHANGED <<recs, runlog>>
    BY <1>0, <1>6, <2>1 DEF Summarize, PersistStarts
  <2>4. PICK run \in Run : run.pc = "summarizing" /\ runs' = [runs EXCEPT ![r] = run]
    BY <1>4, <1>6 DEF Summarize, RunPc
  <2>5. runlog[r] = "RUNNING" /\ runlog' = [runlog EXCEPT ![r] = "RUNNING"]
    BY <1>0, <1>1, <1>6, <2>3 DEF Summarize
  <2> QED
    BY <1>2, <2>2, <2>3, <2>4, <2>5, RunKept DEF ExecutionStatus
<1>7. CASE Advise(r)
  <2>1. PICK trace \in AgentTraces :
            /\ PersistStarts(r, trace)
            /\ runs' = [runs EXCEPT ![r].pc = "advising", ![r].trace = trace]
    BY <1>7 DEF Advise
  <2>2. RecsInv'
    BY <1>0, <1>7, <2>1, PersistCallInv DEF Advise
  <2>3. /\ \A q \in Runners \ {r} : persist'[q] = persist[q]
        /\ persist'[r].trace = trace /\ UNCHANGED <<recs, runlog>>
    BY <1>0, <1>7, <2>1 DEF Advise, PersistStarts
  <2>4. PICK run \in Run : run.pc = "advising" /\ run.trace = trace
                            /\ runs' = [runs EXCEPT ![r] = run]
    <3>1. PICK run : run = [runs[r] EXCEPT !.pc = "advising", !.trace = trace]
      OBVIOUS
    <3>2. run \in Run /\ run.pc = "advising" /\ run.trace = trace
      BY <1>0, <3>1 DEF Run, RunPc
    <3>3. runs' = [runs EXCEPT ![r] = run]
      BY <1>0, <2>1, <3>1 DEF Run
    <3> QED
      BY <3>2, <3>3
  <2>5. runlog[r] = "RUNNING" /\ runlog' = [runlog EXCEPT ![r] = "RUNNING"]
    BY <1>0, <1>1, <1>7, <2>3 DEF Advise
  <2> QED
    BY <1>2, <2>2, <2>3, <2>4, <2>5, RunKept DEF ExecutionStatus
<1>8. CASE Advised(r)
  <2>1. RecsInv'
    BY <1>0, <1>8, PersistCallInv DEF Advised
  <2>2. /\ \A q \in Runners \ {r} : persist'[q] = persist[q]
        /\ persist'[r].pc = "idle" /\ UNCHANGED <<recs, runlog>>
    BY <1>0, <1>8 DEF Advised, PersistEnds
  <2>3. PICK run \in Run : run.pc = "succeed" /\ run.trace = runs[r].trace
                            /\ runs' = [runs EXCEPT ![r] = run]
    BY <1>4, <1>8 DEF Advised, RunPc
  <2>4. Recommended(runs[r].trace)
    BY <1>0, <1>1, <1>8 DEF Advised, RecsInv, PersistedIsThere
  <2>5. runlog[r] = "RUNNING" /\ runlog' = [runlog EXCEPT ![r] = "RUNNING"]
    BY <1>0, <1>1, <1>8, <2>2 DEF Advised
  <2>6. Recommended(run.trace)'
    BY <2>2, <2>3, <2>4 DEF Recommended
  <2> QED
    BY <1>2, <2>1, <2>2, <2>3, <2>5, <2>6, RunKept DEF ExecutionStatus
<1>9. CASE Succeed(r)
  <2>1. RecsInv' /\ UNCHANGED <<recs, persist>>
    BY <1>3, <1>9 DEF Succeed, recVars
  <2>2. PICK run \in Run : run.pc = "idle" /\ run.trace = runs[r].trace
                            /\ runs' = [runs EXCEPT ![r] = run]
    BY <1>4, <1>9 DEF Succeed, RunPc
  <2>3. Recommended(run.trace)'
    BY <1>1, <1>9, <2>1, <2>2 DEF Succeed, Recommended
  <2>4. persist'[r].pc = "idle" /\ runlog' = [runlog EXCEPT ![r] = "SUCCESS"]
    BY <1>1, <1>9, <2>1 DEF Succeed
  <2> QED
    BY <1>2, <2>1, <2>2, <2>3, <2>4, RunKept DEF ExecutionStatus
<1>10. CASE AttemptThrows(r)
  <2>1. RecsInv'
    <3>1. CASE UNCHANGED persist
      BY <1>3, <1>10, <3>1 DEF AttemptThrows, recVars
    <3>2. CASE PersistEnds(r)
      BY <1>0, <1>10, <3>2, PersistCallInv DEF AttemptThrows
    <3> QED
      BY <1>10, <3>1, <3>2 DEF AttemptThrows
  <2>2. /\ \A q \in Runners \ {r} : persist'[q] = persist[q]
        /\ persist'[r].pc = "idle" /\ UNCHANGED <<recs, runlog>>
    BY <1>0, <1>1, <1>10 DEF AttemptThrows, PersistEnds
  <2>3. runs[r].pc # "idle" /\ NextAttempt(r, runs[r])
    BY <1>1, <1>10 DEF AttemptThrows
  <2>4. runlog' = [runlog EXCEPT ![r] = "RUNNING"]
    BY <1>0, <1>1, <2>2, <2>3
  <2> QED
    BY <1>0, <2>1, <2>2, <2>3, <2>4, AttemptKept
<1>11. CASE Fail(r)
  <2>1. RecsInv' /\ UNCHANGED <<recs, persist>>
    BY <1>3, <1>11 DEF Fail, recVars
  <2>2. PICK run \in Run : /\ run.pc = "idle" /\ run.attempt = runs[r].attempt
                            /\ run.max = runs[r].max /\ runs' = [runs EXCEPT ![r] = run]
    BY <1>4, <1>11 DEF Fail, RunPc
  <2>3. run.attempt >= run.max /\ persist'[r].pc = "idle"
    BY <1>1, <1>11, <2>1, <2>2 DEF Fail
  <2>4. PICK log \in {"RUNNING", "FAILED"} : runlog' = [runlog EXCEPT ![r] = log]
    BY <1>0, <1>1, <1>11 DEF Fail
  <2> QED
    BY <1>2, <2>1, <2>2, <2>3, <2>4, RunKept DEF ExecutionStatus
<1>12. CASE PersistStep(r) /\ UNCHANGED <<runs, runlog>>
  <2>1. RecsInv'
    BY <1>0, <1>12, PersistStepInv
  <2>2. \A trace \in Traces : Recommended(trace) => Recommended(trace)'
    BY <1>0, <1>12, NothingRemoved
  <2>3. /\ persist[r].pc # "idle" /\ persist'[r].trace = persist[r].trace
        /\ \A q \in Runners \ {r} : persist'[q] = persist[q]
    BY <1>0, <1>12, TraceKept
  <2>4. runs' = [runs EXCEPT ![r] = runs[r]] /\ runlog' = [runlog EXCEPT ![r] = runlog[r]]
    BY <1>0, <1>12
  <2>5. runs[r].pc \in {"summarizing", "advising"}
    BY <1>1, <2>3
  <2> QED
    BY <1>0, <1>1, <2>1, <2>2, <2>3, <2>4, <2>5, RunKept
<1> QED
  BY <1>5, <1>6, <1>7, <1>8, <1>9, <1>10, <1>11, <1>12 DEF RunStep

LEMMA AgentsNextInv == AgentsInv /\ [AgentsNext]_agentVars => AgentsInv'
<1> SUFFICES ASSUME AgentsInv, [AgentsNext]_agentVars PROVE AgentsInv'
  OBVIOUS
<1>1. ASSUME NEW d \in Deciders, DecideStep(d), UNCHANGED <<runs, runlog>> PROVE AgentsInv'
  <2>1. RecsInv' /\ \A trace \in Traces : Recommended(trace) => Recommended(trace)'
    BY <1>1, DecideInv, NothingRemoved DEF AgentsInv
  <2>2. UNCHANGED persist
    BY <1>1 DEF DecideStep, ReadDecisions, WriteDecision, DecisionThrows
  <2>3. \A trace : Recommended(trace) => Recommended(trace)'
    <3>1. \A i \in DOMAIN recs : recs[i].trace \in Traces
      <4>1. \A i \in DOMAIN recs : recs[i] \in Recommendation
        BY <1>1 DEF AgentsInv, RecsInv, RecsTypeOK
      <4> QED
        BY <4>1 DEF Recommendation
    <3> QED
      BY <2>1, <3>1 DEF Recommended
  <2> QED
    BY <1>1, <2>1, <2>2, <2>3 DEF AgentsInv, Running, RunLogIsTrue
<1>2. CASE UNCHANGED agentVars
  BY <1>2 DEF agentVars, recVars, AgentsInv, RecsInv, RecsTypeOK, Traced, Deciding, Writing,
     WrittenBy, OnceForEachCaller, PersistedIsThere, Recommended, Running, RunLogIsTrue
<1> QED
  BY <1>1, <1>2, RunStepInv DEF AgentsNext

LEMMA AgentsInvHolds == AgentsSpec => []AgentsInv
<1> QED
  BY AgentsInitInv, AgentsNextInv, PTL DEF AgentsSpec

(* However a caller's attempts fail and are retried, it writes a trace     *)
(* once (persistAuditableRecommendation).                                  *)
THEOREM CallersWriteOnce == AgentsSpec => []OnceForEachCaller
<1>1. AgentsInv => OnceForEachCaller
  BY DEF AgentsInv, RecsInv
<1> QED
  BY <1>1, AgentsInvHolds, PTL

(* An answer or a SUCCESS in the log of a recommendation means that the    *)
(* recommendation is there (persistAuditableRecommendation).               *)
THEOREM AnswersAreBacked == AgentsSpec => []PersistedIsThere
<1>1. AgentsInv => PersistedIsThere
  BY DEF AgentsInv, RecsInv
<1> QED
  BY <1>1, AgentsInvHolds, PTL

(* The log of a run of an agent is right about the run                     *)
(* (AgentsService.run).                                                    *)
THEOREM RunLogsAreTrue == AgentsSpec => []RunLogIsTrue
<1>1. AgentsInv => RunLogIsTrue
  BY DEF AgentsInv
<1> QED
  BY <1>1, AgentsInvHolds, PTL

(* A decision is appended, or is written over by one that read before it.  *)
DecisionKept(d) ==
    decider[d].rec # 0 /\ decider'[d].rec = 0 =>
        LET i == decider[d].rec
        IN  \/ recs'[i].history = recs[i].history
            \/ decider[d].history # recs[i].history
            \/ SubSeq(recs'[i].history, 1, DecisionsOf(i)) = recs[i].history

LEMMA DecisionStep ==
  ASSUME AgentsInv, [AgentsNext]_agentVars
  PROVE  [\A d \in Deciders : DecisionKept(d)]_recVars
<1> USE DEF DecisionKept
<1>0. /\ recs \in Seq(Recommendation)
      /\ decider \in [Deciders -> [rec : Nat, history : Seq(RecommendationStatus)]]
  BY DEF AgentsInv, RecsInv, RecsTypeOK
<1>1. CASE UNCHANGED decider
  BY <1>0, <1>1
<1>2. ASSUME NEW e \in Deciders, DecideStep(e), NEW d \in Deciders,
             decider[d].rec # 0, decider'[d].rec = 0
      PROVE  DecisionKept(d)
  <2>1. CASE UNCHANGED recs
    BY <2>1
  <2>2. CASE WriteDecision(e)
    <3>1. d = e
      BY <1>0, <1>2, <2>2 DEF WriteDecision
    <3>2. PICK i \in DOMAIN recs : i = decider[d].rec
      BY <1>2 DEF AgentsInv, RecsInv, Deciding, NoDecision
    <3>3. PICK status \in Verdicts : recs' = [recs EXCEPT ![i] =
              [@ EXCEPT !.status = status, !.history = Append(decider[d].history, status)]]
      BY <2>2, <3>1, <3>2 DEF WriteDecision
    <3>4. recs[i] \in Recommendation
      BY <1>0
    <3>5. recs'[i].history = Append(decider[d].history, status)
      BY <3>3, <3>4 DEF Recommendation
    <3>6. SubSeq(Append(decider[d].history, status), 1, Len(decider[d].history)) = decider[d].history
      <4>1. decider[d].history \in Seq(RecommendationStatus) /\ status \in RecommendationStatus
        BY <1>0, RecommendationsAssumption
      <4> QED
        BY <4>1
    <3> QED
      BY <3>2, <3>5, <3>6 DEF DecisionsOf
  <2> QED
    BY <1>2, <2>1, <2>2 DEF DecideStep, ReadDecisions, DecisionThrows
<1> HIDE DEF DecisionKept
<1>3. ASSUME NEW r \in Runners, AskRun(r) \/ RunStep(r) PROVE UNCHANGED decider
  BY <1>3 DEF AskRun, RunStep, recVars, Summarize, Advise, Advised, Succeed, AttemptThrows, Fail,
     PersistStep, FindExisting, LogExecution, CreateInsight, CreateRecommendation, LogSuccess,
     PersistThrows, LogFailure
<1>4. ASSUME NEW d \in Deciders, ~(decider[d].rec # 0 /\ decider'[d].rec = 0) PROVE DecisionKept(d)
  BY <1>4 DEF DecisionKept
<1>5. CASE UNCHANGED agentVars
  BY <1>5 DEF agentVars
<1> QED
  BY <1>1, <1>2, <1>3, <1>4, <1>5 DEF AgentsNext

(* A decision disappears from a history only when another one was written  *)
(* after the history was read (transitionRecommendationStatus).            *)
THEOREM DecisionsAreKept == AgentsSpec => NoDecisionLostUnlessStale
<1>1. AgentsInv /\ [AgentsNext]_agentVars => [\A d \in Deciders : DecisionKept(d)]_recVars
  BY DecisionStep
<1>2. AgentsSpec => [][\A d \in Deciders : DecisionKept(d)]_recVars
  BY <1>1, AgentsInvHolds, PTL DEF AgentsSpec
<1> QED
  BY <1>2 DEF NoDecisionLostUnlessStale, DecisionKept

(***************************************************************************)
(* The experiments                                                         *)
(***************************************************************************)

(* What is recommended, or about to be, is an arm of the experiment that   *)
(* has run.                                                                *)
IsReal(v) ==
    /\ experiment.status \notin {"none", "DRAFT"}
    /\ experiment.variants[v] = "arm"
    /\ ResultPeriods(experiment, v) # {}
RealTrace(trace) == \E v \in Variants : trace = WinnerTrace[v] /\ IsReal(v)
RecommendsWinners == \A i \in DOMAIN recs : RealTrace(recs[i].trace)
PersistsWinners == \A p \in Persisters : persist[p].pc # "idle" => RealTrace(persist[p].trace)

(* A request writes what its checks have passed, of the experiment it read;*)
(* what attributes its results was completed.                              *)
Checked ==
    \A x \in Experimenters :
        /\ req[x].pc = "write" => Passes(req[x].op, req[x].seen) /\ experiment.status # "none"
        /\ req[x].pc = "attribute" => experiment.status \notin {"none", "DRAFT"}
Blank == experiment.status = "none" => experiment = NewExperiment

ExperimentsInv ==
    /\ RecsInv /\ experiment \in Experiment /\ req \in [Experimenters -> Req]
    /\ RecommendsWinners /\ PersistsWinners /\ Checked /\ Blank

LEMMA NewIsExperiment == NewExperiment \in Experiment /\ IdleReq \in Req
<1>1. NewExperiment \in Experiment
  BY DEF NewExperiment, Experiment, ExperimentStatus, VariantKind
<1> QED
  BY <1>1 DEF IdleReq, Req, ReqPc, ExpOp

LEMMA ExperimentsInitInv == ExperimentsInit => ExperimentsInv
<1> SUFFICES ASSUME ExperimentsInit PROVE ExperimentsInv
  OBVIOUS
<1>1. RecsInv /\ experiment = NewExperiment /\ req = [x \in Experimenters |-> IdleReq]
  BY RecsInitInv DEF ExperimentsInit
<1>2. recs = <<>> /\ \A p \in Persisters : persist[p].pc = "idle"
  BY DEF ExperimentsInit, RecsInit
<1>3. \A x \in Experimenters : req[x].pc = "idle"
  BY <1>1 DEF IdleReq
<1> QED
  BY <1>1, <1>2, <1>3, NewIsExperiment
  DEF ExperimentsInv, RecommendsWinners, PersistsWinners, Checked, Blank

(* A variant without a result is no winner: its sum is 0.                  *)
LEMMA WinnersHaveResults ==
  ASSUME NEW e \in Experiment, NEW v \in Winners(e)
  PROVE  v \in Variants /\ e.variants[v] = "arm" /\ ResultPeriods(e, v) # {}
<1>1. v \in Variants /\ e.variants[v] = "arm"
  <2>1. v \in Variants /\ e.variants[v] \in VariantKind
    BY DEF Winners, Added, Experiment
  <2> QED
    BY <2>1 DEF Winners, Added, Controls, VariantKind
<1>2. PICK c \in Variants : UpliftOver(e, v, c, 5)
  BY DEF Winners, Controls
<1>3. ASSUME NEW u \in Variants
      PROVE  ResultSum(e, u) \in Nat /\ ResultCount(e, u) \in Nat
  <2>1. IsFiniteSet(ResultPeriods(e, u))
    BY FS_Subset, ExperimentsAssumption DEF ResultPeriods
  <2>2. ASSUME NEW t \in ResultPeriods(e, u)
        PROVE  IsFiniteSet({t} \X (1..e.results[u][t]))
    <3>1. e.results[u][t] \in Nat
      <4>1. t \in Weeks /\ e.results[u][t] # NoResult
        BY DEF ResultPeriods
      <4>2. e.results \in [Variants -> [Weeks -> MetricValues \cup {NoResult}]]
        BY DEF Experiment
      <4>3. e.results[u][t] \in MetricValues \cup {NoResult}
        BY <4>1, <4>2
      <4> QED
        BY <4>1, <4>3, ExperimentsAssumption
    <3>2. IsFiniteSet({t}) /\ IsFiniteSet(1..e.results[u][t])
      <4>1. IsFiniteSet(1..e.results[u][t])
        BY <3>1, FS_Interval
      <4> QED
        BY <4>1, FS_Singleton
    <3> QED
      BY <3>2, FS_Product DEF ResultPeriods
  <2> DEFINE blocks == {{t} \X (1..e.results[u][t]) : t \in ResultPeriods(e, u)}
  <2>3. IsFiniteSet(blocks)
    <3> DEFINE block == [t \in ResultPeriods(e, u) |-> {t} \X (1..e.results[u][t])]
    <3>1. block \in Surjection(ResultPeriods(e, u), blocks)
      BY DEF Surjection
    <3> QED
      BY <2>1, <3>1, FS_Surjection
  <2>4. \A b \in blocks : IsFiniteSet(b)
    BY <2>2
  <2>5. IsFiniteSet(UNION blocks)
    BY <2>3, <2>4, FS_UNION
  <2> QED
    BY <2>1, <2>5, FS_CardinalityType DEF ResultSum, ResultCount
<1>4. ASSUME ResultPeriods(e, v) = {} PROVE FALSE
  <2>1. UNION {{t} \X (1..e.results[v][t]) : t \in ResultPeriods(e, v)} = {}
    BY <1>4
  <2>2. ResultSum(e, v) = 0 /\ ResultCount(e, v) = 0
    BY <1>4, <2>1, FS_EmptySet DEF ResultSum, ResultCount
  <2>3. 100 * 0 * ResultCount(e, c) > (100 + 5) * ResultSum(e, c) * 1
    BY <1>2, <2>2 DEF UpliftOver
  <2> QED
    BY <1>3, <2>3
<1> QED
  BY <1>1, <1>4

(* A row comes with the trace of a row before it, or of a caller.          *)
LEMMA TracesCome ==
  ASSUME RecsInv,
         (\E p \in Persisters : PersistStep(p)) \/ (\E d \in Deciders : DecideStep(d))
  PROVE  \A i \in DOMAIN recs' :
             \/ \E j \in DOMAIN recs : recs'[i].trace = recs[j].trace
             \/ \E q \in Persisters : persist[q].pc # "idle" /\ recs'[i].trace = persist[q].trace
<1>0. recs \in Seq(Recommendation)
  BY DEF RecsInv, RecsTypeOK
<1>1. CASE UNCHANGED recs
  BY <1>1
<1>2. ASSUME NEW p \in Persisters, CreateRecommendation(p)
      PROVE  \A i \in DOMAIN recs' :
             \/ \E j \in DOMAIN recs : recs'[i].trace = recs[j].trace
             \/ \E q \in Persisters : persist[q].pc # "idle" /\ recs'[i].trace = persist[q].trace
  <2>1. PICK row : recs' = Append(recs, row) /\ row.trace = persist[p].trace
    BY <1>2 DEF CreateRecommendation
  <2>2. recs \in Seq(Recommendation \cup {row}) /\ row \in Recommendation \cup {row}
    BY <1>0
  <2>3. /\ \A i \in DOMAIN recs : recs'[i] = recs[i]
        /\ \A i \in DOMAIN recs' : i \in DOMAIN recs \/ recs'[i] = row
    BY <2>1, <2>2, AppendProperties
  <2>4. persist[p].pc # "idle"
    BY <1>2 DEF CreateRecommendation, PersistGoes
  <2> QED
    BY <2>1, <2>3, <2>4
<1>3. ASSUME NEW d \in Deciders, WriteDecision(d)
      PROVE  DOMAIN recs' = DOMAIN recs /\ \A i \in DOMAIN recs : recs'[i].trace = recs[i].trace
  <2>1. PICK status \in Verdicts : recs' = [recs EXCEPT ![decider[d].rec] =
            [@ EXCEPT !.status = status, !.history = Append(decider[d].history, status)]]
    BY <1>3 DEF WriteDecision
  <2>2. \A i \in DOMAIN recs : recs[i] \in Recommendation
    BY <1>0
  <2> QED
    BY <2>1, <2>2 DEF Recommendation
<1> QED
  BY <1>1, <1>2, <1>3 DEF PersistStep, FindExisting, LogExecution, CreateInsight, LogSuccess,
     PersistThrows, LogFailure, DecideStep, ReadDecisions, DecisionThrows

(* Nothing undoes that an arm has run.                                     *)
LEMMA ArmsStay ==
  ASSUME ExperimentsInv, CreateExperiment \/ \E x \in Experimenters : ExperimentStep(x)
  PROVE  /\ experiment' \in Experiment /\ Blank'
         /\ experiment.status # "none" => experiment'.status # "none"
         /\ experiment.status \notin {"none", "DRAFT"} => experiment'.status \notin {"none", "DRAFT"}
         /\ \A v \in Variants : IsReal(v) => IsReal(v)'
<1>0. experiment \in Experiment /\ req \in [Experimenters -> Req]
  BY DEF ExperimentsInv
<1>1. CASE UNCHANGED experiment
  BY <1>0, <1>1 DEF ExperimentsInv, Blank, IsReal, ResultPeriods
<1>2. CASE CreateExperiment
  <2>1. experiment' = [NewExperiment EXCEPT !.status = "DRAFT"] /\ experiment.status = "none"
    BY <1>2 DEF CreateExperiment
  <2>2. experiment' \in Experiment /\ experiment'.status = "DRAFT"
    BY <2>1, NewIsExperiment DEF Experiment, ExperimentStatus
  <2> QED
    BY <2>1, <2>2 DEF Blank, IsReal
<1>3. ASSUME NEW status \in {"RUNNING", "PAUSED", "COMPLETED"},
             experiment' = [experiment EXCEPT !.status = status]
      PROVE  /\ experiment' \in Experiment /\ experiment'.status = status
             /\ experiment'.variants = experiment.variants /\ experiment'.results = experiment.results
  BY <1>0, <1>3 DEF Experiment, ExperimentStatus
<1>4. CASE \E status \in {"RUNNING", "PAUSED", "COMPLETED"} :
              experiment' = [experiment EXCEPT !.status = status]
  BY <1>3, <1>4 DEF Blank, IsReal, ResultPeriods
<1>5. ASSUME NEW x \in Experimenters, AddVariant(x)
      PROVE  /\ experiment' \in Experiment /\ Blank'
             /\ experiment'.status = experiment.status
             /\ \A v \in Variants : IsReal(v) => IsReal(v)'
  <2>1. PICK n \in Variants \ Added(experiment), kind \in {"control", "arm"} :
            experiment' = [experiment EXCEPT !.variants[n] = kind]
    BY <1>5, <1>0 DEF AddVariant, NextVariant, Writes, Added
  <2>2. experiment' \in Experiment
    <3>1. [experiment.variants EXCEPT ![n] = kind] \in [Variants -> VariantKind]
      BY <1>0 DEF Experiment, VariantKind
    <3> QED
      BY <1>0, <2>1, <3>1 DEF Experiment
  <2>3. /\ experiment'.status = experiment.status /\ experiment'.results = experiment.results
        /\ \A v \in Variants \ {n} : experiment'.variants[v] = experiment.variants[v]
    BY <1>0, <2>1 DEF Experiment
  <2>4. experiment.variants[n] # "arm"
    BY DEF Added
  <2>5. experiment.status # "none"
    BY <1>5 DEF AddVariant, Writes, ExperimentsInv, Checked
  <2> QED
    BY <2>2, <2>3, <2>4, <2>5 DEF Blank, IsReal, ResultPeriods
<1>6. ASSUME NEW x \in Experimenters, RecordResult(x)
      PROVE  /\ experiment' \in Experiment /\ Blank'
             /\ experiment'.status = experiment.status
             /\ \A v \in Variants : IsReal(v) => IsReal(v)'
  <2>0. req[x].seen \in Experiment
    BY <1>0 DEF Req
  <2>1. PICK u \in Variants, t \in Weeks, value \in MetricValues :
            experiment' = [experiment EXCEPT !.results[u][t] = value]
    BY <1>6, <2>0 DEF RecordResult, Added, Experiment
  <2>2. PICK row : row = [experiment.results[u] EXCEPT ![t] = value]
    OBVIOUS
  <2>3. row \in [Weeks -> MetricValues \cup {NoResult}]
    BY <1>0, <2>2 DEF Experiment
  <2>4. experiment' = [experiment EXCEPT !.results = [experiment.results EXCEPT ![u] = row]]
    BY <1>0, <2>1, <2>2 DEF Experiment
  <2>5. [experiment.results EXCEPT ![u] = row] \in [Variants -> [Weeks -> MetricValues \cup {NoResult}]]
    BY <1>0, <2>3 DEF Experiment
  <2>6. /\ experiment' \in Experiment /\ experiment'.status = experiment.status
        /\ experiment'.variants = experiment.variants
        /\ experiment'.results = [experiment.results EXCEPT ![u] = row]
    BY <1>0, <2>4, <2>5 DEF Experiment
  <2>7. \A v \in Variants : ResultPeriods(experiment, v) # {} => ResultPeriods(experiment, v)' # {}
    <3> SUFFICES ASSUME NEW v \in Variants, NEW s \in ResultPeriods(experiment, v)
                 PROVE  s \in ResultPeriods(experiment, v)'
      OBVIOUS
    <3>1. s \in Weeks /\ experiment.results[v][s] # NoResult /\ value # NoResult
      BY ExperimentsAssumption DEF ResultPeriods
    <3>2. experiment'.results[v][s] \in {value, experiment.results[v][s]}
      BY <1>0, <2>2, <2>6, <3>1 DEF Experiment
    <3> QED
      BY <3>1, <3>2 DEF ResultPeriods
  <2>8. experiment.status # "none"
    BY <1>6 DEF RecordResult, Writes, ExperimentsInv, Checked
  <2> QED
    BY <2>6, <2>7, <2>8 DEF Blank, IsReal
<1> QED
  BY <1>1, <1>2, <1>4, <1>5, <1>6 DEF ExperimentStep, GetExperiment, LaunchExperiment,
     ArchiveExperiment, CompleteExperiment, Attribute, CompletionEnds, ReqStops

LEMMA ChecksHold ==
  ASSUME ExperimentsInv, CreateExperiment \/ \E x \in Experimenters : ExperimentStep(x)
  PROVE  req' \in [Experimenters -> Req] /\ Checked'
<1>0. /\ experiment \in Experiment /\ req \in [Experimenters -> Req] /\ Checked
      /\ experiment.status # "none" => experiment'.status # "none"
      /\ experiment.status \notin {"none", "DRAFT"} => experiment'.status \notin {"none", "DRAFT"}
  BY ArmsStay DEF ExperimentsInv
<1>1. CASE UNCHANGED req
  BY <1>0, <1>1 DEF Checked
<1>2. ASSUME NEW x \in Experimenters, NEW r \in Req, req' = [req EXCEPT ![x] = r],
             r.pc = "write" => Passes(r.op, r.seen) /\ experiment'.status # "none",
             r.pc = "attribute" => experiment'.status \notin {"none", "DRAFT"}
      PROVE  req' \in [Experimenters -> Req] /\ Checked'
  <2>1. req'[x] = r /\ \A y \in Experimenters \ {x} : req'[y] = req[y]
    BY <1>0, <1>2
  <2> QED
    BY <1>0, <1>2, <2>1 DEF Checked
<1>3. ASSUME NEW x \in Experimenters, ReqEnds(x) PROVE req' \in [Experimenters -> Req] /\ Checked'
  BY <1>2, <1>3, NewIsExperiment DEF ReqEnds, IdleReq
<1>4. ASSUME NEW x \in Experimenters, GetExperiment(x) PROVE req' \in [Experimenters -> Req] /\ Checked'
  <2>1. PICK op \in ExpOp : /\ Passes(op, experiment)
                            /\ req' = [req EXCEPT ![x] = [pc |-> "write", op |-> op, seen |-> experiment]]
    BY <1>4 DEF GetExperiment
  <2>2. experiment' = experiment /\ experiment.status # "none"
    BY <1>4 DEF GetExperiment
  <2> QED
    BY <1>0, <1>2, <2>1, <2>2 DEF Req, ReqPc
<1>5. ASSUME NEW x \in Experimenters, CompleteExperiment(x) PROVE req' \in [Experimenters -> Req] /\ Checked'
  <2>1. PICK r : r = [IdleReq EXCEPT !.pc = "attribute"]
    OBVIOUS
  <2>2. r \in Req /\ r.pc = "attribute"
    BY <2>1, NewIsExperiment DEF IdleReq, Req, ReqPc
  <2>3. experiment'.status = "COMPLETED" /\ req' = [req EXCEPT ![x] = r]
    BY <1>0, <1>5, <2>1 DEF CompleteExperiment, Experiment
  <2> QED
    BY <1>2, <2>2, <2>3
<1>6. ASSUME NEW x \in Experimenters, Attribute(x) PROVE req' \in [Experimenters -> Req] /\ Checked'
  <2>1. PICK r : r = [req[x] EXCEPT !.pc = "persist"]
    OBVIOUS
  <2>2. r \in Req /\ r.pc = "persist"
    BY <1>0, <2>1 DEF Req, ReqPc
  <2>3. CASE req' = [req EXCEPT ![x].pc = "persist"]
    BY <1>2, <2>1, <2>2, <2>3
  <2> QED
    BY <1>3, <1>6, <2>3 DEF Attribute
<1> QED
  BY <1>1, <1>3, <1>4, <1>5, <1>6 DEF CreateExperiment, ExperimentStep, LaunchExperiment,
     ArchiveExperiment, AddVariant, RecordResult, CompletionEnds, ReqStops

LEMMA ExperimentsNextInv ==
  ASSUME ExperimentsInv, CreateExperiment \/ \E x \in Experimenters : ExperimentStep(x)
  PROVE  ExperimentsInv'
<1>0. /\ RecsInv /\ RecommendsWinners /\ PersistsWinners /\ Experimenters \subseteq Persisters
      /\ \A v \in Variants : IsReal(v) => IsReal(v)'
      /\ \A v \in Variants : WinnerTrace[v] \in Traces
      /\ persist \in [Persisters -> [pc : PersistPc, trace : Traces \cup {NoTrace}]]
  BY ArmsStay, ExperimentsAssumption DEF ExperimentsInv, RecsInv, RecsTypeOK
<1>1. \A trace : RealTrace(trace) => RealTrace(trace)'
  BY <1>0 DEF RealTrace
<1>2. RecsInv' /\ RecommendsWinners' /\ PersistsWinners'
  <2>1. CASE UNCHANGED recVars
    BY <1>0, <1>1, <2>1 DEF recVars, RecsInv, RecsTypeOK, Traced, Deciding, Writing, WrittenBy,
       OnceForEachCaller, PersistedIsThere, Recommended, RecommendsWinners, PersistsWinners
  <2>2. ASSUME NEW x \in Experimenters, PersistStep(x), UNCHANGED experiment
        PROVE  RecsInv' /\ RecommendsWinners' /\ PersistsWinners'
    <3>1. RecsInv'
      BY <1>0, <2>2, PersistStepInv
    <3>2. RecommendsWinners'
      <4> SUFFICES ASSUME NEW i \in DOMAIN recs', NEW trace, trace = recs'[i].trace
                   PROVE  RealTrace(trace)'
        BY DEF RecommendsWinners
      <4>1. RealTrace(trace)
        BY <1>0, <2>2, TracesCome DEF RecommendsWinners, PersistsWinners
      <4> QED
        BY <1>1, <4>1
    <3>3. PersistsWinners'
      <4> SUFFICES ASSUME NEW p \in Persisters, persist'[p].pc # "idle",
                          NEW trace, trace = persist'[p].trace
                   PROVE  RealTrace(trace)'
        BY DEF PersistsWinners
      <4>1. persist[p].pc # "idle" /\ trace = persist[p].trace
        BY <1>0, <2>2, TraceKept
      <4>2. RealTrace(trace)
        BY <1>0, <4>1 DEF PersistsWinners
      <4> QED
        BY <1>1, <4>2
    <3> QED
      BY <3>1, <3>2, <3>3
  <2>3. ASSUME NEW x \in Experimenters, UNCHANGED <<recs, logs, decider, experiment>>,
               \/ PersistEnds(x)
               \/ \E v \in Winners(experiment) :
                      experiment.status \notin {"none", "DRAFT"} /\ PersistStarts(x, WinnerTrace[v])
        PROVE  RecsInv' /\ RecommendsWinners' /\ PersistsWinners'
    <3>1. CASE PersistEnds(x)
      <4>1. RecsInv'
        BY <1>0, <2>3, <3>1, PersistCallInv
      <4>2. persist'[x].pc = "idle" /\ \A p \in Persisters \ {x} : persist'[p] = persist[p]
        BY <1>0, <3>1 DEF PersistEnds
      <4> QED
        BY <1>0, <1>1, <2>3, <4>1, <4>2 DEF RecommendsWinners, PersistsWinners
    <3>2. ASSUME NEW v \in Winners(experiment), experiment.status \notin {"none", "DRAFT"},
                 PersistStarts(x, WinnerTrace[v])
          PROVE  RecsInv' /\ RecommendsWinners' /\ PersistsWinners'
      <4>1. v \in Variants /\ IsReal(v)
        BY <3>2, WinnersHaveResults DEF IsReal, ExperimentsInv
      <4>2. RealTrace(WinnerTrace[v])
        BY <4>1 DEF RealTrace
      <4>3. RecsInv'
        BY <1>0, <2>3, <3>2, <4>1, PersistCallInv
      <4>4. /\ persist'[x].trace = WinnerTrace[v]
            /\ \A p \in Persisters \ {x} : persist'[p] = persist[p]
        BY <1>0, <3>2 DEF PersistStarts
      <4> QED
        BY <1>0, <1>1, <2>3, <4>2, <4>3, <4>4 DEF RecommendsWinners, PersistsWinners
    <3> QED
      BY <2>3, <3>1, <3>2
  <2>4. ASSUME NEW x \in Experimenters, Attribute(x)
        PROVE  RecsInv' /\ RecommendsWinners' /\ PersistsWinners'
    <3>1. experiment.status \notin {"none", "DRAFT"}
      BY <2>4 DEF Attribute, ExperimentsInv, Checked
    <3> QED
      BY <2>1, <2>3, <2>4, <3>1 DEF Attribute, recVars
  <2> QED
    BY <2>1, <2>2, <2>3, <2>4 DEF CreateExperiment, ExperimentStep, GetExperiment, LaunchExperiment,
       ArchiveExperiment, AddVariant, RecordResult, CompleteExperiment, CompletionEnds, ReqStops
<1> QED
  BY <1>2, ArmsStay, ChecksHold DEF ExperimentsInv
(* A request that ends has read the experiment as it is, if nothing        *)
(* overtook it, and has passed its checks.                                 *)
LEMMA WritesWhatItRead ==
  ASSUME ExperimentsInv, ~Overtaken, NEW x \in Experimenters, NEW op, Writes(x, op),
         req'[x].pc # "write"
  PROVE  Passes(op, experiment)
BY DEF Writes, Overtaken, UpToDate, ExperimentsInv, Checked

LEMMA StatusStep ==
  ASSUME ExperimentsInv, CreateExperiment \/ \E x \in Experimenters : ExperimentStep(x),
         experiment'.status # experiment.status, ~Overtaken
  PROVE  \/ <<experiment.status, experiment'.status>> \in {<<"none", "DRAFT">>, <<"RUNNING", "COMPLETED">>}
         \/ /\ <<experiment.status, experiment'.status>> = <<"DRAFT", "RUNNING">>
            /\ Cardinality(Controls(experiment)) = 1
         \/ experiment'.status = "PAUSED"
<1>0. experiment \in Experiment /\ req \in [Experimenters -> Req]
  BY DEF ExperimentsInv
<1>1. ASSUME NEW x \in Experimenters, ReqEnds(x) PROVE req'[x].pc # "write"
  BY <1>0, <1>1 DEF ReqEnds, IdleReq
<1>2. CASE CreateExperiment
  BY <1>2 DEF CreateExperiment, NewExperiment
<1>3. ASSUME NEW x \in Experimenters, LaunchExperiment(x)
      PROVE  /\ experiment.status = "DRAFT" /\ experiment'.status = "RUNNING"
             /\ Cardinality(Controls(experiment)) = 1
  <2>1. Passes("launch", experiment)
    BY <1>1, <1>3, WritesWhatItRead DEF LaunchExperiment
  <2> QED
    BY <1>0, <1>3, <2>1 DEF LaunchExperiment, Passes, Experiment
<1>4. ASSUME NEW x \in Experimenters, ArchiveExperiment(x) PROVE experiment'.status = "PAUSED"
  BY <1>0, <1>4 DEF ArchiveExperiment, Experiment
<1>5. ASSUME NEW x \in Experimenters, CompleteExperiment(x)
      PROVE  experiment.status = "RUNNING" /\ experiment'.status = "COMPLETED"
  <2>1. req'[x].pc # "write"
    BY <1>0, <1>5 DEF CompleteExperiment, IdleReq
  <2>2. Passes("complete", experiment)
    BY <1>5, <2>1, WritesWhatItRead DEF CompleteExperiment
  <2> QED
    BY <1>0, <1>5, <2>2 DEF CompleteExperiment, Passes, Experiment
<1>6. ASSUME NEW x \in Experimenters, AddVariant(x) \/ RecordResult(x) PROVE FALSE
  BY <1>0, <1>6 DEF AddVariant, RecordResult, Experiment
<1> QED
  BY <1>2, <1>3, <1>4, <1>5, <1>6 DEF ExperimentStep, GetExperiment, Attribute, CompletionEnds, ReqStops

LEMMA ArmsStep ==
  ASSUME ExperimentsInv, CreateExperiment \/ \E x \in Experimenters : ExperimentStep(x),
         experiment.status # "DRAFT", ~Overtaken
  PROVE  /\ experiment'.variants = experiment.variants
         /\ experiment'.results # experiment.results => experiment.status = "RUNNING"
<1>0. experiment \in Experiment /\ req \in [Experimenters -> Req]
  BY DEF ExperimentsInv
<1>1. ASSUME NEW x \in Experimenters, ReqEnds(x) PROVE req'[x].pc # "write"
  BY <1>0, <1>1 DEF ReqEnds, IdleReq
<1>2. CASE CreateExperiment
  BY <1>2 DEF CreateExperiment, NewExperiment, ExperimentsInv, Blank
<1>3. ASSUME NEW x \in Experimenters, AddVariant(x) PROVE FALSE
  <2>1. PICK op \in {"control", "arm"} : Writes(x, op)
    BY <1>3 DEF AddVariant
  <2>2. Passes(op, experiment)
    BY <1>1, <1>3, <2>1, WritesWhatItRead DEF AddVariant
  <2> QED
    BY <2>1, <2>2 DEF Passes
<1>4. ASSUME NEW x \in Experimenters, RecordResult(x)
      PROVE  experiment'.variants = experiment.variants /\ experiment.status = "RUNNING"
  <2>1. Passes("record", experiment)
    BY <1>1, <1>4, WritesWhatItRead DEF RecordResult
  <2> QED
    BY <1>0, <1>4, <2>1 DEF RecordResult, Passes, Experiment
<1>5. ASSUME NEW status, experiment' = [experiment EXCEPT !.status = status]
      PROVE  experiment'.variants = experiment.variants /\ experiment'.results = experiment.results
  BY <1>0, <1>5 DEF Experiment
<1> QED
  BY <1>2, <1>3, <1>4, <1>5 DEF ExperimentStep, GetExperiment, LaunchExperiment, ArchiveExperiment,
     CompleteExperiment, Attribute, CompletionEnds, ReqStops

LEMMA ExperimentsSafe == ExperimentsSpec => []ExperimentsInv
<1>1. ExperimentsInv /\ [ExperimentsNext]_expVars => ExperimentsInv'
  <2>1. ASSUME ExperimentsInv, UNCHANGED expVars PROVE ExperimentsInv'
    BY <2>1 DEF expVars, recVars, ExperimentsInv, RecsInv, RecsTypeOK, Traced, Deciding, Writing,
       WrittenBy, OnceForEachCaller, PersistedIsThere, Recommended, RecommendsWinners,
       PersistsWinners, RealTrace, IsReal, ResultPeriods, Checked, Blank
  <2> QED
    BY <2>1, ExperimentsNextInv DEF ExperimentsNext
<1> QED
  BY <1>1, ExperimentsInitInv, PTL DEF ExperimentsSpec

LEMMA InvGivesWinners == ExperimentsInv => WinnersAreReal
<1> SUFFICES ASSUME ExperimentsInv, NEW v \in Variants, Recommended(WinnerTrace[v]) PROVE IsReal(v)
  BY DEF WinnersAreReal, IsReal
<1>1. PICK w \in Variants : WinnerTrace[v] = WinnerTrace[w] /\ IsReal(w)
  BY DEF ExperimentsInv, Recommended, RecommendsWinners, RealTrace
<1> QED
  BY <1>1, ExperimentsAssumption

(* A recommended winner is an arm of an experiment that left its draft,    *)
(* with a result, however requests overlap and whichever calls throw       *)
(* (completeExperiment).                                                   *)
THEOREM WinnersHaveRun == ExperimentsSpec => []WinnersAreReal
BY ExperimentsSafe, InvGivesWinners, PTL

(* An experiment starts with one control and completes from RUNNING, but   *)
(* by a request that was overtaken (launchExperiment, completeExperiment). *)
THEOREM ExperimentFlowIsKept == ExperimentsSpec => LifeCycleUnlessOvertaken
<1>1. ExperimentsInv /\ [ExperimentsNext]_expVars =>
        [experiment'.status # experiment.status /\ ~Overtaken =>
          \/ <<experiment.status, experiment'.status>> \in {<<"none", "DRAFT">>, <<"RUNNING", "COMPLETED">>}
          \/ /\ <<experiment.status, experiment'.status>> = <<"DRAFT", "RUNNING">>
             /\ Cardinality(Controls(experiment)) = 1
          \/ experiment'.status = "PAUSED"]_expVars
  BY StatusStep DEF ExperimentsNext
<1> QED
  BY <1>1, ExperimentsSafe, PTL DEF ExperimentsSpec, LifeCycleUnlessOvertaken

(* Once launched, an experiment keeps its arms, and only a running one     *)
(* gets results, but by a request that was overtaken (addVariant,          *)
(* recordResult).                                                          *)
THEOREM ArmsAreKept == ExperimentsSpec => AssignmentSticks
<1>1. ExperimentsInv /\ [ExperimentsNext]_expVars =>
        [experiment.status # "DRAFT" /\ ~Overtaken =>
          /\ experiment'.variants = experiment.variants
          /\ experiment'.results # experiment.results => experiment.status = "RUNNING"]_expVars
  BY ArmsStep DEF ExperimentsNext
<1> QED
  BY <1>1, ExperimentsSafe, PTL DEF ExperimentsSpec, AssignmentSticks

(***************************************************************************)
(* Alerts                                                                  *)
(***************************************************************************)

(* An evaluation that suppresses an alert, or is about to store it as      *)
(* delivered, is right that it was; a rule that does not exist has no      *)
(* event.                                                                  *)
EvalKnows ==
    /\ \A r \in Rules \ rules : sent[r] = NoEvent
    /\ \A e \in Evaluations, r \in Rules :
           LET x == eval[e][r]
           IN  /\ x.pc # "idle" /\ x.pc # "metric" /\ x.pc # "touch" => x.value \in Readings
               /\ x.pc = "suppress" \/ (x.pc = "record" /\ x.ok) => x.value \in told[r]

(* The evaluations that will still deliver a value.                        *)
EvalLate(r, value) == {e \in Evaluations : /\ eval[e][r].pc \in {"dispatch", "record"}
                                       /\ eval[e][r].value = value}
EventsBounded ==
    \A r \in Rules :
        /\ burst[r] <= Cardinality(Evaluations)
        /\ \A value \in Readings : IsDuplicate(sent[r], value) =>
               burst[r] + Cardinality(EvalLate(r, value)) <= Cardinality(Evaluations)

ToldInv == AlertsTypeOK /\ EvalKnows /\ SuppressedWasDelivered
AlertsInv == ToldInv /\ EventsBounded

LEMMA EvaluationsFinite == /\ IsFiniteSet(Evaluations) /\ Cardinality(Evaluations) \in Nat
                           /\ IsFiniteSet({}) /\ Cardinality({}) = 0
<1> QED
  BY AlertsAssumption, FS_CardinalityType, FS_EmptySet

LEMMA IdleEvalTyped == IdleEval \in Eval /\ IdleEval.pc = "idle"
<1> QED
  BY DEF IdleEval, Eval, EvalPc

LEMMA AlertsInitInv == AlertsInit => AlertsInv
<1> SUFFICES ASSUME AlertsInit PROVE AlertsInv
  OBVIOUS
<1>1. \A e \in Evaluations, r \in Rules : eval[e][r] = IdleEval
  BY DEF AlertsInit
<1>2. AlertsTypeOK
  BY IdleEvalTyped, EvaluationsFinite DEF AlertsInit, AlertsTypeOK
<1>3. EvalKnows /\ SuppressedWasDelivered
  BY <1>1, IdleEvalTyped DEF AlertsInit, EvalKnows, SuppressedWasDelivered
<1>4. EventsBounded
  <2>1. \A r \in Rules : sent[r] = NoEvent /\ burst[r] = 0
    BY DEF AlertsInit
  <2>2. \A r \in Rules : burst[r] <= Cardinality(Evaluations)
    BY <2>1, EvaluationsFinite
  <2> QED
    BY <2>1, <2>2 DEF EventsBounded, IsDuplicate
<1> QED
  BY <1>2, <1>3, <1>4 DEF AlertsInv, ToldInv

(***************************************************************************)
(* The evaluation of a rule                                                *)
(***************************************************************************)

(* The evaluation e goes on with rule r.                                   *)
LEMMA EvalSet ==
  ASSUME ToldInv, NEW e \in Evaluations, NEW r \in Rules, NEW x \in Eval,
         eval' = [eval EXCEPT ![e][r] = x]
  PROVE  /\ eval' \in [Evaluations -> [Rules -> Eval]]
         /\ eval'[e][r] = x
         /\ \A d \in Evaluations, q \in Rules : d # e \/ q # r => eval'[d][q] = eval[d][q]
<1> QED
  BY DEF ToldInv, AlertsTypeOK

LEMMA EvalMoves ==
  ASSUME ToldInv, NEW e \in Evaluations, NEW r \in Rules, NEW pc \in EvalPc, EvalGoes(e, r, pc)
  PROVE  \E x \in Eval : /\ x.pc = pc /\ x.value = eval[e][r].value /\ x.ok = eval[e][r].ok
                         /\ eval' = [eval EXCEPT ![e][r] = x]
<1>0. eval[e][r] \in Eval /\ eval \in [Evaluations -> [Rules -> Eval]]
  BY DEF ToldInv, AlertsTypeOK
<1>1. PICK x : x = [eval[e][r] EXCEPT !.pc = pc]
  OBVIOUS
<1>2. eval' = [eval EXCEPT ![e][r] = x]
  BY <1>1 DEF EvalGoes
<1> QED
  BY <1>0, <1>1, <1>2 DEF Eval

(* The evaluation of a rule goes on, and nothing else changes.             *)
LEMMA OnlyGoes ==
  ASSUME ToldInv, NEW e \in Evaluations, NEW r \in Rules, NEW x \in Eval,
         eval' = [eval EXCEPT ![e][r] = x], EvalOnly,
         x.pc \notin {"idle", "metric", "touch"} => x.value \in Readings,
         x.pc = "suppress" \/ (x.pc = "record" /\ x.ok) => x.value \in told[r]
  PROVE  ToldInv'
<1>1. AlertsTypeOK'
  BY EvalSet DEF ToldInv, AlertsTypeOK, EvalOnly
<1>2. EvalKnows'
  BY EvalSet DEF ToldInv, EvalKnows, EvalOnly
<1> QED
  BY <1>1, <1>2 DEF ToldInv, SuppressedWasDelivered, EvalOnly

LEMMA StepTold ==
  ASSUME ToldInv, NEW e \in Evaluations, NEW r \in Rules, EvalStep(e, r)
  PROVE  ToldInv'
<1>0. /\ eval[e][r] \in Eval /\ eval \in [Evaluations -> [Rules -> Eval]]
      /\ sent \in [Rules -> SentEvent \cup {NoEvent}] /\ told \in [Rules -> SUBSET Readings]
      /\ burst \in [Rules -> Nat] /\ rules \subseteq Rules
      /\ reading \in [UsedMetrics -> Readings] /\ services \subseteq Service
      /\ RuleTerms[r].metric \in UsedMetrics
  BY DEF ToldInv, AlertsTypeOK, UsedMetrics
<1>1. CASE FetchMetric(e, r)
  <2>1. PICK value \in Readings : value = reading[RuleTerms[r].metric]
    BY <1>0
  <2>2. PICK x : x = IF CompareMetric(value, RuleTerms[r])
                     THEN [eval[e][r] EXCEPT !.pc = "recent", !.value = value]
                     ELSE [eval[e][r] EXCEPT !.pc = "touch"]
    OBVIOUS
  <2>3. eval' = [eval EXCEPT ![e][r] = x] /\ EvalOnly
    BY <1>1, <2>1, <2>2 DEF FetchMetric
  <2>4. x \in Eval /\ ((x.pc = "recent" /\ x.value = value) \/ x.pc = "touch")
    <3>1. CASE CompareMetric(value, RuleTerms[r])
      BY <1>0, <2>2, <3>1 DEF Eval, EvalPc
    <3>2. CASE ~CompareMetric(value, RuleTerms[r])
      BY <1>0, <2>2, <3>2 DEF Eval, EvalPc
    <3> QED
      BY <3>1, <3>2
  <2> QED
    BY <2>1, <2>3, <2>4, OnlyGoes
<1>2. CASE FindRecent(e, r)
  <2>1. PICK pc \in {"suppress", "dispatch"} :
            /\ EvalGoes(e, r, pc)
            /\ pc = "suppress" => IsDuplicate(sent[r], eval[e][r].value)
    BY <1>2 DEF FindRecent
  <2>2. PICK x \in Eval : /\ x.pc = pc /\ x.value = eval[e][r].value
                         /\ eval' = [eval EXCEPT ![e][r] = x]
    BY <2>1, EvalMoves DEF EvalPc
  <2>3. x.value \in Readings
    BY <1>2, <2>2 DEF FindRecent, ToldInv, EvalKnows
  <2>4. x.pc = "suppress" => x.value \in told[r]
    BY <2>1, <2>2 DEF IsDuplicate, ToldInv, SuppressedWasDelivered
  <2> QED
    BY <1>2, <2>1, <2>2, <2>3, <2>4, OnlyGoes DEF FindRecent
<1>3. ASSUME NEW event \in SentEvent, r \in rules, event.value \in told[r],
             sent' = [sent EXCEPT ![r] = event], EvalGoes(e, r, "touch"), burst' \in [Rules -> Nat],
             UNCHANGED <<rules, reading, services, told>>
      PROVE  ToldInv'
  <2>1. PICK x \in Eval : x.pc = "touch" /\ eval' = [eval EXCEPT ![e][r] = x]
    BY <1>3, EvalMoves DEF EvalPc
  <2>2. AlertsTypeOK'
    BY <1>0, <1>3, <2>1, EvalSet DEF AlertsTypeOK
  <2>3. EvalKnows'
    BY <1>0, <1>3, <2>1, EvalSet DEF ToldInv, EvalKnows
  <2>4. SuppressedWasDelivered'
    BY <1>0, <1>3 DEF ToldInv, SuppressedWasDelivered
  <2> QED
    BY <2>2, <2>3, <2>4 DEF ToldInv
<1>4. CASE Suppress(e, r)
  <2>1. PICK event : event = [value |-> eval[e][r].value, age |-> 0, dup |-> TRUE]
    OBVIOUS
  <2>2. eval[e][r].value \in Readings /\ eval[e][r].value \in told[r]
    BY <1>4 DEF Suppress, ToldInv, EvalKnows
  <2>3. event \in SentEvent /\ event.value \in told[r]
    BY <2>1, <2>2 DEF SentEvent, Window
  <2>4. burst' \in [Rules -> Nat]
    BY <1>0, <1>4 DEF Suppress
  <2> QED
    BY <1>3, <1>4, <2>1, <2>3, <2>4 DEF Suppress
<1>5. CASE Dispatch(e, r)
  <2>1. PICK x : x = [eval[e][r] EXCEPT !.pc = "record", !.ok = Delivered(r)]
    OBVIOUS
  <2>2. eval' = [eval EXCEPT ![e][r] = x]
    BY <1>0, <1>5, <2>1 DEF Dispatch, Eval
  <2>3. Delivered(r) \in BOOLEAN
    BY DEF Delivered
  <2>4. x \in Eval /\ x.pc = "record" /\ x.ok = Delivered(r) /\ x.value = eval[e][r].value
    BY <1>0, <2>1, <2>3 DEF Eval, EvalPc
  <2>5. x.value \in Readings /\ r \in Rules
    BY <1>5, <2>4 DEF Dispatch, ToldInv, EvalKnows
  <2>6. /\ told' \in [Rules -> SUBSET Readings] /\ \A q \in Rules : told[q] \subseteq told'[q]
        /\ Delivered(r) => x.value \in told'[r]
    BY <1>0, <1>5, <2>4, <2>5 DEF Dispatch
  <2>u. UNCHANGED <<rules, sent, reading, services, burst>>
    BY <1>5 DEF Dispatch
  <2>e. /\ eval' \in [Evaluations -> [Rules -> Eval]] /\ eval'[e][r] = x
        /\ \A d \in Evaluations, q \in Rules : d # e \/ q # r => eval'[d][q] = eval[d][q]
    BY <2>2, <2>4, EvalSet
  <2>7. AlertsTypeOK'
    BY <1>0, <2>u, <2>e, <2>6 DEF AlertsTypeOK
  <2>8. EvalKnows'
    <3>1. \A q \in Rules \ rules' : sent'[q] = NoEvent
      BY <2>u DEF ToldInv, EvalKnows
    <3>2. ASSUME NEW d \in Evaluations, NEW q \in Rules
          PROVE  LET y == eval'[d][q]
                 IN  /\ y.pc # "idle" /\ y.pc # "metric" /\ y.pc # "touch" => y.value \in Readings
                     /\ y.pc = "suppress" \/ (y.pc = "record" /\ y.ok) => y.value \in told'[q]
      <4>1. CASE d = e /\ q = r
        BY <2>e, <2>4, <2>5, <2>6, <4>1
      <4>2. CASE ~(d = e /\ q = r)
        BY <2>e, <2>6, <4>2 DEF ToldInv, EvalKnows
      <4> QED
        BY <4>1, <4>2
    <3> QED
      BY <3>1, <3>2 DEF EvalKnows
  <2>9. SuppressedWasDelivered'
    BY <1>5, <2>6 DEF Dispatch, ToldInv, SuppressedWasDelivered
  <2> QED
    BY <2>7, <2>8, <2>9 DEF ToldInv
<1>6. CASE RecordEvent(e, r)
  <2>1. CASE eval[e][r].ok
    <3>1. PICK event : event = [value |-> eval[e][r].value, age |-> 0, dup |-> FALSE]
      OBVIOUS
    <3>2. eval[e][r].value \in Readings /\ eval[e][r].value \in told[r]
      BY <1>6, <2>1 DEF RecordEvent, ToldInv, EvalKnows
    <3>3. event \in SentEvent /\ event.value \in told[r]
      BY <3>1, <3>2 DEF SentEvent, Window
    <3>4. burst' \in [Rules -> Nat]
      BY <1>0, <1>6, <2>1 DEF RecordEvent
    <3> QED
      BY <1>3, <1>6, <2>1, <3>1, <3>3, <3>4 DEF RecordEvent
  <2>2. CASE ~eval[e][r].ok
    <3>1. PICK x \in Eval : x.pc = "touch" /\ eval' = [eval EXCEPT ![e][r] = x]
      BY <1>6, EvalMoves DEF RecordEvent, EvalPc
    <3>2. EvalOnly
      BY <1>6, <2>2 DEF RecordEvent, EvalOnly
    <3> QED
      BY <3>1, <3>2, OnlyGoes
  <2> QED
    BY <2>1, <2>2
<1>7. CASE EvalEnds(e, r) /\ EvalOnly
  BY <1>7, IdleEvalTyped, OnlyGoes DEF EvalEnds
<1> QED
  BY <1>1, <1>2, <1>4, <1>5, <1>6, <1>7 DEF EvalStep, Touch, EvalThrows
(* Time makes an event older, and nothing else.                            *)
LEMMA QuarterOlder ==
  ASSUME NEW event \in SentEvent, event.age <= Window
  PROVE  /\ [event EXCEPT !.age = @ + 1] \in SentEvent
         /\ [event EXCEPT !.age = @ + 1].value = event.value
         /\ [event EXCEPT !.age = @ + 1].age = event.age + 1
         /\ [event EXCEPT !.age = @ + 1] # NoEvent
<1> QED
  BY AlertsAssumption DEF SentEvent, Window

LEMMA OlderEvents ==
  ASSUME ToldInv, QuarterPasses, NEW r \in Rules
  PROVE  /\ sent'[r] \in SentEvent \cup {NoEvent}
         /\ sent'[r] = NoEvent <=> sent[r] = NoEvent
         /\ sent[r] # NoEvent => sent'[r].value = sent[r].value
         /\ \A value : IsDuplicate(sent'[r], value) => IsDuplicate(sent[r], value)
<1>1. sent[r] \in SentEvent \cup {NoEvent}
  BY DEF ToldInv, AlertsTypeOK
<1>2. sent'[r] = IF sent[r] = NoEvent \/ sent[r].age > Window THEN sent[r]
                 ELSE [sent[r] EXCEPT !.age = @ + 1]
  BY DEF QuarterPasses
<1>3. CASE sent[r] = NoEvent \/ sent[r].age > Window
  BY <1>1, <1>2, <1>3
<1>4. CASE ~(sent[r] = NoEvent \/ sent[r].age > Window)
  <2>1. sent[r] \in SentEvent /\ sent[r].age \in 0..3 /\ sent[r].age <= Window
    BY <1>1, <1>4 DEF SentEvent, Window
  <2>2. sent'[r] = [sent[r] EXCEPT !.age = @ + 1]
    BY <1>2, <1>4
  <2>3. /\ sent'[r] \in SentEvent /\ sent'[r] # NoEvent
        /\ sent'[r].value = sent[r].value /\ sent'[r].age = sent[r].age + 1
    BY <2>1, <2>2, QuarterOlder
  <2> QED
    BY <1>4, <2>1, <2>3 DEF IsDuplicate, Window
<1> QED
  BY <1>3, <1>4

LEMMA EnvironmentTold ==
  ASSUME ToldInv,
         (\E e \in Evaluations : StartEvaluation(e)) \/ AlertsEnvironment
            \/ UNCHANGED alertVars
  PROVE  ToldInv'
<1>0. /\ eval \in [Evaluations -> [Rules -> Eval]]
      /\ sent \in [Rules -> SentEvent \cup {NoEvent}] /\ told \in [Rules -> SUBSET Readings]
      /\ burst \in [Rules -> Nat] /\ rules \subseteq Rules
      /\ reading \in [UsedMetrics -> Readings] /\ services \subseteq Service
  BY DEF ToldInv, AlertsTypeOK
<1>1. ASSUME NEW e \in Evaluations, StartEvaluation(e) PROVE ToldInv'
  <2>1. PICK started \in [Rules -> Eval] :
            /\ \A q \in Rules : started[q].pc \in {"idle", "metric"}
            /\ eval' = [eval EXCEPT ![e] = started]
    <3>1. PICK started : started = [r \in Rules |-> IF r \in rules THEN [IdleEval EXCEPT !.pc = "metric"]
                                                   ELSE IdleEval]
      OBVIOUS
    <3>2. [IdleEval EXCEPT !.pc = "metric"] \in Eval /\ [IdleEval EXCEPT !.pc = "metric"].pc = "metric"
      BY DEF IdleEval, Eval, EvalPc
    <3>3. started \in [Rules -> Eval] /\ \A q \in Rules : started[q].pc \in {"idle", "metric"}
      BY <3>1, <3>2, IdleEvalTyped
    <3> QED
      BY <1>1, <3>1, <3>3 DEF StartEvaluation
  <2>2. EvalOnly
    BY <1>1 DEF StartEvaluation
  <2>3. AlertsTypeOK'
    BY <1>0, <2>1, <2>2 DEF AlertsTypeOK, EvalOnly
  <2>4. \A d \in Evaluations, q \in Rules :
            eval'[d][q] = eval[d][q] \/ eval'[d][q].pc \in {"idle", "metric"}
    BY <1>0, <2>1
  <2>5. EvalKnows'
    BY <2>2, <2>4 DEF ToldInv, EvalKnows, EvalOnly
  <2> QED
    BY <2>2, <2>3, <2>5 DEF ToldInv, SuppressedWasDelivered, EvalOnly
<1>2. ASSUME NEW r \in Rules, CreateRule(r) PROVE ToldInv'
  <2>1. /\ r \notin rules /\ rules' = rules \cup {r} /\ UNCHANGED <<sent, reading, services, eval>>
        /\ \A e \in Evaluations : eval[e][r].pc = "idle"
        /\ told' = [told EXCEPT ![r] = {}] /\ burst' = [burst EXCEPT ![r] = 0]
    BY <1>2 DEF CreateRule
  <2>2. AlertsTypeOK'
    BY <1>0, <2>1 DEF AlertsTypeOK
  <2>3. \A q \in Rules : q # r => told'[q] = told[q]
    BY <1>0, <2>1
  <2>4. EvalKnows'
    BY <2>1, <2>3 DEF ToldInv, EvalKnows
  <2>5. SuppressedWasDelivered'
    BY <2>1, <2>3 DEF ToldInv, EvalKnows, SuppressedWasDelivered
  <2> QED
    BY <2>2, <2>4, <2>5 DEF ToldInv
<1>3. ASSUME NEW r \in Rules, DeleteRule(r) PROVE ToldInv'
  <2>1. /\ rules' = rules \ {r} /\ sent' = [sent EXCEPT ![r] = NoEvent]
        /\ UNCHANGED <<reading, services, eval, burst, told>>
    BY <1>3 DEF DeleteRule
  <2>2. AlertsTypeOK'
    BY <1>0, <2>1 DEF AlertsTypeOK
  <2>3. \A q \in Rules : sent'[q] = IF q = r THEN NoEvent ELSE sent[q]
    BY <1>0, <2>1
  <2>4. EvalKnows' /\ SuppressedWasDelivered'
    BY <2>1, <2>3 DEF ToldInv, EvalKnows, SuppressedWasDelivered
  <2> QED
    BY <2>2, <2>4 DEF ToldInv
<1>4. CASE ReadingChanges
  BY <1>0, <1>4 DEF ReadingChanges, ToldInv, AlertsTypeOK, EvalKnows, SuppressedWasDelivered
<1>5. CASE ServiceChanges
  BY <1>0, <1>5 DEF ServiceChanges, ToldInv, AlertsTypeOK, EvalKnows, SuppressedWasDelivered
<1>6. CASE QuarterPasses
  <2>1. UNCHANGED <<rules, reading, services, eval, told>>
    BY <1>6 DEF QuarterPasses
  <2>2. \A r \in Rules : /\ sent'[r] \in SentEvent \cup {NoEvent}
                         /\ sent'[r] = NoEvent <=> sent[r] = NoEvent
                         /\ sent[r] # NoEvent => sent'[r].value = sent[r].value
    BY <1>6, OlderEvents
  <2>3. sent' \in [Rules -> SentEvent \cup {NoEvent}] /\ burst' \in [Rules -> Nat]
    BY <1>0, <1>6, <2>2 DEF QuarterPasses
  <2>4. AlertsTypeOK'
    BY <1>0, <2>1, <2>3 DEF AlertsTypeOK
  <2>5. EvalKnows' /\ SuppressedWasDelivered'
    BY <2>1, <2>2 DEF ToldInv, EvalKnows, SuppressedWasDelivered
  <2> QED
    BY <2>4, <2>5 DEF ToldInv
<1>7. CASE UNCHANGED alertVars
  BY <1>7 DEF alertVars, ToldInv, AlertsTypeOK, EvalKnows, SuppressedWasDelivered
<1> QED
  BY <1>1, <1>2, <1>3, <1>4, <1>5, <1>6, <1>7 DEF AlertsEnvironment

(***************************************************************************)
(* Deliveries within a window                                              *)
(***************************************************************************)

(* The bound of a rule and a value stays if no more evaluations are about  *)
(* to deliver the value, or the value is not a duplicate.                  *)
LEMMA BoundKept ==
  ASSUME AlertsInv, NEW r \in Rules, burst' \in [Rules -> Nat], burst'[r] <= burst[r],
         \A value \in Readings :
             IsDuplicate(sent'[r], value) =>
                 IsDuplicate(sent[r], value) /\ EvalLate(r, value)' \subseteq EvalLate(r, value)
  PROVE  /\ burst'[r] <= Cardinality(Evaluations)
         /\ \A value \in Readings : IsDuplicate(sent'[r], value) =>
                burst'[r] + Cardinality(EvalLate(r, value)') <= Cardinality(Evaluations)
<1>0. burst[r] \in Nat /\ burst'[r] \in Nat /\ burst[r] <= Cardinality(Evaluations)
  BY DEF AlertsInv, ToldInv, AlertsTypeOK, EventsBounded
<1>1. burst'[r] <= Cardinality(Evaluations)
  BY <1>0, EvaluationsFinite
<1>2. ASSUME NEW value \in Readings, IsDuplicate(sent'[r], value)
      PROVE  burst'[r] + Cardinality(EvalLate(r, value)') <= Cardinality(Evaluations)
  <2>1. PICK before, after : before = EvalLate(r, value) /\ after = EvalLate(r, value)'
    OBVIOUS
  <2>2. before \subseteq Evaluations /\ after \subseteq before
    BY <1>2, <2>1 DEF EvalLate
  <2>3. /\ Cardinality(before) \in Nat /\ Cardinality(after) \in Nat
        /\ Cardinality(after) <= Cardinality(before)
    BY <2>2, EvaluationsFinite, FS_Subset, FS_CardinalityType
  <2>4. burst[r] + Cardinality(before) <= Cardinality(Evaluations)
    BY <1>2, <2>1 DEF AlertsInv, EventsBounded
  <2>5. burst'[r] + Cardinality(after) <= Cardinality(Evaluations)
    BY <1>0, <2>3, <2>4, EvaluationsFinite
  <2> QED
    BY <2>1, <2>5
<1> QED
  BY <1>1, <1>2
(* A step that leaves the deliveries and the events of a rule alone, and   *)
(* sets no evaluation to deliver.                                          *)
LEMMA NothingDelivered ==
  ASSUME AlertsInv, UNCHANGED <<sent, burst>>,
         \A r \in Rules, value \in Readings :
             IsDuplicate(sent[r], value) => EvalLate(r, value)' \subseteq EvalLate(r, value)
  PROVE  EventsBounded'
<1>0. burst' \in [Rules -> Nat] /\ \A r \in Rules : burst'[r] <= burst[r]
  BY DEF AlertsInv, ToldInv, AlertsTypeOK
<1>1. ASSUME NEW r \in Rules
      PROVE  /\ burst'[r] <= Cardinality(Evaluations)
             /\ \A value \in Readings : IsDuplicate(sent'[r], value) =>
                    burst'[r] + Cardinality(EvalLate(r, value)') <= Cardinality(Evaluations)
  BY <1>0, BoundKept
<1> QED
  BY <1>1 DEF EventsBounded

(* The evaluation e of rule r goes on from "from" to "to".                 *)
LEMMA LateMoves ==
  ASSUME ToldInv, NEW e \in Evaluations, NEW r \in Rules, NEW x \in Eval,
         eval' = [eval EXCEPT ![e][r] = x]
  PROVE  /\ \A q \in Rules \ {r}, value \in Readings : EvalLate(q, value)' = EvalLate(q, value)
         /\ \A value \in Readings : EvalLate(r, value)' =
                IF x.pc \in {"dispatch", "record"} /\ x.value = value
                THEN EvalLate(r, value) \cup {e} ELSE EvalLate(r, value) \ {e}
<1>1. /\ eval'[e][r] = x
      /\ \A d \in Evaluations, q \in Rules : d # e \/ q # r => eval'[d][q] = eval[d][q]
  BY EvalSet
<1>2. \A q \in Rules \ {r}, value \in Readings : EvalLate(q, value)' = EvalLate(q, value)
  BY <1>1 DEF EvalLate
<1>3. ASSUME NEW value \in Readings
      PROVE  EvalLate(r, value)' = IF x.pc \in {"dispatch", "record"} /\ x.value = value
                               THEN EvalLate(r, value) \cup {e} ELSE EvalLate(r, value) \ {e}
  BY <1>1 DEF EvalLate
<1> QED
  BY <1>2, <1>3
(* Another rule than the one whose evaluation goes on.                     *)
LEMMA OthersBounded ==
  ASSUME AlertsInv, NEW e \in Evaluations, NEW r \in Rules, NEW x \in Eval,
         eval' = [eval EXCEPT ![e][r] = x],
         NEW q \in Rules \ {r}, sent'[q] = sent[q], burst'[q] = burst[q], burst' \in [Rules -> Nat]
  PROVE  /\ burst'[q] <= Cardinality(Evaluations)
         /\ \A value \in Readings : IsDuplicate(sent'[q], value) =>
                burst'[q] + Cardinality(EvalLate(q, value)') <= Cardinality(Evaluations)
<1>1. \A value \in Readings : EvalLate(q, value)' = EvalLate(q, value)
  BY LateMoves DEF AlertsInv
<1>2. burst'[q] <= burst[q] /\ q \in Rules
  BY DEF AlertsInv, ToldInv, AlertsTypeOK
<1>3. \A value \in Readings : IsDuplicate(sent'[q], value) =>
         IsDuplicate(sent[q], value) /\ EvalLate(q, value)' \subseteq EvalLate(q, value)
  BY <1>1
<1> QED
  BY <1>2, <1>3, BoundKept

(* A step that takes e off the evaluations that may deliver, or keeps it,  *)
(* and stores nothing.                                                     *)
LEMMA QuietBounded ==
  ASSUME AlertsInv, NEW e \in Evaluations, NEW r \in Rules, NEW x \in Eval,
         eval' = [eval EXCEPT ![e][r] = x], UNCHANGED <<sent, burst>>,
         x.pc \in {"dispatch", "record"} /\ IsDuplicate(sent[r], x.value) =>
             e \in EvalLate(r, x.value)
  PROVE  EventsBounded'
<1>1. /\ \A q \in Rules \ {r}, value \in Readings : EvalLate(q, value)' = EvalLate(q, value)
      /\ \A value \in Readings : EvalLate(r, value)' =
            IF x.pc \in {"dispatch", "record"} /\ x.value = value
            THEN EvalLate(r, value) \cup {e} ELSE EvalLate(r, value) \ {e}
  BY LateMoves DEF AlertsInv
<1>2. ASSUME NEW q \in Rules, NEW value \in Readings, IsDuplicate(sent[q], value)
      PROVE  EvalLate(q, value)' \subseteq EvalLate(q, value)
  <2>1. CASE q # r
    BY <1>1, <2>1
  <2>2. CASE q = r
    BY <1>1, <1>2, <2>2
  <2> QED
    BY <2>1, <2>2
<1> QED
  BY <1>2, NothingDelivered

LEMMA StepBounded ==
  ASSUME AlertsInv, NEW e \in Evaluations, NEW r \in Rules, EvalStep(e, r)
  PROVE  EventsBounded'
<1>0. /\ eval[e][r] \in Eval /\ eval \in [Evaluations -> [Rules -> Eval]]
      /\ sent \in [Rules -> SentEvent \cup {NoEvent}] /\ burst \in [Rules -> Nat]
      /\ RuleTerms[r].metric \in UsedMetrics /\ reading \in [UsedMetrics -> Readings] /\ ToldInv
  BY DEF AlertsInv, ToldInv, AlertsTypeOK, UsedMetrics
<1>1. CASE FetchMetric(e, r)
  <2>1. PICK value \in Readings : value = reading[RuleTerms[r].metric]
    BY <1>0
  <2>2. PICK x : x = IF CompareMetric(value, RuleTerms[r])
                     THEN [eval[e][r] EXCEPT !.pc = "recent", !.value = value]
                     ELSE [eval[e][r] EXCEPT !.pc = "touch"]
    OBVIOUS
  <2>3. eval' = [eval EXCEPT ![e][r] = x] /\ UNCHANGED <<sent, burst>>
    BY <1>1, <2>1, <2>2 DEF FetchMetric, EvalOnly
  <2>4. x \in Eval /\ x.pc \in {"recent", "touch"}
    <3>1. CASE CompareMetric(value, RuleTerms[r])
      BY <1>0, <2>2, <3>1 DEF Eval, EvalPc
    <3>2. CASE ~CompareMetric(value, RuleTerms[r])
      BY <1>0, <2>2, <3>2 DEF Eval, EvalPc
    <3> QED
      BY <3>1, <3>2
  <2>5. x.pc \notin {"dispatch", "record"}
    BY <2>4
  <2> QED
    BY <2>3, <2>4, <2>5, QuietBounded
<1>2. CASE FindRecent(e, r)
  <2>1. PICK pc \in {"suppress", "dispatch"} :
            /\ EvalGoes(e, r, pc)
            /\ pc = "dispatch" => ~IsDuplicate(sent[r], eval[e][r].value)
    BY <1>2 DEF FindRecent
  <2>2. PICK x \in Eval : /\ x.pc = pc /\ x.value = eval[e][r].value
                         /\ eval' = [eval EXCEPT ![e][r] = x]
    BY <1>0, <2>1, EvalMoves DEF EvalPc
  <2>3. UNCHANGED <<sent, burst>>
    BY <1>2 DEF FindRecent, EvalOnly
  <2>4. ~(x.pc \in {"dispatch", "record"} /\ IsDuplicate(sent[r], x.value))
    BY <2>1, <2>2
  <2> QED
    BY <2>2, <2>3, <2>4, QuietBounded
<1>3. CASE Suppress(e, r) \/ (RecordEvent(e, r) /\ eval[e][r].ok)
  <2>1. PICK value \in Readings : value = eval[e][r].value
    BY <1>0, <1>3 DEF Suppress, RecordEvent, ToldInv, EvalKnows
  <2>2. PICK event : /\ event.value = value /\ sent' = [sent EXCEPT ![r] = event]
                    /\ EvalGoes(e, r, "touch")
    BY <1>3, <2>1 DEF Suppress, RecordEvent
  <2>3. PICK x \in Eval : x.pc = "touch" /\ eval' = [eval EXCEPT ![e][r] = x]
    BY <1>0, <2>2, EvalMoves DEF EvalPc
  <2>4. burst' = [burst EXCEPT ![r] =
                     IF Suppress(e, r) THEN IF IsDuplicate(sent[r], value) THEN @ ELSE 0
                     ELSE IF IsDuplicate(sent[r], value) THEN @ + 1 ELSE 1]
    <3>1. CASE Suppress(e, r)
      BY <2>1, <3>1 DEF Suppress
    <3>2. CASE ~Suppress(e, r)
      BY <1>3, <2>1, <3>2 DEF RecordEvent
    <3> QED
      BY <3>1, <3>2
  <2>5. burst' \in [Rules -> Nat]
    <3>1. burst[r] \in Nat
      BY <1>0
    <3>2. (IF Suppress(e, r) THEN IF IsDuplicate(sent[r], value) THEN burst[r] ELSE 0
           ELSE IF IsDuplicate(sent[r], value) THEN burst[r] + 1 ELSE 1) \in Nat
      BY <3>1
    <3> QED
      BY <1>0, <2>4, <3>2
  <2>6. /\ sent'[r] = event
        /\ \A q \in Rules \ {r} : sent'[q] = sent[q] /\ burst'[q] = burst[q]
    BY <1>0, <2>2, <2>4
  <2>7. ASSUME NEW q \in Rules \ {r}
        PROVE  /\ burst'[q] <= Cardinality(Evaluations)
               /\ \A v \in Readings : IsDuplicate(sent'[q], v) =>
                      burst'[q] + Cardinality(EvalLate(q, v)') <= Cardinality(Evaluations)
    BY <2>3, <2>5, <2>6, OthersBounded
  <2>8. PICK before, after : before = EvalLate(r, value) /\ after = EvalLate(r, value)'
    OBVIOUS
  <2>9. after = before \ {e} /\ before \subseteq Evaluations
    BY <1>0, <2>3, <2>8, LateMoves DEF EvalLate
  <2>10. /\ Cardinality(before) \in Nat /\ Cardinality(after) \in Nat
         /\ Cardinality(before) <= Cardinality(Evaluations)
         /\ Cardinality(after) = IF e \in before THEN Cardinality(before) - 1 ELSE Cardinality(before)
    <3>1. IsFiniteSet(before) /\ Cardinality(before) <= Cardinality(Evaluations)
      BY <2>9, EvaluationsFinite, FS_Subset
    <3>2. after = before \ {e} /\ IsFiniteSet(after)
      BY <2>9, <3>1, FS_Subset
    <3> QED
      BY <3>1, <3>2, FS_RemoveElement, FS_CardinalityType
  <2>11. /\ burst[r] \in Nat /\ burst[r] <= Cardinality(Evaluations)
         /\ IsDuplicate(sent[r], value) => burst[r] + Cardinality(before) <= Cardinality(Evaluations)
    BY <1>0, <2>8 DEF AlertsInv, EventsBounded
  <2>12. burst'[r] + Cardinality(after) <= Cardinality(Evaluations) /\ burst'[r] \in Nat
    <3>1. CASE Suppress(e, r)
      <4>1. burst'[r] = IF IsDuplicate(sent[r], value) THEN burst[r] ELSE 0
        BY <1>0, <2>4, <3>1
      <4> QED
        BY <4>1, <2>10, <2>11, EvaluationsFinite
    <3>2. CASE ~Suppress(e, r)
      <4>1. burst'[r] = IF IsDuplicate(sent[r], value) THEN burst[r] + 1 ELSE 1
        BY <1>0, <2>4, <3>2
      <4>2. e \in before
        BY <1>3, <2>1, <2>8, <3>2 DEF RecordEvent, EvalLate
      <4>3. Cardinality(after) = Cardinality(before) - 1
        BY <4>2, <2>10
      <4> QED
        BY <4>1, <4>3, <2>10, <2>11, EvaluationsFinite
    <3> QED
      BY <3>1, <3>2
  <2>13. \A v \in Readings : IsDuplicate(sent'[r], v) => v = value
    BY <2>2, <2>6 DEF IsDuplicate
  <2>14. burst'[r] <= Cardinality(Evaluations)
    BY <2>10, <2>12, EvaluationsFinite
  <2>15. \A v \in Readings : IsDuplicate(sent'[r], v) =>
             burst'[r] + Cardinality(EvalLate(r, v)') <= Cardinality(Evaluations)
    BY <2>8, <2>12, <2>13
  <2> QED
    BY <2>7, <2>14, <2>15 DEF EventsBounded
<1>4. CASE Dispatch(e, r)
  <2>1. PICK x : x = [eval[e][r] EXCEPT !.pc = "record", !.ok = Delivered(r)]
    OBVIOUS
  <2>2. eval' = [eval EXCEPT ![e][r] = x]
    BY <1>0, <1>4, <2>1 DEF Dispatch, Eval
  <2>3. Delivered(r) \in BOOLEAN
    BY DEF Delivered
  <2>4. x \in Eval /\ x.value = eval[e][r].value
    BY <1>0, <2>1, <2>3 DEF Eval, EvalPc
  <2>5. e \in EvalLate(r, x.value) /\ UNCHANGED <<sent, burst>>
    BY <1>4, <2>4 DEF Dispatch, EvalLate
  <2> QED
    BY <2>2, <2>4, <2>5, QuietBounded
<1>5. CASE RecordEvent(e, r) /\ ~eval[e][r].ok
  <2>1. PICK x \in Eval : x.pc = "touch" /\ eval' = [eval EXCEPT ![e][r] = x]
    BY <1>0, <1>5, EvalMoves DEF RecordEvent, EvalPc
  <2>2. UNCHANGED <<sent, burst>> /\ x.pc \notin {"dispatch", "record"}
    BY <1>5, <2>1 DEF RecordEvent
  <2> QED
    BY <2>1, <2>2, QuietBounded
<1>6. CASE EvalEnds(e, r) /\ EvalOnly
  <2>1. IdleEval \in Eval /\ IdleEval.pc \notin {"dispatch", "record"}
    BY IdleEvalTyped
  <2>2. eval' = [eval EXCEPT ![e][r] = IdleEval] /\ UNCHANGED <<sent, burst>>
    BY <1>6 DEF EvalEnds, EvalOnly
  <2> QED
    BY <2>1, <2>2, QuietBounded
<1> QED
  BY <1>1, <1>2, <1>3, <1>4, <1>5, <1>6 DEF EvalStep, Touch, EvalThrows

LEMMA EnvironmentBounded ==
  ASSUME AlertsInv,
         (\E e \in Evaluations : StartEvaluation(e)) \/ AlertsEnvironment
            \/ UNCHANGED alertVars
  PROVE  EventsBounded'
<1>0. /\ eval \in [Evaluations -> [Rules -> Eval]] /\ burst \in [Rules -> Nat] /\ ToldInv
      /\ sent \in [Rules -> SentEvent \cup {NoEvent}]
      /\ \A q \in Rules : burst[q] \in Nat /\ burst[q] <= burst[q] /\ 0 <= burst[q]
  BY DEF AlertsInv, ToldInv, AlertsTypeOK
<1>1. ASSUME NEW e \in Evaluations, StartEvaluation(e) PROVE EventsBounded'
  <2>1. \A d \in Evaluations, q \in Rules :
            eval'[d][q] = eval[d][q] \/ eval'[d][q].pc \in {"idle", "metric"}
    <3>1. PICK started : started = [r \in Rules |-> IF r \in rules THEN [IdleEval EXCEPT !.pc = "metric"]
                                                   ELSE IdleEval]
      OBVIOUS
    <3>2. [IdleEval EXCEPT !.pc = "metric"].pc = "metric"
      BY DEF IdleEval
    <3>3. eval' = [eval EXCEPT ![e] = started] /\ \A q \in Rules : started[q].pc \in {"idle", "metric"}
      BY <1>1, <3>1, <3>2, IdleEvalTyped DEF StartEvaluation
    <3> QED
      BY <1>0, <3>3
  <2>2. \A q \in Rules, value \in Readings : EvalLate(q, value)' \subseteq EvalLate(q, value)
    BY <2>1 DEF EvalLate
  <2>3. UNCHANGED <<sent, burst>>
    BY <1>1 DEF StartEvaluation, EvalOnly
  <2> QED
    BY <2>2, <2>3, NothingDelivered
<1>2. ASSUME UNCHANGED eval, burst' \in [Rules -> Nat],
             \A q \in Rules : /\ burst'[q] <= burst[q]
                              /\ \A value : IsDuplicate(sent'[q], value) => IsDuplicate(sent[q], value)
      PROVE  EventsBounded'
  <2>1. \A q \in Rules, value \in Readings : EvalLate(q, value)' = EvalLate(q, value)
    BY <1>2 DEF EvalLate
  <2>2. ASSUME NEW q \in Rules
        PROVE  /\ burst'[q] <= Cardinality(Evaluations)
               /\ \A value \in Readings : IsDuplicate(sent'[q], value) =>
                      burst'[q] + Cardinality(EvalLate(q, value)') <= Cardinality(Evaluations)
    BY <1>2, <2>1, BoundKept
  <2> QED
    BY <2>2 DEF EventsBounded
<1>3. ASSUME NEW r \in Rules, CreateRule(r) PROVE EventsBounded'
  <2>1. UNCHANGED <<sent, eval>> /\ burst' = [burst EXCEPT ![r] = 0]
    BY <1>3 DEF CreateRule
  <2> QED
    BY <1>0, <1>2, <2>1
<1>4. ASSUME NEW r \in Rules, DeleteRule(r) PROVE EventsBounded'
  <2>1. UNCHANGED <<burst, eval>> /\ sent' = [sent EXCEPT ![r] = NoEvent]
    BY <1>4 DEF DeleteRule
  <2>2. \A q \in Rules : \A value : IsDuplicate(sent'[q], value) => IsDuplicate(sent[q], value)
    BY <1>0, <2>1 DEF IsDuplicate
  <2> QED
    BY <1>0, <1>2, <2>1, <2>2
<1>5. CASE ReadingChanges \/ ServiceChanges \/ UNCHANGED alertVars
  BY <1>0, <1>2, <1>5 DEF ReadingChanges, ServiceChanges, alertVars
<1>6. CASE QuarterPasses
  <2>1. \A q \in Rules : burst'[q] \in {0, burst[q]}
    BY <1>6 DEF QuarterPasses
  <2>2. burst' \in [Rules -> Nat] /\ \A q \in Rules : burst'[q] <= burst[q]
    BY <1>0, <1>6, <2>1 DEF QuarterPasses
  <2>3. UNCHANGED eval
    BY <1>6 DEF QuarterPasses
  <2>4. \A q \in Rules : \A value : IsDuplicate(sent'[q], value) => IsDuplicate(sent[q], value)
    BY <1>0, <1>6, OlderEvents
  <2> QED
    BY <1>2, <2>2, <2>3, <2>4
<1> QED
  BY <1>1, <1>3, <1>4, <1>5, <1>6 DEF AlertsEnvironment

(***************************************************************************)
(* The theorems                                                            *)
(***************************************************************************)

LEMMA AlertsStepInv == AlertsInv /\ [AlertsNext]_alertVars => AlertsInv'
<1> SUFFICES ASSUME AlertsInv, [AlertsNext]_alertVars PROVE AlertsInv'
  OBVIOUS
<1>1. ToldInv
  BY DEF AlertsInv
<1>2. \/ \E e \in Evaluations, r \in Rules : EvalStep(e, r)
      \/ (\E e \in Evaluations : StartEvaluation(e)) \/ AlertsEnvironment \/ UNCHANGED alertVars
  BY DEF AlertsNext, EvaluationWorks
<1>3. ToldInv'
  BY <1>1, <1>2, StepTold, EnvironmentTold
<1>4. EventsBounded'
  BY <1>2, StepBounded, EnvironmentBounded
<1> QED
  BY <1>3, <1>4 DEF AlertsInv

LEMMA AlertsInductive == AlertsSpec => []AlertsInv
<1> QED
  BY AlertsInitInv, AlertsStepInv, PTL DEF AlertsSpec

(* The rules, their newest events and the evaluations have their types     *)
(* however evaluations, deletions and failing providers interleave.        *)
THEOREM AlertsTypeCorrect == AlertsSpec => []AlertsTypeOK
<1>1. AlertsInv => AlertsTypeOK
  BY DEF AlertsInv, ToldInv
<1> QED
  BY <1>1, AlertsInductive, PTL

(* However many evaluations overlap, an alert is suppressed only in favour *)
(* of a value that was delivered since the rule was created, and a value   *)
(* is delivered in a window at most once for each of them                  *)
(* (alert-rules.service.ts:184-224).                                       *)
THEOREM AlertsAreRight == AlertsSpec => []AlertsAreTold
<1>1. AlertsInv => AlertsAreTold
  BY DEF AlertsInv, ToldInv, EventsBounded, AlertsAreTold, OncePerEvaluation
<1> QED
  BY <1>1, AlertsInductive, PTL

(***************************************************************************)
(* Verified metrics                                                        *)
(***************************************************************************)

Overlapping == {"measure", "upsert", "list"}

(* What a view has measured is no older than the view, and what it has     *)
(* stored is there, or something newer is.                                 *)
ViewFits(t, snaps) ==
    /\ t.pc \in Overlapping => t.since <= Measure(t.range)
    /\ t.pc = "measure" => t.stored = {}
    /\ t.pc \in {"upsert", "list"} =>
           /\ \A m \in MetricKeys : t.figures[m] # Unmeasured
           /\ \A m \in t.stored : /\ snaps[t.range][m] # Unmeasured
                                  /\ snaps[t.range][m] >= t.since
    /\ t.pc = "list" => t.stored = MetricKeys
    /\ t.pc = "done" => \A m \in MetricKeys :
           /\ t.figures[m] # Unmeasured
           /\ \/ \E w \in Inside(t.range) \ {t.range} : snaps[w][m] # Unmeasured
              \/ t.figures[m] >= t.since
(* Of two views of a range that overlap, none has a figure that is older   *)
(* than the other's beginning.                                             *)
NoneIsOlder(t, u) ==
    t.pc \in Overlapping /\ u.pc \in Overlapping /\ t.range = u.range =>
        \A m \in MetricKeys : u.figures[m] # Unmeasured => u.figures[m] >= t.since

(* A job has measured no less than the snapshots it is about to overwrite. *)
JobFits(t, range, snaps) ==
    /\ t.pc # "idle" => t.day <= today
    /\ t.pc = "measure" => t.stored = {}
    /\ t.pc \in {"upsert", "done"} => \A m \in MetricKeys : t.figures[m] # Unmeasured
    /\ t.pc = "done" => t.stored = MetricKeys
    /\ t.pc # "idle" => \A m \in MetricKeys : t.figures[m] # Unmeasured =>
           /\ t.figures[m] <= Measure(range)
           /\ m \in t.stored => snaps[m] = t.figures[m]
           /\ m \notin t.stored /\ snaps[m] # Unmeasured => snaps[m] <= t.figures[m]
LatestDay(p) == IF job[p].pc = "idle" THEN today ELSE job[p].day
SnapsFit(p, d, snaps) ==
    \A m \in MetricKeys : snaps[m] # Unmeasured =>
        \E day \in Days : /\ day <= LatestDay(p) /\ PeriodRange[p][day][1] = d
                          /\ snaps[m] <= Measure(PeriodRange[p][day])
RowFits(row, snaps) ==
    \A m \in MetricKeys : row[m] # Unmeasured => snaps[m] # Unmeasured /\ row[m] <= snaps[m]

RangeOf(p) == PeriodRange[p][job[p].day]
PeriodFits(p) ==
    /\ JobFits(job[p], RangeOf(p), periodSnaps[p][RangeOf(p)[1]])
    /\ \A d \in Days : SnapsFit(p, d, periodSnaps[p][d]) /\ RowFits(periodRows[p][d], periodSnaps[p][d])

MetricsInv ==
    /\ VerifiedMetricsTypeOK
    /\ \A v \in Viewers : ViewFits(view[v], snapshots)
    /\ \A v, w \in Viewers : NoneIsOlder(view[v], view[w])
    /\ \A p \in Periods : PeriodFits(p)

-----------------------------------------------------------------------------
(* What a window counts *)

CountedIn(range) == {r \in Days \X (1..MaxRecords) : r[1] \in DaysOf(range) /\ r[2] <= records[r[1]]}

LEMMA CountedIsFinite ==
  ASSUME NEW S \in SUBSET (Days \X (1..MaxRecords))
  PROVE  IsFiniteSet(S) /\ Cardinality(S) \in Nat
<1>1. IsFiniteSet(Days \X (1..MaxRecords))
  <2>1. IsFiniteSet(1..MaxRecords)
    BY VerifiedMetricsAssumption, FS_Interval
  <2> QED
    BY <2>1, VerifiedMetricsAssumption, FS_Product
<1> QED
  BY <1>1, FS_Subset, FS_CardinalityType

LEMMA MeasureIsNat == ASSUME NEW range PROVE Measure(range) \in Nat
BY CountedIsFinite DEF Measure

(* A longer window counts no less, and as time passes no window less.      *)
LEMMA WiderMeasuresMore ==
  ASSUME NEW a, NEW b, DaysOf(a) \subseteq DaysOf(b)
  PROVE  Measure(a) <= Measure(b)
<1>1. CountedIn(a) \subseteq CountedIn(b) /\ CountedIn(b) \subseteq Days \X (1..MaxRecords)
  BY DEF CountedIn
<1>2. Cardinality(CountedIn(a)) <= Cardinality(CountedIn(b))
  BY <1>1, CountedIsFinite, FS_Subset
<1> QED
  BY <1>2 DEF Measure, CountedIn

LEMMA MeasureGrows ==
  ASSUME NEW range, VerifiedMetricsTypeOK, VerifiedMetricsTypeOK',
         \A d \in Days : records[d] <= records'[d]
  PROVE  Measure(range) <= Measure(range)'
<1> DEFINE after == {r \in Days \X (1..MaxRecords) : r[1] \in DaysOf(range) /\ r[2] <= records'[r[1]]}
<1>1. CountedIn(range) \subseteq after
  <2>1. ASSUME NEW r \in CountedIn(range) PROVE r \in after
    <3>1. r[1] \in Days /\ r[2] \in 1..MaxRecords /\ r[2] <= records[r[1]]
      BY DEF CountedIn
    <3>2. records[r[1]] \in Nat /\ records'[r[1]] \in Nat /\ r[2] \in Nat
      <4>1. records \in [Days -> 0..MaxRecords] /\ records' \in [Days -> 0..MaxRecords]
        BY DEF VerifiedMetricsTypeOK
      <4>2. MaxRecords \in Nat
        BY VerifiedMetricsAssumption
      <4> QED
        BY <3>1, <4>1, <4>2
    <3>3. r[2] <= records'[r[1]]
      BY <3>1, <3>2
    <3> QED
      BY <3>3 DEF CountedIn
  <2> QED
    BY <2>1
<1>2. after \subseteq Days \X (1..MaxRecords)
  OBVIOUS
<1>3. Cardinality(CountedIn(range)) <= Cardinality(after)
  BY <1>1, <1>2, CountedIsFinite, FS_Subset
<1> QED
  BY <1>3 DEF Measure, CountedIn, DaysOf

LEMMA LeastOfNats == ASSUME NEW S \in SUBSET Nat, S # {} PROVE Min(S) \in S /\ \A y \in S : Min(S) <= y
<1> DEFINE R == OpToRel(<, Nat)
<1>1. IsWellFoundedOn(R, Nat)
  BY NatLessThanWellFounded
<1>2. \A x, y \in Nat : <<x, y>> \in R <=> x < y
  BY DEF OpToRel
<1> HIDE DEF R
<1>3. PICK x \in S : \A y \in S : ~(<<y, x>> \in R)
  BY <1>1, WFMin, Zenon
<1>4. ASSUME NEW y \in S PROVE x <= y
  <2>1. x \in Nat /\ y \in Nat /\ ~(<<y, x>> \in R)
    BY <1>3
  <2>2. ~(y < x)
    BY <1>2, <2>1
  <2> QED
    BY <2>1, <2>2
<1> QED
  BY <1>4 DEF Min

LEMMA IdleTyped ==
  /\ Nothing \in Figures /\ \A m \in MetricKeys : Nothing[m] = Unmeasured
  /\ AnyRange \in Ranges
  /\ IdleView \in [pc : ViewPc, range : Ranges, figures : Figures, stored : SUBSET MetricKeys, since : Nat]
  /\ IdleView.pc = "idle" /\ IdleView.figures = Nothing /\ IdleView.stored = {}
<1>1. Nothing \in Figures /\ \A m \in MetricKeys : Nothing[m] = Unmeasured
  BY DEF Nothing, Figures, Figure
<1>2. AnyRange \in Ranges
  BY VerifiedMetricsAssumption DEF AnyRange
<1> QED
  BY <1>1, <1>2 DEF IdleView, ViewPc

LEMMA IdleJobTyped ==
  Days # {} =>
    /\ IdleJob \in [pc : ViewPc, day : Days, figures : Figures, stored : SUBSET MetricKeys]
    /\ IdleJob.pc = "idle" /\ IdleJob.figures = Nothing /\ IdleJob.stored = {}
BY IdleTyped DEF IdleJob, ViewPc

LEMMA MetricsTyped ==
  ASSUME MetricsInv
  PROVE  /\ VerifiedMetricsTypeOK
         /\ \A v \in Viewers : /\ view[v].pc \in ViewPc /\ view[v].range \in Ranges
                               /\ view[v].figures \in Figures /\ view[v].stored \subseteq MetricKeys
                               /\ view[v].since \in Nat /\ ViewFits(view[v], snapshots)
         /\ \A p \in Periods : /\ job[p].pc \in ViewPc /\ job[p].day \in Days
                               /\ job[p].figures \in Figures /\ job[p].stored \subseteq MetricKeys
                               /\ RangeOf(p) \in Days \X Days /\ PeriodFits(p)
<1>1. VerifiedMetricsTypeOK
  BY DEF MetricsInv
<1>2. ASSUME NEW v \in Viewers
      PROVE  /\ view[v].pc \in ViewPc /\ view[v].range \in Ranges
             /\ view[v].figures \in Figures /\ view[v].stored \subseteq MetricKeys
             /\ view[v].since \in Nat /\ ViewFits(view[v], snapshots)
  BY <1>1 DEF MetricsInv, VerifiedMetricsTypeOK
<1>3. ASSUME NEW p \in Periods
      PROVE  /\ job[p].pc \in ViewPc /\ job[p].day \in Days
             /\ job[p].figures \in Figures /\ job[p].stored \subseteq MetricKeys
             /\ RangeOf(p) \in Days \X Days /\ PeriodFits(p)
  <2>1. job \in [Periods -> [pc : ViewPc, day : Days, figures : Figures, stored : SUBSET MetricKeys]]
    BY <1>1 DEF VerifiedMetricsTypeOK
  <2>2. /\ job[p].pc \in ViewPc /\ job[p].day \in Days
        /\ job[p].figures \in Figures /\ job[p].stored \subseteq MetricKeys
    BY <2>1
  <2>3. PeriodRange[p] \in [Days -> Days \X Days]
    BY VerifiedMetricsAssumption
  <2>4. RangeOf(p) \in Days \X Days
    BY <2>2, <2>3 DEF RangeOf
  <2>5. PeriodFits(p)
    BY DEF MetricsInv
  <2> QED
    BY <2>2, <2>4, <2>5
<1> QED
  BY <1>1, <1>2, <1>3

LEMMA FiguresTyped ==
  ASSUME NEW f \in Figures, NEW m \in MetricKeys, f[m] # Unmeasured
  PROVE  f[m] \in Nat
BY DEF Figures, Figure

LEMMA MetricsInitInv == VerifiedMetricsInit => MetricsInv
<1> SUFFICES ASSUME VerifiedMetricsInit PROVE MetricsInv
  OBVIOUS
<1>1. today \in Days /\ Days # {}
  BY DEF VerifiedMetricsInit
<1>2. VerifiedMetricsTypeOK
  BY <1>1, IdleTyped, IdleJobTyped, VerifiedMetricsAssumption DEF VerifiedMetricsInit, VerifiedMetricsTypeOK
<1>3. \A v \in Viewers : view[v] = IdleView
  BY DEF VerifiedMetricsInit
<1>4. \A v \in Viewers : ViewFits(view[v], snapshots)
  BY <1>3, IdleTyped DEF ViewFits, Overlapping
<1>5. \A v, w \in Viewers : NoneIsOlder(view[v], view[w])
  BY <1>3, IdleTyped DEF NoneIsOlder, Overlapping
<1>6. ASSUME NEW p \in Periods PROVE PeriodFits(p)
  <2>1. job[p] = IdleJob /\ \A d \in Days : periodSnaps[p][d] = Nothing /\ periodRows[p][d] = Nothing
    BY DEF VerifiedMetricsInit
  <2>2. JobFits(job[p], RangeOf(p), periodSnaps[p][RangeOf(p)[1]])
    BY <1>1, <2>1, IdleJobTyped DEF JobFits
  <2>3. \A d \in Days : SnapsFit(p, d, periodSnaps[p][d]) /\ RowFits(periodRows[p][d], periodSnaps[p][d])
    BY <2>1, IdleTyped DEF SnapsFit, RowFits
  <2> QED
    BY <2>2, <2>3 DEF PeriodFits
<1> QED
  BY <1>2, <1>4, <1>5, <1>6 DEF MetricsInv

-----------------------------------------------------------------------------

LEMMA SameMeasure == UNCHANGED records => \A range : Measure(range)' = Measure(range)
BY DEF Measure, DaysOf

LEMMA GrowsInv ==
  ASSUME MetricsInv, UNCHANGED <<snapshots, view, job, periodSnaps, periodRows>>,
         VerifiedMetricsTypeOK', today <= today', \A d \in Days : records[d] <= records'[d]
  PROVE  MetricsInv'
<1>0. \A range : Measure(range) \in Nat /\ Measure(range)' \in Nat /\ Measure(range) <= Measure(range)'
  <2> TAKE range
  <2>1. Measure(range) \in Nat
    BY MeasureIsNat
  <2>2. Measure(range)' \in Nat
    BY CountedIsFinite DEF Measure
  <2>3. Measure(range) <= Measure(range)'
    BY MeasureGrows, MetricsTyped
  <2> QED
    BY <2>1, <2>2, <2>3
<1>1. ASSUME NEW v \in Viewers PROVE ViewFits(view[v], snapshots)'
  <2>1. PICK t : t = view[v]
    OBVIOUS
  <2>2. ViewFits(t, snapshots) /\ t.since \in Nat
    BY <2>1, MetricsTyped
  <2>3. view'[v] = t /\ snapshots' = snapshots
    BY <2>1
  <2>4. t.pc \in Overlapping => t.since <= Measure(t.range)'
    BY <1>0, <2>2 DEF ViewFits
  <2> QED
    BY <2>2, <2>3, <2>4 DEF ViewFits
<1>2. \A v, w \in Viewers : NoneIsOlder(view[v], view[w])'
  BY DEF MetricsInv, NoneIsOlder
<1>3. ASSUME NEW p \in Periods PROVE PeriodFits(p)'
  <2>1. PICK t, range, snaps : t = job[p] /\ range = RangeOf(p) /\ snaps = periodSnaps[p][RangeOf(p)[1]]
    OBVIOUS
  <2>2. /\ t.pc \in ViewPc /\ t.day \in Days /\ t.figures \in Figures /\ t.stored \subseteq MetricKeys
        /\ JobFits(t, range, snaps) /\ PeriodFits(p) /\ today \in Days /\ today' \in Days
    BY <2>1, MetricsTyped DEF PeriodFits, VerifiedMetricsTypeOK
  <2>3. job'[p] = t /\ RangeOf(p)' = range /\ (periodSnaps[p][RangeOf(p)[1]])' = snaps
    BY <2>1 DEF RangeOf
  <2>4. Days \subseteq Nat
    BY VerifiedMetricsAssumption
  <2>5. JobFits(t, range, snaps)'
    <3>1. t.pc # "idle" => t.day <= today'
      <4>1. t.pc # "idle" => t.day <= today
        BY <2>2 DEF JobFits
      <4>2. t.day \in Nat /\ today \in Nat /\ today' \in Nat
        BY <2>2, <2>4
      <4> QED
        BY <4>1, <4>2
    <3>2. ASSUME t.pc # "idle", NEW m \in MetricKeys, t.figures[m] # Unmeasured
          PROVE  t.figures[m] <= Measure(range)'
      BY <1>0, <2>2, <3>2, FiguresTyped DEF JobFits
    <3> QED
      BY <2>2, <3>1, <3>2 DEF JobFits
  <2>6. ASSUME NEW d \in Days PROVE SnapsFit(p, d, periodSnaps[p][d])'
    <3>1. LatestDay(p) \in Days /\ LatestDay(p)' \in Days /\ LatestDay(p) <= LatestDay(p)'
      <4>1. t.pc # "idle" => t.day <= today
        BY <2>2 DEF JobFits
      <4>2. t.day \in Nat /\ today \in Nat /\ today' \in Nat
        BY <2>2, <2>4
      <4>3. job' = job
        OBVIOUS
      <4> QED
        BY <2>1, <2>2, <4>1, <4>2, <4>3 DEF LatestDay
    <3>2. ASSUME NEW m \in MetricKeys, periodSnaps[p][d][m] # Unmeasured
          PROVE  \E day \in Days : /\ day <= LatestDay(p)' /\ PeriodRange[p][day][1] = d
                                   /\ periodSnaps[p][d][m] <= Measure(PeriodRange[p][day])'
      <4>1. PICK day \in Days : /\ day <= LatestDay(p) /\ PeriodRange[p][day][1] = d
                                /\ periodSnaps[p][d][m] <= Measure(PeriodRange[p][day])
        BY <2>2, <3>2 DEF PeriodFits, SnapsFit
      <4>2. periodSnaps[p][d][m] \in Nat
        BY <3>2, MetricsTyped, FiguresTyped DEF VerifiedMetricsTypeOK
      <4>3. /\ Measure(PeriodRange[p][day]) \in Nat /\ Measure(PeriodRange[p][day])' \in Nat
            /\ Measure(PeriodRange[p][day]) <= Measure(PeriodRange[p][day])'
        BY <1>0
      <4>4. periodSnaps[p][d][m] <= Measure(PeriodRange[p][day])'
        BY <4>1, <4>2, <4>3
      <4>5. day <= LatestDay(p)'
        <5>1. day \in Nat /\ LatestDay(p) \in Nat /\ LatestDay(p)' \in Nat
          BY <2>4, <3>1
        <5> QED
          BY <3>1, <4>1, <5>1
      <4> QED
        BY <4>1, <4>4, <4>5
    <3> QED
      BY <3>2 DEF SnapsFit
  <2>7. \A d \in Days : RowFits(periodRows[p][d], periodSnaps[p][d])'
    BY <2>2 DEF PeriodFits, RowFits
  <2>8. JobFits(job[p], RangeOf(p), periodSnaps[p][RangeOf(p)[1]])'
    BY <2>3, <2>5 DEF JobFits
  <2> QED
    BY <2>6, <2>7, <2>8 DEF PeriodFits
<1> QED
  BY <1>1, <1>2, <1>3 DEF MetricsInv

LEMMA RecordArrivesInv == ASSUME MetricsInv, RecordArrives PROVE MetricsInv'
<1>1. VerifiedMetricsTypeOK
  BY MetricsTyped
<1>2. /\ records \in [Days -> 0..MaxRecords] /\ today \in Days /\ Days \subseteq Nat /\ MaxRecords \in Nat
      /\ records[today] < MaxRecords /\ records' = [records EXCEPT ![today] = @ + 1]
      /\ UNCHANGED <<today, snapshots, view, job, periodSnaps, periodRows>>
  BY <1>1, VerifiedMetricsAssumption DEF RecordArrives, VerifiedMetricsTypeOK
<1>3. records' \in [Days -> 0..MaxRecords] /\ \A d \in Days : records[d] <= records'[d]
  BY <1>2
<1>4. VerifiedMetricsTypeOK'
  BY <1>1, <1>2, <1>3 DEF VerifiedMetricsTypeOK
<1> QED
  BY <1>2, <1>3, <1>4, GrowsInv

LEMMA NextDayInv == ASSUME MetricsInv, NextDay PROVE MetricsInv'
<1>1. VerifiedMetricsTypeOK
  BY MetricsTyped
<1>2. /\ records \in [Days -> 0..MaxRecords] /\ today \in Days /\ Days \subseteq Nat /\ MaxRecords \in Nat
      /\ today + 1 \in Days /\ today' = today + 1
      /\ UNCHANGED <<records, snapshots, view, job, periodSnaps, periodRows>>
  BY <1>1, VerifiedMetricsAssumption DEF NextDay, VerifiedMetricsTypeOK
<1>3. VerifiedMetricsTypeOK'
  BY <1>1, <1>2 DEF VerifiedMetricsTypeOK
<1>4. today <= today' /\ \A d \in Days : records[d] <= records'[d]
  BY <1>2
<1> QED
  BY <1>2, <1>3, <1>4, GrowsInv

-----------------------------------------------------------------------------
(* A step of a view *)

ViewType == [pc : ViewPc, range : Ranges, figures : Figures, stored : SUBSET MetricKeys, since : Nat]

LEMMA ViewTyped ==
  ASSUME MetricsInv, NEW v \in Viewers
  PROVE  /\ view \in [Viewers -> ViewType] /\ view[v] \in ViewType /\ snapshots \in [Ranges -> Figures]
         /\ ViewFits(view[v], snapshots)
BY MetricsTyped DEF VerifiedMetricsTypeOK, ViewType

LEMMA PeriodsStay ==
  ASSUME MetricsInv, ViewOnly PROVE \A p \in Periods : PeriodFits(p)'
<1>1. /\ records' = records /\ today' = today /\ job' = job /\ periodSnaps' = periodSnaps
      /\ periodRows' = periodRows
  BY DEF ViewOnly
<1>2. ASSUME NEW p \in Periods PROVE PeriodFits(p)'
  <2>1. PICK t, range, snaps : t = job[p] /\ range = RangeOf(p) /\ snaps = periodSnaps[p][RangeOf(p)[1]]
    OBVIOUS
  <2>2. PeriodFits(p) /\ JobFits(t, range, snaps)
    BY <2>1 DEF MetricsInv, PeriodFits
  <2>3. job'[p] = t /\ RangeOf(p)' = range /\ (periodSnaps[p][RangeOf(p)[1]])' = snaps
    BY <1>1, <2>1 DEF RangeOf
  <2>4. \A r : Measure(r)' = Measure(r)
    BY <1>1, SameMeasure
  <2>5. JobFits(job[p], RangeOf(p), periodSnaps[p][RangeOf(p)[1]])'
    BY <1>1, <2>2, <2>3, <2>4 DEF JobFits
  <2>6. ASSUME NEW d \in Days PROVE SnapsFit(p, d, periodSnaps[p][d])'
    BY <1>1, <2>2, <2>4 DEF PeriodFits, SnapsFit, LatestDay
  <2>7. \A d \in Days : RowFits(periodRows[p][d], periodSnaps[p][d])'
    BY <1>1, <2>2 DEF PeriodFits, RowFits
  <2> QED
    BY <2>5, <2>6, <2>7 DEF PeriodFits
<1> QED
  BY <1>2

LEMMA ViewChanges ==
  ASSUME MetricsInv, NEW v \in Viewers, NEW new \in ViewType, view' = [view EXCEPT ![v] = new],
         ViewOnly, snapshots' \in [Ranges -> Figures],
         \A range \in Ranges : \A m \in MetricKeys :
             snapshots[range][m] # Unmeasured => snapshots'[range][m] # Unmeasured,
         \A w \in Viewers : w # v => ViewFits(view[w], snapshots'),
         ViewFits(new, snapshots'),
         \A w \in Viewers : w # v => NoneIsOlder(new, view[w]) /\ NoneIsOlder(view[w], new),
         NoneIsOlder(new, new)
  PROVE  MetricsInv'
<1>1. /\ view' \in [Viewers -> ViewType] /\ view'[v] = new /\ \A w \in Viewers : w # v => view'[w] = view[w]
  BY ViewTyped
<1>2. VerifiedMetricsTypeOK'
  BY <1>1, MetricsTyped DEF VerifiedMetricsTypeOK, ViewOnly, ViewType
<1>3. ASSUME NEW w \in Viewers PROVE ViewFits(view[w], snapshots)'
  <2>1. ViewFits(view'[w], snapshots')
    BY <1>1
  <2>2. PICK t, snaps : t = view'[w] /\ snaps = snapshots'
    OBVIOUS
  <2>3. Measure(t.range)' = Measure(t.range)
    BY SameMeasure DEF ViewOnly
  <2> QED
    BY <2>1, <2>2, <2>3 DEF ViewFits
<1>4. ASSUME NEW w \in Viewers, NEW u \in Viewers PROVE NoneIsOlder(view[w], view[u])'
  <2>1. NoneIsOlder(view'[w], view'[u])
    BY <1>1 DEF MetricsInv
  <2> QED
    BY <2>1 DEF NoneIsOlder
<1> QED
  BY <1>2, <1>3, <1>4, PeriodsStay DEF MetricsInv

LEMMA AskViewInv == ASSUME MetricsInv, NEW v \in Viewers, AskView(v) PROVE MetricsInv'
<1>1. PICK range \in Ranges :
          view' = [view EXCEPT ![v] =
               [IdleView EXCEPT !.pc = "measure", !.range = range,
                   !.since = Min({Measure(range)} \cup
                                 {view[w].since : w \in {w \in Ongoing : view[w].range = range}})]]
  BY DEF AskView
<1>2. snapshots' = snapshots /\ ViewOnly
  BY DEF AskView
<1> DEFINE oldest == {Measure(range)} \cup {view[w].since : w \in {w \in Ongoing : view[w].range = range}}
<1>3. oldest \subseteq Nat /\ oldest # {}
  BY MeasureIsNat, ViewTyped DEF Ongoing, ViewType
<1>4. Min(oldest) \in Nat /\ \A n \in oldest : Min(oldest) <= n
  BY <1>3, LeastOfNats
<1> DEFINE new == [IdleView EXCEPT !.pc = "measure", !.range = range, !.since = Min(oldest)]
<1>5. view' = [view EXCEPT ![v] = new]
  BY <1>1
<1>6. Min(oldest) <= Measure(range)
      /\ \A w \in Ongoing : view[w].range = range => Min(oldest) <= view[w].since
  BY <1>4
<1> HIDE DEF oldest
<1>7. /\ new \in ViewType /\ new.pc = "measure" /\ new.range = range /\ new.since = Min(oldest)
      /\ new.stored = {} /\ new.figures = Nothing
  BY <1>4, IdleTyped DEF ViewType, ViewPc
<1> HIDE DEF new
<1>8. ViewFits(new, snapshots)
  BY <1>6, <1>7 DEF ViewFits
<1>9. ASSUME NEW w \in Viewers PROVE NoneIsOlder(new, view[w]) /\ NoneIsOlder(view[w], new)
  <2>1. NoneIsOlder(view[w], new)
    BY <1>7, IdleTyped DEF NoneIsOlder
  <2>2. ASSUME view[w].pc \in Overlapping, view[w].range = range, NEW m \in MetricKeys,
               view[w].figures[m] # Unmeasured
        PROVE  view[w].figures[m] >= new.since
    <3>1. view[w].figures[m] >= view[w].since
      BY <2>2 DEF MetricsInv, NoneIsOlder
    <3>2. new.since <= view[w].since
      BY <1>6, <1>7, <2>2 DEF Ongoing, Overlapping
    <3>3. view[w].figures[m] \in Nat /\ view[w].since \in Nat /\ new.since \in Nat
      BY <1>4, <1>7, <2>2, ViewTyped, FiguresTyped DEF ViewType
    <3> QED
      BY <3>1, <3>2, <3>3
  <2>3. NoneIsOlder(new, view[w])
    BY <1>7, <2>2 DEF NoneIsOlder
  <2> QED
    BY <2>1, <2>3
<1>10. NoneIsOlder(new, new)
  BY <1>7, IdleTyped DEF NoneIsOlder
<1>11. snapshots' \in [Ranges -> Figures] /\ \A w \in Viewers : ViewFits(view[w], snapshots')
  BY <1>2, ViewTyped, MetricsTyped DEF VerifiedMetricsTypeOK
<1> QED
  BY <1>2, <1>5, <1>7, <1>8, <1>9, <1>10, <1>11, ViewChanges

LEMMA MeasureMetricInv ==
  ASSUME MetricsInv, NEW v \in Viewers, NEW m \in MetricKeys, MeasureMetric(v, m) PROVE MetricsInv'
<1> DEFINE t == view[v]
           figures == [t.figures EXCEPT ![m] = Measure(t.range)]
           pc == IF Unmeasured \in {figures[k] : k \in MetricKeys} THEN "measure" ELSE "upsert"
           new == [t EXCEPT !.figures = figures, !.pc = pc]
<1>1. /\ t.pc = "measure" /\ t.figures[m] = Unmeasured
      /\ view' = [view EXCEPT ![v].figures = figures, ![v].pc = pc]
      /\ snapshots' = snapshots /\ ViewOnly
  BY DEF MeasureMetric
<1>2. t \in ViewType /\ view \in [Viewers -> ViewType] /\ ViewFits(t, snapshots)
  BY ViewTyped
<1>3. view' = [view EXCEPT ![v] = new]
  BY <1>1, <1>2
<1>4. Measure(t.range) \in Nat /\ t.since \in Nat /\ t.since <= Measure(t.range) /\ t.stored = {}
  BY <1>1, <1>2, MeasureIsNat DEF ViewFits, Overlapping, ViewType
<1>5. /\ figures \in Figures /\ figures[m] = Measure(t.range)
      /\ \A k \in MetricKeys : k # m => figures[k] = t.figures[k]
  BY <1>2, <1>4 DEF Figures, Figure, ViewType
<1>6. pc \in {"measure", "upsert"} /\ (pc = "upsert" => \A k \in MetricKeys : figures[k] # Unmeasured)
  OBVIOUS
<1> HIDE DEF pc, figures
<1>7. /\ new \in ViewType /\ new.pc = pc /\ new.figures = figures /\ new.range = t.range
      /\ new.since = t.since /\ new.stored = t.stored
  BY <1>2, <1>5, <1>6 DEF ViewType, ViewPc
<1> HIDE DEF new
<1>8. ViewFits(new, snapshots)
  BY <1>2, <1>4, <1>6, <1>7 DEF ViewFits, Overlapping
<1>9. ASSUME NEW w \in Viewers PROVE NoneIsOlder(new, view[w]) /\ NoneIsOlder(view[w], new)
  <2>1. NoneIsOlder(t, view[w]) /\ NoneIsOlder(view[w], t) /\ view[w] \in ViewType
    BY ViewTyped DEF MetricsInv
  <2>2. NoneIsOlder(new, view[w])
    BY <1>1, <1>7, <2>1 DEF NoneIsOlder, Overlapping
  <2>3. ASSUME view[w].pc \in Overlapping, view[w].range = t.range
        PROVE  view[w].since <= Measure(t.range)
    BY <2>3, ViewTyped DEF ViewFits
  <2>4. NoneIsOlder(view[w], new)
    <3> SUFFICES ASSUME view[w].pc \in Overlapping, view[w].range = t.range, NEW k \in MetricKeys,
                        figures[k] # Unmeasured
                 PROVE  figures[k] >= view[w].since
      BY <1>7 DEF NoneIsOlder
    <3>1. CASE k = m
      <4>1. view[w].since \in Nat
        BY <2>1 DEF ViewType
      <4> QED
        BY <1>4, <1>5, <2>3, <3>1, <4>1
    <3>2. CASE k # m
      BY <1>1, <1>5, <2>1, <3>2 DEF NoneIsOlder, Overlapping
    <3> QED
      BY <3>1, <3>2
  <2> QED
    BY <2>2, <2>4
<1>10. NoneIsOlder(new, new)
  <2> SUFFICES ASSUME NEW k \in MetricKeys, figures[k] # Unmeasured PROVE figures[k] >= t.since
    BY <1>7 DEF NoneIsOlder
  <2>1. CASE k = m
    BY <1>4, <1>5, <2>1
  <2>2. CASE k # m
    BY <1>1, <1>5, <2>2 DEF MetricsInv, NoneIsOlder, Overlapping
  <2> QED
    BY <2>1, <2>2
<1>11. snapshots' \in [Ranges -> Figures] /\ \A w \in Viewers : ViewFits(view[w], snapshots')
  BY <1>1, ViewTyped
<1>12. \A range \in Ranges : \A k \in MetricKeys :
           snapshots[range][k] # Unmeasured => snapshots'[range][k] # Unmeasured
  BY <1>1
<1> HIDE DEF t
<1> QED
  BY <1>1, <1>3, <1>7, <1>8, <1>9, <1>10, <1>11, <1>12, ViewChanges

LEMMA UpsertSnapshotInv ==
  ASSUME MetricsInv, NEW v \in Viewers, NEW m \in MetricKeys, UpsertSnapshot(v, m) PROVE MetricsInv'
<1> DEFINE t == view[v]
           stored == t.stored \cup {m}
           pc == IF stored = MetricKeys THEN "list" ELSE "upsert"
           new == [t EXCEPT !.stored = stored, !.pc = pc]
<1>1. /\ t.pc = "upsert"
      /\ view' = [view EXCEPT ![v].stored = stored, ![v].pc = pc]
      /\ snapshots' = [snapshots EXCEPT ![t.range][m] = t.figures[m]] /\ ViewOnly
  BY DEF UpsertSnapshot
<1>2. t \in ViewType /\ view \in [Viewers -> ViewType] /\ ViewFits(t, snapshots) /\ snapshots \in [Ranges -> Figures]
  BY ViewTyped
<1>3. view' = [view EXCEPT ![v] = new]
  BY <1>1, <1>2
<1>4. /\ t.range \in Ranges /\ t.figures \in Figures /\ t.since \in Nat /\ t.stored \subseteq MetricKeys
      /\ \A k \in MetricKeys : t.figures[k] # Unmeasured
      /\ \A k \in t.stored : snapshots[t.range][k] # Unmeasured /\ snapshots[t.range][k] >= t.since
  BY <1>1, <1>2 DEF ViewType, ViewFits
<1>5. stored \subseteq MetricKeys /\ pc \in {"list", "upsert"} /\ (pc = "list" => stored = MetricKeys)
  BY <1>4
<1>6. /\ new \in ViewType /\ new.pc = pc /\ new.figures = t.figures /\ new.range = t.range
      /\ new.since = t.since /\ new.stored = stored
  BY <1>2, <1>5 DEF ViewType, ViewPc
<1>7. /\ snapshots' \in [Ranges -> Figures]
      /\ \A range \in Ranges : \A k \in MetricKeys :
             snapshots'[range][k] = IF range = t.range /\ k = m THEN t.figures[m] ELSE snapshots[range][k]
  <2>1. PICK old \in Figures : old = snapshots[t.range]
    BY <1>2, <1>4
  <2>2. PICK now \in Figures : now = [old EXCEPT ![m] = t.figures[m]]
    BY <1>4 DEF Figures
  <2>3. snapshots' = [snapshots EXCEPT ![t.range] = now]
    BY <1>1, <2>1, <2>2
  <2>4. \A k \in MetricKeys : now[k] = IF k = m THEN t.figures[m] ELSE old[k]
    BY <2>2 DEF Figures
  <2> QED
    BY <1>2, <1>4, <2>1, <2>3, <2>4
<1> HIDE DEF new, pc
<1>8. \A range \in Ranges : \A k \in MetricKeys :
           snapshots[range][k] # Unmeasured => snapshots'[range][k] # Unmeasured
  BY <1>4, <1>7
<1>9. t.figures[m] >= t.since
  BY <1>1, <1>4 DEF MetricsInv, NoneIsOlder, Overlapping
<1>10. ASSUME NEW w \in Viewers, w # v PROVE ViewFits(view[w], snapshots')
  <2>1. PICK u \in ViewType : u = view[w]
    BY ViewTyped
  <2>2. ViewFits(u, snapshots) /\ u.range \in Ranges /\ u.stored \subseteq MetricKeys
    BY <2>1, ViewTyped DEF ViewType
  <2>3. ASSUME u.pc \in {"upsert", "list"}, NEW k \in u.stored
        PROVE  snapshots'[u.range][k] # Unmeasured /\ snapshots'[u.range][k] >= u.since
    <3>1. snapshots[u.range][k] # Unmeasured /\ snapshots[u.range][k] >= u.since
      BY <2>2, <2>3 DEF ViewFits
    <3>2. CASE u.range = t.range /\ k = m
      <4>1. t.figures[m] >= u.since
        BY <1>1, <1>4, <2>1, <2>3, <3>2 DEF MetricsInv, NoneIsOlder, Overlapping
      <4> QED
        BY <1>4, <1>7, <3>2, <4>1
    <3>3. CASE ~(u.range = t.range /\ k = m)
      BY <1>7, <2>2, <3>1, <3>3
    <3> QED
      BY <3>2, <3>3
  <2>4. ASSUME u.pc = "done", NEW k \in MetricKeys
        PROVE  /\ u.figures[k] # Unmeasured
               /\ \/ \E r \in Inside(u.range) \ {u.range} : snapshots'[r][k] # Unmeasured
                  \/ u.figures[k] >= u.since
    BY <1>8, <2>2, <2>4 DEF ViewFits, Inside
  <2> QED
    BY <2>1, <2>2, <2>3, <2>4 DEF ViewFits
<1>11. ViewFits(new, snapshots')
  <2>1. ASSUME NEW k \in stored
        PROVE  snapshots'[t.range][k] # Unmeasured /\ snapshots'[t.range][k] >= t.since
    BY <1>4, <1>7, <1>9
  <2>2. t.since <= Measure(t.range)
    BY <1>1, <1>2 DEF ViewFits, Overlapping
  <2> HIDE DEF t, stored
  <2> QED
    BY <1>4, <1>5, <1>6, <2>1, <2>2 DEF ViewFits
<1>12. t.pc \in Overlapping
  BY <1>1 DEF Overlapping
<1>13. ASSUME NEW w \in Viewers PROVE NoneIsOlder(new, view[w]) /\ NoneIsOlder(view[w], new)
  BY <1>6, <1>12 DEF MetricsInv, NoneIsOlder
<1>14. NoneIsOlder(new, new)
  BY <1>6, <1>12 DEF MetricsInv, NoneIsOlder
<1>15. ViewOnly /\ snapshots' \in [Ranges -> Figures] /\ new \in ViewType
  BY <1>1, <1>6, <1>7
<1> HIDE DEF t
<1> QED
  BY <1>3, <1>8, <1>10, <1>11, <1>13, <1>14, <1>15, ViewChanges

LEMMA ListSnapshotsInv == ASSUME MetricsInv, NEW v \in Viewers, ListSnapshots(v) PROVE MetricsInv'
<1> DEFINE t == view[v]
<1>1. t.pc = "list" /\ snapshots' = snapshots /\ ViewOnly
  BY DEF ListSnapshots
<1>2. PICK pick \in [MetricKeys -> Ranges] :
           /\ \A m \in MetricKeys : pick[m] \in Mapped(t.range, m)
           /\ view' = [view EXCEPT ![v].pc = "done",
                                   ![v].figures = [m \in MetricKeys |-> snapshots[pick[m]][m]]]
  BY DEF ListSnapshots
<1> DEFINE figures == [m \in MetricKeys |-> snapshots[pick[m]][m]]
           new == [t EXCEPT !.pc = "done", !.figures = figures]
<1>3. t \in ViewType /\ view \in [Viewers -> ViewType] /\ ViewFits(t, snapshots) /\ snapshots \in [Ranges -> Figures]
  BY ViewTyped
<1>4. view' = [view EXCEPT ![v] = new]
  BY <1>2, <1>3
<1>5. figures \in Figures /\ \A m \in MetricKeys : figures[m] = snapshots[pick[m]][m]
  BY <1>3 DEF Figures
<1> HIDE DEF figures
<1>6. /\ new \in ViewType /\ new.pc = "done" /\ new.figures = figures /\ new.range = t.range
      /\ new.since = t.since /\ new.stored = t.stored
  BY <1>3, <1>5 DEF ViewType, ViewPc
<1> HIDE DEF new
<1>7. ASSUME NEW m \in MetricKeys
      PROVE  /\ figures[m] # Unmeasured
             /\ \/ \E w \in Inside(t.range) \ {t.range} : snapshots[w][m] # Unmeasured
                \/ figures[m] >= t.since
  <2>1. pick[m] \in Inside(t.range) /\ snapshots[pick[m]][m] # Unmeasured
    BY <1>2 DEF Mapped, Listed
  <2>2. snapshots[t.range][m] >= t.since
    BY <1>1, <1>3 DEF ViewFits
  <2> QED
    BY <1>5, <2>1, <2>2
<1>8. ViewFits(new, snapshots)
  BY <1>6, <1>7 DEF ViewFits, Overlapping
<1>9. \A w \in Viewers : NoneIsOlder(new, view[w]) /\ NoneIsOlder(view[w], new)
  BY <1>6 DEF NoneIsOlder, Overlapping
<1>10. NoneIsOlder(new, new)
  BY <1>6 DEF NoneIsOlder, Overlapping
<1>11. snapshots' \in [Ranges -> Figures] /\ \A w \in Viewers : ViewFits(view[w], snapshots')
  BY <1>1, ViewTyped
<1>12. \A range \in Ranges : \A k \in MetricKeys :
           snapshots[range][k] # Unmeasured => snapshots'[range][k] # Unmeasured
  BY <1>1
<1> HIDE DEF t
<1> QED
  BY <1>1, <1>4, <1>6, <1>8, <1>9, <1>10, <1>11, <1>12, ViewChanges

LEMMA ViewEndsInv == ASSUME MetricsInv, NEW v \in Viewers, ViewEnds(v) PROVE MetricsInv'
<1>1. view' = [view EXCEPT ![v] = IdleView] /\ snapshots' = snapshots /\ ViewOnly
  BY DEF ViewEnds
<1>2. IdleView \in ViewType /\ IdleView.pc = "idle"
  BY IdleTyped DEF ViewType
<1>3. ViewFits(IdleView, snapshots)
  BY <1>2 DEF ViewFits, Overlapping
<1>4. \A w \in Viewers : NoneIsOlder(IdleView, view[w]) /\ NoneIsOlder(view[w], IdleView)
  BY <1>2 DEF NoneIsOlder, Overlapping
<1>5. NoneIsOlder(IdleView, IdleView)
  BY <1>2 DEF NoneIsOlder, Overlapping
<1>6. snapshots' \in [Ranges -> Figures] /\ \A w \in Viewers : ViewFits(view[w], snapshots')
  BY <1>1, ViewTyped
<1>7. \A range \in Ranges : \A k \in MetricKeys :
           snapshots[range][k] # Unmeasured => snapshots'[range][k] # Unmeasured
  BY <1>1
<1> QED
  BY <1>1, <1>2, <1>3, <1>4, <1>5, <1>6, <1>7, ViewChanges

LEMMA ViewStepInv == ASSUME MetricsInv, NEW v \in Viewers, ViewStep(v) PROVE MetricsInv'
BY AskViewInv, ListSnapshotsInv, ViewEndsInv, MeasureMetricInv, UpsertSnapshotInv DEF ViewStep

-----------------------------------------------------------------------------
(* A step of a job *)

JobType == [pc : ViewPc, day : Days, figures : Figures, stored : SUBSET MetricKeys]
TableType == [Days -> Figures]
LatestDayOf(t) == IF t.pc = "idle" THEN today ELSE t.day
TableFits(p, t, table) ==
    \A d \in Days : \A m \in MetricKeys : table[d][m] # Unmeasured =>
        \E day \in Days : /\ day <= LatestDayOf(t) /\ PeriodRange[p][day][1] = d
                          /\ table[d][m] <= Measure(PeriodRange[p][day])

LEMMA JobTyped ==
  ASSUME MetricsInv, NEW p \in Periods
  PROVE  /\ job \in [Periods -> JobType] /\ periodSnaps \in [Periods -> TableType]
         /\ periodRows \in [Periods -> TableType]
         /\ job[p] \in JobType /\ periodSnaps[p] \in TableType /\ periodRows[p] \in TableType
         /\ RangeOf(p) \in Days \X Days /\ Days # {}
         /\ JobFits(job[p], RangeOf(p), periodSnaps[p][RangeOf(p)[1]])
         /\ TableFits(p, job[p], periodSnaps[p])
         /\ \A d \in Days : RowFits(periodRows[p][d], periodSnaps[p][d])
<1>1. /\ job \in [Periods -> JobType] /\ periodSnaps \in [Periods -> TableType]
      /\ periodRows \in [Periods -> TableType] /\ Days # {}
  BY MetricsTyped DEF VerifiedMetricsTypeOK, JobType, TableType
<1>2. RangeOf(p) \in Days \X Days /\ PeriodFits(p)
  BY MetricsTyped
<1>3. TableFits(p, job[p], periodSnaps[p])
  BY <1>2 DEF PeriodFits, TableFits, SnapsFit, LatestDay, LatestDayOf
<1> QED
  BY <1>1, <1>2, <1>3 DEF PeriodFits

LEMMA JobChanges ==
  ASSUME MetricsInv, NEW p \in Periods, NEW new \in JobType, NEW table \in TableType, NEW rows \in TableType,
         job' = [job EXCEPT ![p] = new], periodSnaps' = [periodSnaps EXCEPT ![p] = table],
         periodRows' = [periodRows EXCEPT ![p] = rows], JobOnly,
         JobFits(new, PeriodRange[p][new.day], table[PeriodRange[p][new.day][1]]),
         TableFits(p, new, table), \A d \in Days : RowFits(rows[d], table[d])
  PROVE  MetricsInv'
<1>1. /\ records' = records /\ today' = today /\ snapshots' = snapshots /\ view' = view
      /\ \A r : Measure(r)' = Measure(r)
  BY SameMeasure DEF JobOnly
<1>2. /\ job' \in [Periods -> JobType] /\ job'[p] = new /\ periodSnaps' \in [Periods -> TableType]
      /\ periodSnaps'[p] = table /\ periodRows' \in [Periods -> TableType] /\ periodRows'[p] = rows
      /\ \A q \in Periods : q # p => /\ job'[q] = job[q] /\ periodSnaps'[q] = periodSnaps[q]
                                     /\ periodRows'[q] = periodRows[q]
  BY JobTyped
<1>3. VerifiedMetricsTypeOK'
  BY <1>1, <1>2, MetricsTyped DEF VerifiedMetricsTypeOK, JobType, TableType
<1>4. ASSUME NEW v \in Viewers PROVE ViewFits(view[v], snapshots)'
  <2>1. PICK t, snaps : t = view[v] /\ snaps = snapshots
    OBVIOUS
  <2>2. ViewFits(t, snaps)
    BY <2>1, ViewTyped
  <2> QED
    BY <1>1, <2>1, <2>2 DEF ViewFits
<1>5. \A v, w \in Viewers : NoneIsOlder(view[v], view[w])'
  BY <1>1 DEF MetricsInv, NoneIsOlder
<1>6. ASSUME NEW q \in Periods PROVE PeriodFits(q)'
  <2>1. PICK t, snaps, all, range :
            /\ t = job'[q] /\ all = periodSnaps'[q] /\ range = PeriodRange[q][t.day]
            /\ snaps = all[range[1]]
    OBVIOUS
  <2>2. JobFits(t, range, snaps) /\ TableFits(q, t, all) /\ \A d \in Days : RowFits(periodRows'[q][d], all[d])
    <3>1. CASE q = p
      BY <1>2, <2>1, <3>1
    <3>2. CASE q # p
      BY <1>2, <2>1, <3>2, JobTyped DEF RangeOf
    <3> QED
      BY <3>1, <3>2
  <2>3. (RangeOf(q))' = range /\ (periodSnaps[q][RangeOf(q)[1]])' = snaps
    BY <2>1 DEF RangeOf
  <2>4. JobFits(job[q], RangeOf(q), periodSnaps[q][RangeOf(q)[1]])'
    BY <1>1, <2>1, <2>2, <2>3 DEF JobFits
  <2>5. ASSUME NEW d \in Days PROVE SnapsFit(q, d, periodSnaps[q][d])'
    BY <1>1, <2>1, <2>2 DEF TableFits, SnapsFit, LatestDay, LatestDayOf
  <2>6. \A d \in Days : RowFits(periodRows[q][d], periodSnaps[q][d])'
    BY <2>1, <2>2 DEF RowFits
  <2> QED
    BY <2>4, <2>5, <2>6 DEF PeriodFits
<1> QED
  BY <1>3, <1>4, <1>5, <1>6 DEF MetricsInv

LEMMA JobStartsInv == ASSUME MetricsInv, NEW p \in Periods, JobStarts(p) PROVE MetricsInv'
<1> DEFINE new == [IdleJob EXCEPT !.pc = "measure", !.day = today]
<1>1. /\ job[p].pc = "idle" /\ job' = [job EXCEPT ![p] = new]
      /\ periodSnaps' = periodSnaps /\ periodRows' = periodRows /\ JobOnly
  BY DEF JobStarts
<1>2. today \in Days /\ Days \subseteq Nat
  BY MetricsTyped, VerifiedMetricsAssumption DEF VerifiedMetricsTypeOK
<1>3. new \in JobType /\ new.pc = "measure" /\ new.day = today /\ new.figures = Nothing /\ new.stored = {}
  BY <1>2, IdleJobTyped DEF JobType, ViewPc
<1> HIDE DEF new
<1>4. JobFits(new, PeriodRange[p][new.day], periodSnaps[p][PeriodRange[p][new.day][1]])
  BY <1>2, <1>3, IdleTyped DEF JobFits
<1>5. LatestDayOf(new) = LatestDayOf(job[p])
  BY <1>1, <1>3 DEF LatestDayOf
<1>6. TableFits(p, new, periodSnaps[p])
  BY <1>5, JobTyped DEF TableFits
<1>7. periodSnaps' = [periodSnaps EXCEPT ![p] = periodSnaps[p]] /\ periodRows' = [periodRows EXCEPT ![p] = periodRows[p]]
  BY <1>1, JobTyped
<1> QED
  <2>1. /\ new \in JobType /\ periodSnaps[p] \in TableType /\ periodRows[p] \in TableType
        /\ \A d \in Days : RowFits(periodRows[p][d], periodSnaps[p][d])
    BY <1>3, JobTyped
  <2> QED
    BY <1>1, <1>4, <1>6, <1>7, <2>1, JobChanges

(* What is stored of a period is of days that had passed when the job      *)
(* began, and so no more than what the job measures.                       *)
LEMMA JobMeasuresMore ==
  ASSUME MetricsInv, NEW p \in Periods, job[p].pc # "idle", NEW m \in MetricKeys,
         periodSnaps[p][RangeOf(p)[1]][m] # Unmeasured
  PROVE  periodSnaps[p][RangeOf(p)[1]][m] <= Measure(RangeOf(p))
<1>1. PICK day \in Days : /\ day <= job[p].day /\ PeriodRange[p][day][1] = RangeOf(p)[1]
                          /\ periodSnaps[p][RangeOf(p)[1]][m] <= Measure(PeriodRange[p][day])
  BY JobTyped DEF TableFits, LatestDayOf
<1>2. job[p].day \in Days /\ RangeOf(p) = PeriodRange[p][job[p].day]
  BY JobTyped DEF JobType, RangeOf
<1>3. PeriodRange[p][day][2] <= RangeOf(p)[2]
  BY <1>1, <1>2, VerifiedMetricsAssumption
<1>4. PeriodRange[p][day] \in Days \X Days /\ RangeOf(p) \in Days \X Days /\ Days \subseteq Nat
  BY JobTyped, VerifiedMetricsAssumption
<1>5. DaysOf(PeriodRange[p][day]) \subseteq DaysOf(RangeOf(p))
  <2>1. PICK a \in Nat, b \in Nat, c \in Nat :
            /\ PeriodRange[p][day][1] = a /\ PeriodRange[p][day][2] = b
            /\ RangeOf(p)[1] = a /\ RangeOf(p)[2] = c /\ b <= c
    BY <1>1, <1>3, <1>4
  <2>2. ASSUME NEW d \in DaysOf(PeriodRange[p][day]) PROVE d \in DaysOf(RangeOf(p))
    <3>1. d \in Days /\ d \in Nat /\ a <= d /\ d <= b
      BY <1>4, <2>1 DEF DaysOf
    <3>2. d <= c
      BY <2>1, <3>1
    <3> QED
      BY <2>1, <3>1, <3>2 DEF DaysOf
  <2> QED
    BY <2>2
<1>6. Measure(PeriodRange[p][day]) <= Measure(RangeOf(p))
  BY <1>5, WiderMeasuresMore
<1>7. periodSnaps[p][RangeOf(p)[1]][m] \in Nat
  BY <1>4, JobTyped, FiguresTyped DEF TableType
<1>8. Measure(PeriodRange[p][day]) \in Nat /\ Measure(RangeOf(p)) \in Nat
  BY MeasureIsNat
<1> QED
  BY <1>1, <1>6, <1>7, <1>8

LEMMA JobMeasuresInv ==
  ASSUME MetricsInv, NEW p \in Periods, NEW m \in MetricKeys, JobMeasures(p, m) PROVE MetricsInv'
<1> DEFINE t == job[p]
           n == Measure(RangeOf(p))
           figures == [t.figures EXCEPT ![m] = n]
           pc == IF Unmeasured \in {figures[k] : k \in MetricKeys} THEN "measure" ELSE "upsert"
           new == [t EXCEPT !.figures = figures, !.pc = pc]
           snaps == periodSnaps[p][RangeOf(p)[1]]
<1>1. /\ t.pc = "measure" /\ t.figures[m] = Unmeasured
      /\ job' = [job EXCEPT ![p].figures = figures, ![p].pc = pc]
      /\ periodSnaps' = periodSnaps /\ periodRows' = periodRows /\ JobOnly
  BY DEF JobMeasures, RangeOf
<1>2. t \in JobType /\ job \in [Periods -> JobType] /\ JobFits(t, RangeOf(p), snaps) /\ RangeOf(p) \in Days \X Days
      /\ RangeOf(p) = PeriodRange[p][t.day]
  BY JobTyped DEF RangeOf
<1>3. job' = [job EXCEPT ![p] = new]
  BY <1>1, <1>2
<1>4. n \in Nat /\ t.stored = {} /\ t.day <= today
  BY <1>1, <1>2, MeasureIsNat DEF JobFits
<1>5. /\ figures \in Figures /\ figures[m] = n /\ \A k \in MetricKeys : k # m => figures[k] = t.figures[k]
  BY <1>2, <1>4 DEF Figures, Figure, JobType
<1>6. pc \in {"measure", "upsert"} /\ (pc = "upsert" => \A k \in MetricKeys : figures[k] # Unmeasured)
  OBVIOUS
<1> HIDE DEF pc, figures
<1>7. /\ new \in JobType /\ new.pc = pc /\ new.figures = figures /\ new.day = t.day /\ new.stored = t.stored
  BY <1>2, <1>5, <1>6 DEF JobType, ViewPc
<1> HIDE DEF new
<1>8. snaps[m] # Unmeasured => snaps[m] <= n
  BY <1>1, JobMeasuresMore
<1>9. ASSUME NEW k \in MetricKeys, figures[k] # Unmeasured
      PROVE  figures[k] <= n /\ (snaps[k] # Unmeasured => snaps[k] <= figures[k])
  <2>1. CASE k = m
    BY <1>4, <1>5, <1>8, <2>1
  <2>2. CASE k # m
    BY <1>1, <1>2, <1>4, <1>5, <1>9, <2>2 DEF JobFits
  <2> QED
    BY <2>1, <2>2
<1>10. JobFits(new, RangeOf(p), snaps)
  BY <1>4, <1>6, <1>7, <1>9 DEF JobFits
<1>11. TableFits(p, new, periodSnaps[p])
  <2>1. LatestDayOf(new) = LatestDayOf(t)
    BY <1>1, <1>6, <1>7 DEF LatestDayOf
  <2> QED
    BY <2>1, JobTyped DEF TableFits
<1>12. periodSnaps' = [periodSnaps EXCEPT ![p] = periodSnaps[p]] /\ periodRows' = [periodRows EXCEPT ![p] = periodRows[p]]
  BY <1>1, JobTyped
<1>13. JobFits(new, PeriodRange[p][new.day], periodSnaps[p][PeriodRange[p][new.day][1]])
  BY <1>2, <1>7, <1>10
<1> HIDE DEF t, snaps, n
<1> QED
  BY <1>1, <1>3, <1>7, <1>11, <1>12, <1>13, JobTyped, JobChanges

LEMMA JobUpsertsInv ==
  ASSUME MetricsInv, NEW p \in Periods, NEW m \in MetricKeys, JobUpserts(p, m) PROVE MetricsInv'
<1> DEFINE t == job[p]
           range == RangeOf(p)
           stored == t.stored \cup {m}
           pc == IF stored = MetricKeys THEN "done" ELSE "upsert"
           new == [t EXCEPT !.stored = stored, !.pc = pc]
           old == periodSnaps[p][range[1]]
           now == [old EXCEPT ![m] = t.figures[m]]
           table == [periodSnaps[p] EXCEPT ![range[1]] = now]
<1>1. /\ t.pc = "upsert" /\ m \notin t.stored
      /\ job' = [job EXCEPT ![p].stored = stored, ![p].pc = pc]
      /\ periodSnaps' = [periodSnaps EXCEPT ![p][range[1]][m] = t.figures[m]]
      /\ periodRows' = periodRows /\ JobOnly
  BY DEF JobUpserts, RangeOf
<1>2. /\ t \in JobType /\ job \in [Periods -> JobType] /\ JobFits(t, range, old)
      /\ range \in Days \X Days /\ range = PeriodRange[p][t.day] /\ TableFits(p, t, periodSnaps[p])
      /\ periodSnaps \in [Periods -> TableType] /\ periodSnaps[p] \in TableType
      /\ \A d \in Days : RowFits(periodRows[p][d], periodSnaps[p][d])
  BY JobTyped DEF RangeOf
<1>3. job' = [job EXCEPT ![p] = new]
  BY <1>1, <1>2
<1>4. /\ t.figures \in Figures /\ t.stored \subseteq MetricKeys /\ t.day \in Days /\ t.day <= today
      /\ \A k \in MetricKeys : t.figures[k] # Unmeasured /\ t.figures[k] <= Measure(range)
      /\ \A k \in t.stored : old[k] = t.figures[k]
      /\ \A k \in MetricKeys \ t.stored : old[k] # Unmeasured => old[k] <= t.figures[k]
  BY <1>1, <1>2 DEF JobType, JobFits
<1>5. stored \subseteq MetricKeys /\ pc \in {"done", "upsert"} /\ (pc = "done" => stored = MetricKeys)
  BY <1>4
<1>6. new \in JobType /\ new.pc = pc /\ new.figures = t.figures /\ new.day = t.day /\ new.stored = stored
  BY <1>2, <1>5 DEF JobType, ViewPc
<1>7. range[1] \in Days /\ old \in Figures
  BY <1>2 DEF TableType
<1>8. now \in Figures /\ \A k \in MetricKeys : now[k] = IF k = m THEN t.figures[m] ELSE old[k]
  BY <1>4, <1>7 DEF Figures
<1>9. periodSnaps' = [periodSnaps EXCEPT ![p] = table]
  BY <1>1, <1>2, <1>7
<1> HIDE DEF new, pc, now
<1>10. table \in TableType /\ \A d \in Days : table[d] = IF d = range[1] THEN now ELSE periodSnaps[p][d]
  BY <1>2, <1>7, <1>8 DEF TableType
<1> HIDE DEF table
<1>11. \A k \in MetricKeys : /\ k \in stored => now[k] = t.figures[k]
                             /\ k \notin stored /\ now[k] # Unmeasured => now[k] <= t.figures[k]
  BY <1>4, <1>8
<1>12. JobFits(new, range, now)
  <2> HIDE DEF t, stored, range
  <2> QED
    BY <1>4, <1>5, <1>6, <1>11 DEF JobFits
<1>13. JobFits(new, PeriodRange[p][new.day], table[PeriodRange[p][new.day][1]])
  BY <1>2, <1>6, <1>7, <1>10, <1>12
<1>14. LatestDayOf(new) = t.day /\ LatestDayOf(t) = t.day
  BY <1>1, <1>5, <1>6 DEF LatestDayOf
<1>15. TableFits(p, new, table)
  <2> SUFFICES ASSUME NEW d \in Days, NEW k \in MetricKeys, table[d][k] # Unmeasured
               PROVE  \E day \in Days : /\ day <= t.day /\ PeriodRange[p][day][1] = d
                                        /\ table[d][k] <= Measure(PeriodRange[p][day])
    BY <1>14 DEF TableFits
  <2>1. CASE d = range[1] /\ k = m
    <3>1. table[d][k] = t.figures[m] /\ t.figures[m] <= Measure(PeriodRange[p][t.day])
      BY <1>2, <1>4, <1>8, <1>10, <2>1
    <3>2. t.day <= t.day
      <4>1. t.day \in Nat
        BY <1>4, VerifiedMetricsAssumption
      <4> HIDE DEF t
      <4> QED
        BY <4>1
    <3> QED
      BY <1>2, <1>4, <2>1, <3>1, <3>2
  <2>2. CASE ~(d = range[1] /\ k = m)
    <3>1. table[d][k] = periodSnaps[p][d][k]
      BY <1>8, <1>10, <2>2
    <3> QED
      BY <1>2, <1>14, <3>1 DEF TableFits
  <2> QED
    BY <2>1, <2>2
<1>16. ASSUME NEW d \in Days PROVE RowFits(periodRows[p][d], table[d])
  <2> SUFFICES ASSUME NEW k \in MetricKeys, periodRows[p][d][k] # Unmeasured
               PROVE  table[d][k] # Unmeasured /\ periodRows[p][d][k] <= table[d][k]
    BY DEF RowFits
  <2>1. periodSnaps[p][d][k] # Unmeasured /\ periodRows[p][d][k] <= periodSnaps[p][d][k]
    BY <1>2 DEF RowFits
  <2>2. CASE d = range[1] /\ k = m
    <3>1. table[d][k] = t.figures[m] /\ periodSnaps[p][d][k] <= t.figures[m]
      BY <1>1, <1>4, <1>8, <1>10, <2>1, <2>2
    <3>2. periodRows[p][d][k] \in Nat /\ periodSnaps[p][d][k] \in Nat /\ t.figures[m] \in Nat
      BY <1>2, <1>4, <2>1, JobTyped, FiguresTyped DEF TableType
    <3> QED
      BY <1>4, <2>1, <3>1, <3>2
  <2>3. CASE ~(d = range[1] /\ k = m)
    BY <1>8, <1>10, <2>1, <2>3
  <2> QED
    BY <2>2, <2>3
<1>17. periodRows' = [periodRows EXCEPT ![p] = periodRows[p]] /\ periodRows[p] \in TableType
  BY <1>1, JobTyped
<1> HIDE DEF t, range, old, stored
<1> QED
  BY <1>1, <1>3, <1>6, <1>9, <1>10, <1>13, <1>15, <1>16, <1>17, JobChanges

LEMMA JobEndsFits ==
  ASSUME MetricsInv, NEW p \in Periods
  PROVE  /\ IdleJob \in JobType
         /\ JobFits(IdleJob, PeriodRange[p][IdleJob.day], periodSnaps[p][PeriodRange[p][IdleJob.day][1]])
         /\ TableFits(p, IdleJob, periodSnaps[p])
<1>1. IdleJob \in JobType /\ IdleJob.pc = "idle" /\ LatestDayOf(IdleJob) = today
  BY JobTyped, IdleJobTyped DEF JobType, LatestDayOf
<1>2. JobFits(IdleJob, PeriodRange[p][IdleJob.day], periodSnaps[p][PeriodRange[p][IdleJob.day][1]])
  BY <1>1 DEF JobFits
<1>3. Days \subseteq Nat /\ today \in Days /\ job[p].day \in Days
  BY VerifiedMetricsAssumption, MetricsTyped DEF VerifiedMetricsTypeOK
<1>4. LatestDayOf(job[p]) <= today
  BY <1>3, JobTyped DEF LatestDayOf, JobFits
<1>5. LatestDayOf(job[p]) \in Nat /\ today \in Nat
  BY <1>3 DEF LatestDayOf
<1>6. \A day \in Days : day <= LatestDayOf(job[p]) => day <= today
  BY <1>3, <1>4, <1>5
<1>7. TableFits(p, IdleJob, periodSnaps[p])
  BY <1>1, <1>6, JobTyped DEF TableFits
<1> QED
  BY <1>1, <1>2, <1>7

LEMMA JobWritesRowInv == ASSUME MetricsInv, NEW p \in Periods, JobWritesRow(p) PROVE MetricsInv'
<1> DEFINE t == job[p]
           range == RangeOf(p)
           rows == [periodRows[p] EXCEPT ![range[1]] = t.figures]
<1>1. /\ t.pc = "done" /\ job' = [job EXCEPT ![p] = IdleJob]
      /\ periodRows' = [periodRows EXCEPT ![p][range[1]] = t.figures]
      /\ periodSnaps' = periodSnaps /\ JobOnly
  BY DEF JobWritesRow, RangeOf
<1>2. /\ t \in JobType /\ JobFits(t, range, periodSnaps[p][range[1]]) /\ range \in Days \X Days
      /\ periodRows \in [Periods -> TableType] /\ periodRows[p] \in TableType /\ periodSnaps[p] \in TableType
      /\ \A d \in Days : RowFits(periodRows[p][d], periodSnaps[p][d])
  BY JobTyped
<1>3. periodRows' = [periodRows EXCEPT ![p] = rows]
  BY <1>1, <1>2
<1>4. /\ t.figures \in Figures /\ \A m \in MetricKeys : t.figures[m] # Unmeasured
      /\ \A m \in MetricKeys : periodSnaps[p][range[1]][m] = t.figures[m]
  BY <1>1, <1>2 DEF JobType, JobFits
<1>5. rows \in TableType /\ \A d \in Days : rows[d] = IF d = range[1] THEN t.figures ELSE periodRows[p][d]
  BY <1>2, <1>4 DEF TableType
<1> HIDE DEF rows
<1>6. ASSUME NEW d \in Days PROVE RowFits(rows[d], periodSnaps[p][d])
  <2>1. CASE d = range[1]
    <3>1. \A m \in MetricKeys : t.figures[m] \in Nat
      BY <1>4, FiguresTyped
    <3> QED
      BY <1>4, <1>5, <2>1, <3>1 DEF RowFits
  <2>2. CASE d # range[1]
    BY <1>2, <1>5, <2>2
  <2> QED
    BY <2>1, <2>2
<1>7. periodSnaps' = [periodSnaps EXCEPT ![p] = periodSnaps[p]]
  BY <1>1, JobTyped
<1> HIDE DEF t, range
<1> QED
  BY <1>1, <1>2, <1>3, <1>5, <1>6, <1>7, JobEndsFits, JobChanges

LEMMA JobThrowsInv == ASSUME MetricsInv, NEW p \in Periods, JobThrows(p) PROVE MetricsInv'
<1>1. /\ job' = [job EXCEPT ![p] = IdleJob] /\ JobOnly
      /\ periodSnaps' = [periodSnaps EXCEPT ![p] = periodSnaps[p]]
      /\ periodRows' = [periodRows EXCEPT ![p] = periodRows[p]]
  BY JobTyped DEF JobThrows
<1> QED
  BY <1>1, JobTyped, JobEndsFits, JobChanges

LEMMA JobStepInv == ASSUME MetricsInv, NEW p \in Periods, JobStep(p) PROVE MetricsInv'
BY JobStartsInv, JobWritesRowInv, JobThrowsInv, JobMeasuresInv, JobUpsertsInv DEF JobStep

LEMMA MetricsUnchangedInv == MetricsInv /\ UNCHANGED metricVars => MetricsInv'
<1> SUFFICES ASSUME MetricsInv, UNCHANGED metricVars PROVE MetricsInv'
  OBVIOUS
<1>1. VerifiedMetricsTypeOK'
  BY MetricsTyped DEF VerifiedMetricsTypeOK, metricVars
<1>2. today \in Days /\ Days \subseteq Nat /\ \A d \in Days : records[d] \in Nat
  <2>1. /\ today \in Days /\ records \in [Days -> 0..MaxRecords]
    BY MetricsTyped DEF VerifiedMetricsTypeOK
  <2>2. MaxRecords \in Nat /\ Days \subseteq Nat
    BY VerifiedMetricsAssumption
  <2> QED
    BY <2>1, <2>2
<1>3. today <= today' /\ \A d \in Days : records[d] <= records'[d]
  BY <1>2 DEF metricVars
<1> QED
  BY <1>1, <1>3, GrowsInv DEF metricVars

LEMMA MetricsNextInv == MetricsInv /\ [VerifiedMetricsNext]_metricVars => MetricsInv'
BY RecordArrivesInv, NextDayInv, ViewStepInv, JobStepInv, MetricsUnchangedInv DEF VerifiedMetricsNext

LEMMA MetricsInvHolds == VerifiedMetricsSpec => []MetricsInv
<1>1. VerifiedMetricsInit => MetricsInv
  BY MetricsInitInv
<1>2. MetricsInv /\ [VerifiedMetricsNext]_metricVars => MetricsInv'
  BY MetricsNextInv
<1> QED
  BY <1>1, <1>2, PTL DEF VerifiedMetricsSpec

LEMMA MetricsInvAgrees == MetricsInv => VerifiedMetricsTypeOK /\ FiguresAgree
<1> SUFFICES ASSUME MetricsInv PROVE VerifiedMetricsTypeOK /\ FiguresAgree
  OBVIOUS
<1>1. SummaryIsOfItsRange
  BY ViewTyped DEF SummaryIsOfItsRange, ViewFits
<1>2. RowsFollowSnapshots
  BY JobTyped DEF RowsFollowSnapshots, RowFits, TableFits
<1> QED
  BY <1>1, <1>2, MetricsTyped DEF FiguresAgree

(* The figures of a summary are of its own days unless a shorter range was *)
(* stored, and a verified row is never newer than its snapshots, however   *)
(* views and jobs overlap and throw (AnalyticsService.getSummary,          *)
(* AnalyticsAggregationService).                                           *)
THEOREM FiguresDoAgree == VerifiedMetricsSpec => []FiguresAgree
BY MetricsInvHolds, MetricsInvAgrees, PTL

(***************************************************************************)
(* Success metrics                                                         *)
(***************************************************************************)

(* The rows that a rate is of, and those among them that count for it, in  *)
(* a table of subjects.                                                    *)
RatedRows(table, key, since) ==
    {i \in DOMAIN table : table[i].key = key /\ (key = "syncFailureRatePct" => table[i].on >= since)}
SuchOf(table, key, since) == {i \in RatedRows(table, key, since) : table[i].such}
SubjectTable(table) ==
    /\ \E n \in Nat : DOMAIN table = 1..n
    /\ \A i \in DOMAIN table : table[i] \in Subject

(* What a request has counted is bounded by the rows, equal to them unless *)
(* it was overtaken, and what it answers follows from its counts.          *)
RateFits(table, r) ==
    LET rows == Cardinality(RatedRows(table, r.key, r.since)) IN
    /\ r.first = "none" => r.such = NotCounted /\ r.all = NotCounted
    /\ r.first = "such" => r.such # NotCounted
    /\ r.first = "all" => r.all # NotCounted
    /\ r.such # NotCounted => r.such <= rows
    /\ r.all # NotCounted => r.all <= rows
    /\ r.first = "such" /\ r.all # NotCounted => r.such <= r.all
    /\ ~r.overtaken => /\ r.such # NotCounted =>
                              r.such = Cardinality(SuchOf(table, r.key, r.since))
                       /\ r.all # NotCounted => r.all = rows
    /\ r.pc = "count" => r.figure = NotCounted /\ r.verdict = "none"
    /\ r.figure # NotCounted => /\ r.such # NotCounted /\ r.all # NotCounted
                                /\ r.figure = RatePct(r.such, r.all)
    /\ r.verdict \in {"met", "missed"} => /\ r.figure # NotCounted /\ r.target \in TargetTerms
                                          /\ r.verdict = Verdict(r.figure, r.target)

GovernanceInv ==
    /\ GovernanceTypeOK
    /\ SubjectTable(subjects)
    /\ \A o \in Overseers : RateFits(subjects, oversight[o])

LEMMA RowsAreCounted ==
  ASSUME NEW table, SubjectTable(table), NEW key, NEW since
  PROVE  /\ IsFiniteSet(DOMAIN table)
         /\ IsFiniteSet(RatedRows(table, key, since))
         /\ Cardinality(RatedRows(table, key, since)) \in Nat
         /\ Cardinality(SuchOf(table, key, since)) \in Nat
         /\ Cardinality(SuchOf(table, key, since)) <= Cardinality(RatedRows(table, key, since))
<1>1. PICK n \in Nat : DOMAIN table = 1..n
  BY DEF SubjectTable
<1>2. IsFiniteSet(DOMAIN table)
  BY <1>1, FS_Interval
<1>3. RatedRows(table, key, since) \in SUBSET DOMAIN table
  BY DEF RatedRows
<1>4. SuchOf(table, key, since) \in SUBSET RatedRows(table, key, since)
  BY DEF SuchOf
<1>5. IsFiniteSet(RatedRows(table, key, since))
  BY <1>2, <1>3, FS_Subset
<1>6. IsFiniteSet(SuchOf(table, key, since))
  BY <1>4, <1>5, FS_Subset
<1> QED
  BY <1>2, <1>4, <1>5, <1>6, FS_Subset, FS_CardinalityType

LEMMA SizeOfTable ==
  ASSUME NEW table, NEW n \in Nat, DOMAIN table = 1..n
  PROVE  Cardinality(DOMAIN table) = n
  BY FS_Interval

(* Rows that are added or changed take none away.                          *)
LEMMA RowsRemain ==
  ASSUME NEW table, NEW next, SubjectTable(table), SubjectTable(next), NEW key, NEW since,
         \A i \in DOMAIN table : /\ i \in DOMAIN next
                                 /\ next[i].key = table[i].key /\ next[i].on = table[i].on
  PROVE  Cardinality(RatedRows(table, key, since)) <= Cardinality(RatedRows(next, key, since))
<1>1. RatedRows(table, key, since) \in SUBSET RatedRows(next, key, since)
  BY DEF RatedRows
<1> QED
  BY <1>1, RowsAreCounted, FS_Subset

LEMMA RateIsRounded ==
  ASSUME NEW such \in Nat, NEW all \in Nat
  PROVE  /\ RatePct(such, all) \in Nat
         /\ all > 0 => /\ 2 * (all * RatePct(such, all)) <= 20000 * such + all
                       /\ 20000 * such + all < 2 * (all * RatePct(such, all)) + 2 * all
         /\ RatePct(such, all) > 10000 => such > all
<1>1. CASE all = 0
  BY <1>1 DEF RatePct
<1>2. CASE all > 0
  <2> DEFINE q == (20000 * such + all) \div (2 * all)
  <2>1. RatePct(such, all) = q
    BY <1>2 DEF RatePct
  <2>2. 20000 * such + all \in Nat /\ 2 * all \in Nat /\ 2 * all > 0
    BY <1>2
  <2>3. \A a, b \in Nat : b > 0 => /\ a \div b \in Nat /\ b * (a \div b) <= a
                                   /\ a < b * (a \div b) + b
    OBVIOUS
  <2>4. q \in Nat /\ (2 * all) * q <= 20000 * such + all /\ 20000 * such + all < (2 * all) * q + 2 * all
    BY <2>2, <2>3
  <2> HIDE DEF q
  <2>5. (2 * all) * q = 2 * (all * q)
    BY <2>4
  <2>6. ASSUME q > 10000 PROVE such > all
    <3>1. all * q >= all * 10001
      BY <2>4, <2>6
    <3> QED
      BY <3>1, <2>4, <2>5, <1>2
  <2> QED
    BY <2>1, <2>4, <2>5, <2>6
<1> QED
  BY <1>1, <1>2
LEMMA NoRequestFits == ASSUME NEW table PROVE NoOversight \in Oversight /\ RateFits(table, NoOversight)
<1>1. NoOversight \in Oversight
  BY GovernanceAssumption DEF NoOversight, Oversight, TargetKey, Tally
<1> QED
  BY <1>1 DEF RateFits, NoOversight

LEMMA GovernanceInitInv == GovernanceInit => GovernanceInv
<1> SUFFICES ASSUME GovernanceInit PROVE GovernanceInv
  OBVIOUS
<1>1. DOMAIN subjects = 1..0
  BY DEF GovernanceInit
<1>2. SubjectTable(subjects) /\ Cardinality(DOMAIN subjects) = 0
  BY <1>1, SizeOfTable DEF SubjectTable
<1>3. GovernanceTypeOK
  BY <1>1, <1>2, NoRequestFits, GovernanceAssumption DEF GovernanceTypeOK, GovernanceInit
<1> QED
  BY <1>2, <1>3, NoRequestFits DEF GovernanceInv, GovernanceInit

(* A row is written: what was counted of rows like it is overtaken.        *)
LEMMA OvertakenFits ==
  ASSUME NEW next, SubjectTable(subjects), SubjectTable(next), NEW key \in RateKey,
         \A i \in DOMAIN subjects : /\ i \in DOMAIN next
                                    /\ next[i].key = subjects[i].key /\ next[i].on = subjects[i].on,
         \A i \in DOMAIN next : next[i].key # key => i \in DOMAIN subjects /\ next[i] = subjects[i],
         \A i \in DOMAIN subjects : subjects[i].key # key => next[i] = subjects[i],
         NEW r \in Oversight, NEW s \in Oversight, RateFits(subjects, r),
         s = [r EXCEPT !.overtaken = @ \/ (r.key = key /\ r.first # "none")]
  PROVE  RateFits(next, s)
<1>1. Cardinality(RatedRows(subjects, r.key, r.since)) <= Cardinality(RatedRows(next, r.key, r.since))
  BY RowsRemain
<1>2. /\ Cardinality(RatedRows(subjects, r.key, r.since)) \in Nat
      /\ Cardinality(RatedRows(next, r.key, r.since)) \in Nat
  BY RowsAreCounted
<1>3. /\ s.key = r.key /\ s.since = r.since /\ s.first = r.first /\ s.such = r.such /\ s.all = r.all
      /\ s.figure = r.figure /\ s.verdict = r.verdict /\ s.pc = r.pc /\ s.target = r.target
  BY DEF Oversight
<1>4. s.overtaken <=> r.overtaken \/ (r.key = key /\ r.first # "none")
  BY DEF Oversight
<1>5. r.such \in Tally /\ r.all \in Tally /\ r.first \in {"none", "such", "all"}
  BY DEF Oversight
<1>6. ASSUME ~s.overtaken, r.such # NotCounted \/ r.all # NotCounted
      PROVE  /\ RatedRows(next, r.key, r.since) = RatedRows(subjects, r.key, r.since)
             /\ SuchOf(next, r.key, r.since) = SuchOf(subjects, r.key, r.since)
  <2>1. r.key # key
    BY <1>4, <1>6 DEF RateFits
  <2>2. RatedRows(next, r.key, r.since) = RatedRows(subjects, r.key, r.since)
    BY <2>1 DEF RatedRows
  <2>3. \A i \in RatedRows(subjects, r.key, r.since) : next[i] = subjects[i]
    BY <2>1 DEF RatedRows
  <2> QED
    BY <2>2, <2>3 DEF SuchOf
<1>7. ~s.overtaken => ~r.overtaken
  BY <1>4
<1> HIDE DEF RatedRows, SuchOf
<1> QED
  BY <1>1, <1>2, <1>3, <1>5, <1>6, <1>7 DEF RateFits, Tally

LEMMA OvertakeInv ==
  ASSUME GovernanceInv, NEW key \in RateKey, Overtake(key), SubjectTable(subjects'),
         \A i \in DOMAIN subjects : /\ i \in DOMAIN subjects'
                                    /\ subjects'[i].key = subjects[i].key
                                    /\ subjects'[i].on = subjects[i].on,
         \A i \in DOMAIN subjects' : subjects'[i].key # key =>
             i \in DOMAIN subjects /\ subjects'[i] = subjects[i],
         UNCHANGED <<reviewWeek, targets>>
  PROVE  GovernanceInv'
<1>1. oversight \in [Overseers -> Oversight]
  BY DEF GovernanceInv, GovernanceTypeOK
<1>2. ASSUME NEW o \in Overseers
      PROVE  oversight'[o] = [oversight[o] EXCEPT
                 !.overtaken = @ \/ (oversight[o].key = key /\ oversight[o].first # "none")]
  BY DEF Overtake
<1>3. ASSUME NEW o \in Overseers PROVE oversight'[o] \in Oversight
  <2>1. oversight[o] \in Oversight /\ oversight[o].overtaken \in BOOLEAN
    BY <1>1 DEF Oversight
  <2>2. (oversight[o].overtaken \/ (oversight[o].key = key /\ oversight[o].first # "none")) \in BOOLEAN
    OBVIOUS
  <2> QED
    BY <1>2, <2>1, <2>2 DEF Oversight
<1>4. oversight' \in [Overseers -> Oversight]
  BY <1>3 DEF Overtake
<1>5. \A i \in DOMAIN subjects : subjects[i].key # key => subjects'[i] = subjects[i]
  OBVIOUS
<1>6. ASSUME NEW o \in Overseers PROVE RateFits(subjects', oversight'[o])
  BY <1>1, <1>2, <1>3, <1>5, OvertakenFits DEF GovernanceInv
<1>7. DOMAIN subjects' = 1..Cardinality(DOMAIN subjects')
  BY SizeOfTable DEF SubjectTable
<1>8. \A i \in DOMAIN subjects' : subjects'[i] \in Subject
  BY DEF SubjectTable
<1> QED
  BY <1>4, <1>6, <1>7, <1>8 DEF GovernanceInv, GovernanceTypeOK

LEMMA AddSubjectInv ==
  ASSUME GovernanceInv, NEW key \in RateKey, AddSubject(key) PROVE GovernanceInv'
<1>1. PICK n \in Nat : DOMAIN subjects = 1..n
  BY DEF GovernanceInv, SubjectTable
<1>2. Cardinality(DOMAIN subjects) = n
  BY <1>1, SizeOfTable
<1>3. PICK such \in BOOLEAN :
          subjects' = [i \in 1..(n + 1) |->
                           IF i \in DOMAIN subjects THEN subjects[i]
                           ELSE [key |-> key, such |-> such, on |-> reviewWeek]]
  BY <1>2 DEF AddSubject
<1>4. /\ reviewWeek \in 0..LastReviewWeek
      /\ \A i \in DOMAIN subjects : subjects[i] \in Subject
  BY DEF GovernanceInv, GovernanceTypeOK
<1>5. [key |-> key, such |-> such, on |-> reviewWeek] \in Subject
  BY <1>4 DEF Subject
<1>6. DOMAIN subjects' = 1..(n + 1) /\ n + 1 \in Nat
  BY <1>3
<1>7. \A i \in 1..(n + 1) : subjects'[i] \in Subject
  BY <1>3, <1>4, <1>5
<1>8. SubjectTable(subjects')
  BY <1>6, <1>7 DEF SubjectTable
<1>9. \A i \in DOMAIN subjects : i \in DOMAIN subjects' /\ subjects'[i] = subjects[i]
  BY <1>1, <1>3
<1>10. \A i \in DOMAIN subjects' : subjects'[i].key # key => i \in DOMAIN subjects
  BY <1>3
<1> QED
  BY <1>8, <1>9, <1>10, OvertakeInv DEF AddSubject

LEMMA ChangeSubjectInv ==
  ASSUME GovernanceInv, NEW key \in RateKey, ChangeSubject(key) PROVE GovernanceInv'
<1>1. PICK n \in Nat : DOMAIN subjects = 1..n
  BY DEF GovernanceInv, SubjectTable
<1>2. PICK i \in DOMAIN subjects : /\ subjects[i].key = key
                                   /\ subjects' = [subjects EXCEPT ![i].such = ~@]
  BY DEF ChangeSubject
<1>3. \A j \in DOMAIN subjects : subjects[j] \in Subject
  BY DEF GovernanceInv, GovernanceTypeOK
<1>4. DOMAIN subjects' = DOMAIN subjects
  BY <1>2
<1>5. /\ \A j \in DOMAIN subjects : j # i => subjects'[j] = subjects[j]
      /\ subjects'[i] = [subjects[i] EXCEPT !.such = ~@]
  BY <1>2
<1>6. subjects'[i] \in Subject /\ subjects'[i].key = key /\ subjects'[i].on = subjects[i].on
  BY <1>2, <1>3, <1>5 DEF Subject
<1>7. SubjectTable(subjects')
  BY <1>1, <1>3, <1>4, <1>5, <1>6 DEF SubjectTable
<1> QED
  BY <1>2, <1>4, <1>5, <1>6, <1>7, OvertakeInv DEF ChangeSubject

(* A request goes on, and no row is written.                               *)
LEMMA OversightGoesInv ==
  ASSUME GovernanceInv, NEW o \in Overseers, NEW r \in Oversight, OversightGoes(o, r),
         RateFits(subjects, r)
  PROVE  GovernanceInv'
<1>1. oversight' = [oversight EXCEPT ![o] = r] /\ subjects' = subjects
      /\ UNCHANGED <<reviewWeek, targets>>
  BY DEF OversightGoes
<1>2. oversight \in [Overseers -> Oversight]
  BY DEF GovernanceInv, GovernanceTypeOK
<1>3. oversight' \in [Overseers -> Oversight]
  BY <1>1, <1>2
<1>4. \A p \in Overseers : RateFits(subjects', oversight'[p])
  BY <1>1, <1>2 DEF GovernanceInv
<1> QED
  BY <1>1, <1>3, <1>4 DEF GovernanceInv, GovernanceTypeOK

LEMMA CountsAreOfRows ==
  ASSUME NEW key, NEW since
  PROVE  /\ CountAll(key, since) = Cardinality(RatedRows(subjects, key, since))
         /\ CountSuch(key, since) = Cardinality(SuchOf(subjects, key, since))
<1>1. {i \in DOMAIN subjects : subjects[i].key = key /\ InWindow(i, since)} = RatedRows(subjects, key, since)
  BY DEF InWindow, RatedRows
<1>2. {i \in DOMAIN subjects : /\ subjects[i].key = key /\ subjects[i].such
                               /\ InWindow(i, since)} = SuchOf(subjects, key, since)
  BY DEF InWindow, RatedRows, SuchOf
<1> QED
  BY <1>1, <1>2 DEF CountAll, CountSuch

LEMMA RequestStepInv ==
  ASSUME GovernanceInv, NEW o \in Overseers,
         \/ AskSuccessMetrics(o) \/ QuerySuch(o) \/ QueryAll(o)
         \/ Compute(o) \/ ReadTargets(o) \/ OversightFails(o)
  PROVE  GovernanceInv'
<1> DEFINE r == oversight[o]
           rows == Cardinality(RatedRows(subjects, r.key, r.since))
           such == Cardinality(SuchOf(subjects, r.key, r.since))
<1>1. r \in Oversight /\ RateFits(subjects, r) /\ reviewWeek \in 0..LastReviewWeek
      /\ targets \in [TargetKey -> TargetTerms \cup {NoTarget}]
  BY DEF GovernanceInv, GovernanceTypeOK
<1>2. rows \in Nat /\ such \in Nat /\ such <= rows
  BY RowsAreCounted DEF GovernanceInv
<1>3. CountAll(r.key, r.since) = rows /\ CountSuch(r.key, r.since) = such
  BY CountsAreOfRows
<1>4. NotCounted \notin Nat
  BY GovernanceAssumption
<1>5. r.such \in Tally /\ r.all \in Tally /\ r.figure \in Tally /\ r.key \in TargetKey
      /\ r.first \in {"none", "such", "all"}
  BY <1>1 DEF Oversight
<1>6. ASSUME AskSuccessMetrics(o) PROVE GovernanceInv'
  <2>1. PICK k \in TargetKey :
            OversightGoes(o, [NoOversight EXCEPT !.pc = IF k \in RateKey THEN "count" ELSE "judge",
                                                 !.key = k, !.since = reviewWeek])
    BY <1>6 DEF AskSuccessMetrics
  <2> DEFINE s == [NoOversight EXCEPT !.pc = IF k \in RateKey THEN "count" ELSE "judge",
                                      !.key = k, !.since = reviewWeek]
  <2>2. s \in Oversight
    BY <1>1, NoRequestFits DEF Oversight
  <2>3. /\ s.first = "none" /\ s.such = NotCounted /\ s.all = NotCounted
        /\ s.figure = NotCounted /\ s.verdict = "none"
    BY DEF NoOversight
  <2> HIDE DEF s
  <2>4. RateFits(subjects, s)
    BY <2>3 DEF RateFits
  <2> QED
    BY <2>1, <2>2, <2>4, OversightGoesInv DEF s
<1>7. ASSUME QuerySuch(o) PROVE GovernanceInv'
  <2> DEFINE s == [r EXCEPT !.such = CountSuch(r.key, r.since), !.first = First(o, "such")]
  <2>1. r.pc = "count" /\ r.such = NotCounted /\ OversightGoes(o, s)
    BY <1>7 DEF QuerySuch
  <2>2. s \in Oversight
    BY <1>1, <1>2, <1>3 DEF Oversight, First, Tally
  <2>3. /\ s.such = such /\ s.first = (IF r.first = "none" THEN "such" ELSE r.first)
        /\ s.all = r.all /\ s.figure = r.figure /\ s.verdict = r.verdict /\ s.pc = r.pc
        /\ s.key = r.key /\ s.since = r.since /\ s.overtaken = r.overtaken
    BY <1>1, <1>3 DEF Oversight, First
  <2> HIDE DEF s
  <2>4. RateFits(subjects, s)
    BY <1>1, <1>2, <1>4, <1>5, <2>1, <2>3 DEF RateFits, Tally
  <2> QED
    BY <2>1, <2>2, <2>4, OversightGoesInv
<1>8. ASSUME QueryAll(o) PROVE GovernanceInv'
  <2> DEFINE s == [r EXCEPT !.all = CountAll(r.key, r.since), !.first = First(o, "all")]
  <2>1. r.pc = "count" /\ r.all = NotCounted /\ OversightGoes(o, s)
    BY <1>8 DEF QueryAll
  <2>2. s \in Oversight
    BY <1>1, <1>2, <1>3 DEF Oversight, First, Tally
  <2>3. /\ s.all = rows /\ s.first = (IF r.first = "none" THEN "all" ELSE r.first)
        /\ s.such = r.such /\ s.figure = r.figure /\ s.verdict = r.verdict /\ s.pc = r.pc
        /\ s.key = r.key /\ s.since = r.since /\ s.overtaken = r.overtaken
    BY <1>1, <1>3 DEF Oversight, First
  <2> HIDE DEF s
  <2>4. RateFits(subjects, s)
    BY <1>1, <1>2, <1>4, <1>5, <2>1, <2>3 DEF RateFits, Tally
  <2> QED
    BY <2>1, <2>2, <2>4, OversightGoesInv
<1>9. ASSUME Compute(o) PROVE GovernanceInv'
  <2> DEFINE s == [r EXCEPT !.pc = "judge", !.figure = RatePct(r.such, r.all)]
  <2>1. r.pc = "count" /\ r.such # NotCounted /\ r.all # NotCounted /\ OversightGoes(o, s)
    BY <1>9 DEF Compute
  <2>2. r.such \in Nat /\ r.all \in Nat
    BY <1>5, <2>1 DEF Tally
  <2>3. RatePct(r.such, r.all) \in Nat
    <3>1. \A a, b \in Nat : RatePct(a, b) \in Nat
      BY RateIsRounded
    <3> QED
      BY <2>2, <3>1
  <2>4. s \in Oversight
    BY <1>1, <2>3 DEF Oversight, Tally
  <2>5. /\ s.pc = "judge" /\ s.figure = RatePct(r.such, r.all)
        /\ s.all = r.all /\ s.such = r.such /\ s.verdict = r.verdict /\ s.first = r.first
        /\ s.key = r.key /\ s.since = r.since /\ s.overtaken = r.overtaken
    BY <1>1 DEF Oversight
  <2> HIDE DEF s
  <2>6. RateFits(subjects, s)
    BY <1>1, <2>1, <2>5 DEF RateFits
  <2> QED
    BY <2>1, <2>4, <2>6, OversightGoesInv
<1>10. ASSUME ReadTargets(o) PROVE GovernanceInv'
  <2> DEFINE t == targets[r.key]
             v == IF t = NoTarget THEN "none" ELSE Verdict(r.figure, t)
             s == [r EXCEPT !.pc = "answered", !.target = t, !.verdict = v]
  <2>1. r.pc = "judge" /\ OversightGoes(o, s)
    BY <1>10 DEF ReadTargets
  <2>2. t \in TargetTerms \cup {NoTarget}
    BY <1>1, <1>5
  <2>3. v \in {"none", "null", "met", "missed"}
    BY DEF Verdict
  <2>4. s \in Oversight
    BY <1>1, <2>2, <2>3 DEF Oversight
  <2>5. /\ s.pc = "answered" /\ s.figure = r.figure /\ s.target = t /\ s.verdict = v
        /\ s.all = r.all /\ s.such = r.such /\ s.first = r.first
        /\ s.key = r.key /\ s.since = r.since /\ s.overtaken = r.overtaken
    BY <1>1 DEF Oversight
  <2>6. v \in {"met", "missed"} => /\ r.figure # NotCounted /\ t \in TargetTerms
                                   /\ v = Verdict(r.figure, t)
    BY <2>2 DEF Verdict
  <2> HIDE DEF s, t, v
  <2>7. RateFits(subjects, s)
    BY <1>1, <2>5, <2>6 DEF RateFits
  <2> QED
    BY <2>1, <2>4, <2>7, OversightGoesInv
<1>11. ASSUME OversightFails(o) PROVE GovernanceInv'
  BY <1>11, NoRequestFits, OversightGoesInv DEF OversightFails
<1> QED
  BY <1>6, <1>7, <1>8, <1>9, <1>10, <1>11

LEMMA GovernanceStepInv ==
  ASSUME GovernanceInv, NEW what, GovernanceStep(what) PROVE GovernanceInv'
<1>1. CASE what \in RateKey /\ (AddSubject(what) \/ ChangeSubject(what))
  BY <1>1, AddSubjectInv, ChangeSubjectInv
<1>2. CASE NextReviewWeek
  <2>1. reviewWeek' \in 0..LastReviewWeek
    BY <1>2, GovernanceAssumption DEF NextReviewWeek, GovernanceInv, GovernanceTypeOK
  <2> QED
    BY <1>2, <2>1 DEF NextReviewWeek, GovernanceInv, GovernanceTypeOK
<1>3. CASE \E k \in TargetKeys : SetTarget(k)
  BY <1>3, GovernanceAssumption DEF SetTarget, GovernanceInv, GovernanceTypeOK
<1>4. CASE what \in Overseers /\ (\/ AskSuccessMetrics(what) \/ QuerySuch(what) \/ QueryAll(what)
                                  \/ Compute(what) \/ ReadTargets(what) \/ OversightFails(what))
  BY <1>4, RequestStepInv
<1> QED
  BY <1>1, <1>2, <1>3, <1>4 DEF GovernanceStep

LEMMA GovernanceUnchanged == GovernanceInv /\ UNCHANGED governanceVars => GovernanceInv'
  BY DEF GovernanceInv, GovernanceTypeOK, governanceVars

LEMMA GovernanceInvRates == GovernanceInv => SuccessMetricsAreRates
<1> SUFFICES ASSUME GovernanceInv PROVE SuccessMetricsAreRates
  OBVIOUS
<1>1. ASSUME NEW o \in Overseers
      PROVE  LET r == oversight[o] IN
             /\ RowsAsked(r) = RatedRows(subjects, r.key, r.since)
             /\ {i \in RowsAsked(r) : subjects[i].such} = SuchOf(subjects, r.key, r.since)
             /\ r \in Oversight /\ RateFits(subjects, r)
  <2>1. RowsAsked(oversight[o]) = RatedRows(subjects, oversight[o].key, oversight[o].since)
    BY DEF RowsAsked, RatedRows
  <2> QED
    BY <2>1 DEF SuchOf, GovernanceInv, GovernanceTypeOK
<1>2. OverHundredOnlyIfOvertaken
  <2> SUFFICES ASSUME NEW o \in Overseers, oversight[o].figure # NotCounted, oversight[o].figure > 10000
               PROVE  /\ oversight[o].first = "all"
                      /\ Cardinality(RowsAsked(oversight[o])) > oversight[o].all
    BY DEF OverHundredOnlyIfOvertaken
  <2> DEFINE r == oversight[o]
             rows == Cardinality(RatedRows(subjects, r.key, r.since))
  <2>1. /\ r \in Oversight /\ RateFits(subjects, r) /\ Cardinality(RowsAsked(r)) = rows
    BY <1>1
  <2>2. rows \in Nat
    BY RowsAreCounted DEF GovernanceInv
  <2>3. r.such \in Nat /\ r.all \in Nat /\ r.figure = RatePct(r.such, r.all)
        /\ r.such # NotCounted /\ r.all # NotCounted
    BY <2>1 DEF RateFits, Oversight, Tally
  <2>4. r.such > r.all
    <3>1. \A a, b \in Nat : RatePct(a, b) > 10000 => a > b
      BY RateIsRounded
    <3> QED
      BY <2>3, <3>1
  <2>5. r.such <= rows
    BY <2>1, <2>3 DEF RateFits
  <2>6. r.first \in {"none", "such", "all"} /\ r.first # "none" /\ (r.first = "such" => r.such <= r.all)
    BY <2>1, <2>3 DEF RateFits, Oversight
  <2>7. r.first = "all"
    BY <2>3, <2>4, <2>6
  <2> QED
    BY <2>1, <2>2, <2>3, <2>4, <2>5, <2>7
<1>3. VerdictsFitTheRows
  <2> SUFFICES ASSUME NEW o \in Overseers,
                      oversight[o].verdict \in {"met", "missed"}, ~oversight[o].overtaken,
                      RowsAsked(oversight[o]) # {}
               PROVE  LET r == oversight[o]
                          rows == RowsAsked(r)
                          such == Cardinality({i \in rows : subjects[i].such})
                          margin == 20000 * such - 2 * r.target.value * Cardinality(rows)
                          least == IF r.target.operator = "gte" THEN margin ELSE -margin
                      IN  IF r.verdict = "met" THEN least >= -Cardinality(rows)
                          ELSE least <= Cardinality(rows)
    BY DEF VerdictsFitTheRows
  <2> DEFINE r == oversight[o]
             n == Cardinality(RowsAsked(r))
             such == Cardinality({i \in RowsAsked(r) : subjects[i].such})
             q == r.figure
             v == r.target.value
  <2>1. r \in Oversight /\ RateFits(subjects, r)
    BY <1>1
  <2>2. n = Cardinality(RatedRows(subjects, r.key, r.since))
        /\ such = Cardinality(SuchOf(subjects, r.key, r.since))
    BY <1>1
  <2>3. n \in Nat /\ such \in Nat /\ n > 0
    <3>1. n \in Nat /\ such \in Nat /\ IsFiniteSet(RowsAsked(r))
      BY <1>1, <2>2, RowsAreCounted DEF GovernanceInv
    <3>2. n # 0
      BY <3>1, FS_EmptySet
    <3> QED
      BY <3>1, <3>2
  <2>4. q # NotCounted /\ r.target \in TargetTerms /\ r.verdict = Verdict(q, r.target)
        /\ r.such = such /\ r.all = n /\ q = RatePct(such, n)
    BY <2>1, <2>2 DEF RateFits
  <2> HIDE DEF n, such, q, v
  <2>5. r.target.operator \in {"gte", "lte"} /\ v \in Nat
    BY <2>4, GovernanceAssumption DEF v
  <2>6. q \in Nat /\ 2 * (n * q) <= 20000 * such + n /\ 20000 * such + n < 2 * (n * q) + 2 * n
    BY <2>3, <2>4, RateIsRounded
  <2>7. IF r.verdict = "met"
        THEN IF r.target.operator = "gte" THEN q >= v ELSE q <= v
        ELSE IF r.target.operator = "gte" THEN q < v ELSE q > v
    BY <2>4, <2>5, <2>6 DEF Verdict, v
  <2>8. n * q \in Nat /\ n * v \in Nat
    BY <2>3, <2>5, <2>6
  <2>9. /\ q >= v => n * q >= n * v
        /\ q < v => n * v >= n * q + n
        /\ q > v => n * q >= n * v + n
        /\ q <= v => n * q <= n * v
    BY <2>3, <2>5, <2>6
  <2>10. 2 * v * n = 2 * (n * v)
    BY <2>3, <2>5
  <2>11. LET margin == 20000 * such - 2 * (n * v)
             least == IF r.target.operator = "gte" THEN margin ELSE -margin
         IN  IF r.verdict = "met" THEN least >= -n ELSE least <= n
    BY <2>3, <2>5, <2>6, <2>7, <2>8, <2>9
  <2> QED
    BY <2>10, <2>11 DEF n, such, v
<1> QED
  BY <1>2, <1>3 DEF SuccessMetricsAreRates
(***************************************************************************)
(* Anomalies                                                               *)
(***************************************************************************)

(* An anomaly is of a day there is and has a week of its lookback before it.*)
OfAWeek(a) == a.key \in DOMAIN daily /\ Cardinality(DaysLookedBack(a)) >= 7

(* What is written of the days and of what a scan found of them.           *)
InsightsInv ==
    /\ InsightsTypeOK
    /\ DOMAIN daily \subseteq Nat
    /\ \A e \in quality : e.at \in Nat
    /\ \A r \in Scans : \A a \in scanning[r] : OfAWeek(a)
    /\ OneEventPerLookback

LEMMA LatestOfDays ==
  ASSUME NEW S \in SUBSET Nat, S # {}, NEW n \in Nat, \A s \in S : s <= n
  PROVE  Max(S) \in S /\ \A y \in S : y <= Max(S)
<1> DEFINE T == {n - s : s \in S}
<1>1. \A s \in S : s \in Nat /\ n - s \in Nat
  OBVIOUS
<1>2. T \in SUBSET Nat /\ T # {}
  BY <1>1, Zenon
<1>3. PICK x \in T : \A y \in T : x <= y
  BY <1>2, LeastOfNaturals
<1>4. PICK s \in S : x = n - s
  OBVIOUS
<1>5. \A t \in S : n - t \in T
  OBVIOUS
<1>6. \A t \in S : t <= s
  BY <1>1, <1>3, <1>4, <1>5
<1>7. \E u \in S : \A y \in S : u >= y
  BY <1>1, <1>6
<1>8. Max(S) \in S /\ \A y \in S : Max(S) >= y
  BY <1>7 DEF Max
<1> QED
  BY <1>1, <1>8

LEMMA DaysHaveHours == ASSUME NEW n \in Nat PROVE 24 * (n \div 24) <= n /\ n \div 24 \in Nat
  OBVIOUS

LEMMA DaysPass ==
  ASSUME NEW m \in Nat, NEW n \in Nat, m <= n
  PROVE  /\ m \div 24 \in Nat /\ m \div 24 <= n \div 24
         /\ (24 * m) \div 24 = m
  OBVIOUS

(* The days there are: all of them written by now.                         *)
LEMMA DaysAreWritten ==
  ASSUME InsightsInv
  PROVE  /\ hour \in Nat /\ hour \in 0..MaxHours /\ ThisDay \in Nat
         /\ IsFiniteSet(DOMAIN daily)
         /\ \A d \in DOMAIN daily : d \in Nat /\ d <= ThisDay
<1>1. hour \in 0..MaxHours /\ MaxHours \in Nat
  BY InsightsAssumption DEF InsightsInv, InsightsTypeOK
<1>2. hour \in Nat
  BY <1>1
<1>3. ThisDay \in Nat
  BY <1>2, DaysPass DEF ThisDay
<1>4. \A d \in DOMAIN daily : d \in Nat /\ d <= ThisDay
  BY DEF InsightsInv, InsightsTypeOK
<1>5. IsFiniteSet(DOMAIN daily)
  BY <1>3, <1>4, FS_BoundedSetOfNaturals
<1> QED
  BY <1>1, <1>2, <1>3, <1>4, <1>5

LEMMA InsightsInitInv == InsightsInit => InsightsInv
<1> SUFFICES ASSUME InsightsInit PROVE InsightsInv
  OBVIOUS
<1> DEFINE S == DOMAIN daily \cup {0}
           m == Max(S)
<1>1. /\ daily \in DailyHistories /\ hour = 24 * m /\ quality = {}
      /\ lastSync = [s \in Sources |-> NoSync] /\ scanning = [r \in Scans |-> {}]
  BY DEF InsightsInit
<1>2. \A d \in DOMAIN daily : d \in Nat /\ 24 * d <= MaxHours /\ DOMAIN daily[d] = DailyMetricKeys
  BY <1>1, InsightsAssumption DEF IsDailyRow
<1>3. MaxHours \in Nat
  BY InsightsAssumption DEF IsDailyRow
<1>4. S \in SUBSET Nat /\ S # {} /\ \A s \in S : s <= MaxHours /\ 24 * s <= MaxHours
  BY <1>2, <1>3
<1>5. m \in S /\ \A y \in S : y <= m
  BY <1>3, <1>4, LatestOfDays
<1> HIDE DEF m
<1>6. m \in Nat /\ 24 * m <= MaxHours /\ \A d \in DOMAIN daily : d <= m
  BY <1>4, <1>5
<1>7. hour \in 0..MaxHours /\ ThisDay = m
  BY <1>1, <1>3, <1>6, DaysPass DEF ThisDay
<1> QED
  BY <1>1, <1>2, <1>6, <1>7 DEF InsightsInv, InsightsTypeOK, OneEventPerLookback

(* An anomaly is of the last day there is, of seven or more before it, and *)
(* no earlier ones are read than were asked for.                           *)
LEMMA AnomaliesAreOfTheLast ==
  ASSUME InsightsInv, NEW lookback \in Lookbacks, Points(lookback) # {},
         NEW a \in Anomalies(Points(lookback), lookback)
  PROVE  a \in Anomaly /\ OfAWeek(a)
<1> DEFINE days == Points(lookback)
           latest == Max(days)
           historical == days \ {latest}
<1>1. /\ IsFiniteSet(DOMAIN daily) /\ \A d \in DOMAIN daily : d \in Nat /\ d <= ThisDay
      /\ ThisDay \in Nat /\ hour \in Nat
  BY DaysAreWritten
<1>2. days \in SUBSET DOMAIN daily /\ \A d \in days : 24 * d >= hour - 24 * lookback
  BY DEF Points
<1>3. latest \in days /\ \A d \in days : d <= latest
  BY <1>1, <1>2, LatestOfDays
<1> HIDE DEF latest
<1>4. /\ ~(Cardinality(historical) < 7)
      /\ a.key = latest /\ a.lookback = lookback /\ a.code \in DailyMetricKeys
      /\ a.severity \in Severity
      /\ a = [code |-> a.code, key |-> latest, lookback |-> lookback, severity |-> a.severity]
  BY DEF Anomalies, latest, Severity
<1>5. lookback \in Nat
  BY InsightsAssumption
<1>6. ASSUME NEW d \in historical PROVE d \in DOMAIN daily /\ d < latest /\ d + lookback >= latest
  <2>1. d \in Nat /\ latest \in Nat /\ d <= latest /\ d # latest
    BY <1>1, <1>2, <1>3
  <2>2. 24 * d >= hour - 24 * lookback /\ latest <= hour \div 24
    BY <1>1, <1>2, <1>3 DEF ThisDay
  <2>3. 24 * (hour \div 24) <= hour /\ hour \div 24 \in Nat
    BY <1>1, DaysHaveHours
  <2>4. 24 * latest <= hour
    BY <1>1, <2>1, <2>2, <2>3
  <2>5. d + lookback >= latest
    BY <1>1, <1>5, <2>1, <2>2, <2>4
  <2> QED
    BY <1>2, <2>1, <2>5
<1>7. historical \in SUBSET DaysLookedBack(a)
  BY <1>4, <1>6 DEF DaysLookedBack
<1>8. IsFiniteSet(DaysLookedBack(a))
  BY <1>1, FS_Subset DEF DaysLookedBack
<1>9. /\ Cardinality(historical) \in Nat /\ Cardinality(DaysLookedBack(a)) \in Nat
      /\ Cardinality(historical) <= Cardinality(DaysLookedBack(a))
  BY <1>7, <1>8, FS_Subset, FS_CardinalityType
<1>10. Cardinality(DaysLookedBack(a)) >= 7
  BY <1>4, <1>9
<1>11. a \in Anomaly
  BY <1>1, <1>2, <1>3, <1>4 DEF Anomaly
<1> QED
  BY <1>2, <1>3, <1>4, <1>10, <1>11 DEF OfAWeek

(* Whatever is written, no day is taken away.                              *)
LEMMA DaysRemain ==
  ASSUME InsightsInv, IsFiniteSet(DOMAIN daily'), DOMAIN daily \subseteq DOMAIN daily', NEW a, OfAWeek(a)
  PROVE  OfAWeek(a)'
<1> DEFINE now == {d \in DOMAIN daily : d < a.key /\ d + a.lookback >= a.key}
           then == {d \in DOMAIN daily' : d < a.key /\ d + a.lookback >= a.key}
<1>1. now \in SUBSET then
  OBVIOUS
<1>2. IsFiniteSet(then)
  BY FS_Subset
<1>3. Cardinality(now) \in Nat /\ Cardinality(then) \in Nat /\ Cardinality(now) <= Cardinality(then)
  BY <1>1, <1>2, FS_Subset, FS_CardinalityType
<1>4. now = DaysLookedBack(a) /\ then = DaysLookedBack(a)'
  BY DEF DaysLookedBack
<1> HIDE DEF now, then
<1> QED
  BY <1>3, <1>4 DEF OfAWeek

LEMMA PassInv == ASSUME InsightsInv, NEW hours \in Nat, Pass(hours) PROVE InsightsInv'
<1>1. hour' = hour + hours /\ hour + hours <= MaxHours /\ UNCHANGED <<daily, quality, lastSync, scanning>>
  BY DEF Pass
<1>2. hour \in Nat /\ MaxHours \in Nat /\ \A d \in DOMAIN daily : d \in Nat /\ d <= ThisDay
  BY DaysAreWritten, InsightsAssumption
<1>3. hour' \in 0..MaxHours /\ hour <= hour' /\ hour' \in Nat
  BY <1>1, <1>2
<1>4. ThisDay \in Nat /\ ThisDay' \in Nat /\ ThisDay <= ThisDay'
  <2>1. hour \div 24 \in Nat /\ hour \div 24 <= hour' \div 24
    BY <1>2, <1>3, DaysPass
  <2>2. hour' \div 24 \in Nat
    <3>1. \A n \in Nat : n \div 24 \in Nat
      OBVIOUS
    <3> QED
      BY <1>3, <3>1
  <2> QED
    BY <2>1, <2>2 DEF ThisDay
<1>5. \A d \in DOMAIN daily : d <= ThisDay'
  BY <1>2, <1>4
<1>6. \A e \in quality : e.at <= hour'
  BY <1>2, <1>3 DEF InsightsInv, InsightsTypeOK
<1>7. OneEventPerLookback' /\ \A r \in Scans : \A a \in scanning'[r] : OfAWeek(a)'
  BY <1>1 DEF OneEventPerLookback, InsightsInv, OfAWeek, DaysLookedBack
<1> QED
  BY <1>1, <1>3, <1>5, <1>6, <1>7 DEF InsightsInv, InsightsTypeOK

LEMMA WriteDailyInv == ASSUME InsightsInv, WriteDaily PROVE InsightsInv'
<1>1. PICK row \in DailyRows :
          daily' = [d \in DOMAIN daily \cup {ThisDay} |-> IF d = ThisDay THEN row ELSE daily[d]]
  BY DEF WriteDaily
<1>2. UNCHANGED <<hour, quality, lastSync, scanning>> /\ ThisDay' = ThisDay
  BY DEF WriteDaily, ThisDay
<1>3. DOMAIN row = DailyMetricKeys
  BY InsightsAssumption DEF IsDailyRow
<1>4. DOMAIN daily' = DOMAIN daily \cup {ThisDay}
  BY <1>1
<1>5. \A d \in DOMAIN daily' : /\ d \in Nat /\ d <= ThisDay
                               /\ DOMAIN daily'[d] = DailyMetricKeys
  BY <1>1, <1>3, <1>4, DaysAreWritten DEF InsightsInv, InsightsTypeOK
<1>6. IsFiniteSet(DOMAIN daily')
  BY <1>4, DaysAreWritten, FS_AddElement
<1>7. \A a : OfAWeek(a) => OfAWeek(a)'
  BY <1>4, <1>6, DaysRemain
<1>8. OneEventPerLookback'
  <2>1. ASSUME NEW e \in quality, e.code # "REJECTED"
        PROVE  /\ \A f \in quality : SameEvent(e, f) => f = e
               /\ OfAWeek(e)'
    BY <1>7, <2>1 DEF InsightsInv, OneEventPerLookback, OfAWeek
  <2> QED
    BY <1>2, <2>1 DEF OneEventPerLookback, OfAWeek
<1>9. \A r \in Scans : \A a \in scanning'[r] : OfAWeek(a)'
  BY <1>2, <1>7 DEF InsightsInv
<1> QED
  BY <1>2, <1>5, <1>8, <1>9 DEF InsightsInv, InsightsTypeOK

LEMMA EndSyncInv == ASSUME InsightsInv, NEW s \in Sources, EndSync(s) PROVE InsightsInv'
<1>1. PICK outcome \in SyncOutcome :
          lastSync' = [lastSync EXCEPT ![s] = [status |-> outcome, at |-> hour]]
  BY DEF EndSync
<1>2. UNCHANGED <<hour, daily, quality, scanning>> /\ ThisDay' = ThisDay
  BY DEF EndSync, ThisDay
<1>3. lastSync' \in [Sources -> {NoSync} \cup [status : SyncOutcome, at : 0..MaxHours]]
  BY <1>1, DaysAreWritten DEF InsightsInv, InsightsTypeOK
<1>4. OneEventPerLookback' /\ \A r \in Scans : \A a \in scanning'[r] : OfAWeek(a)'
  BY <1>2 DEF InsightsInv, OneEventPerLookback, OfAWeek, DaysLookedBack
<1> QED
  BY <1>2, <1>3, <1>4 DEF InsightsInv, InsightsTypeOK

LEMMA LogIssueInv == ASSUME InsightsInv, LogValidationIssue PROVE InsightsInv'
<1>1. PICK severity \in Severity :
          quality' = quality \cup {[code |-> "REJECTED", key |-> Cardinality(Rejections),
                                    lookback |-> 0, severity |-> severity, at |-> hour]}
  BY DEF LogValidationIssue
<1>2. UNCHANGED <<hour, daily, lastSync, scanning>> /\ ThisDay' = ThisDay
  BY DEF LogValidationIssue, ThisDay
<1>3. \A e \in quality' : e \in quality \/ /\ e.code = "REJECTED" /\ e.at = hour
                                           /\ e.severity \in Severity
  BY <1>1
<1>4. \A e \in quality' : e.at \in Nat /\ e.at <= hour /\ e.severity \in Severity
  BY <1>3, DaysAreWritten DEF InsightsInv, InsightsTypeOK
<1>5. \A e, f \in quality' : e.code # "REJECTED" /\ SameEvent(e, f) => e \in quality /\ f \in quality
  BY <1>3 DEF SameEvent
<1>6. OneEventPerLookback' /\ \A r \in Scans : \A a \in scanning'[r] : OfAWeek(a)'
  <2>1. \A a : OfAWeek(a)' <=> OfAWeek(a)
    BY <1>2 DEF OfAWeek, DaysLookedBack
  <2>2. \A e \in quality' : e.code # "REJECTED" => e \in quality
    BY <1>3
  <2>3. \A e \in quality : e.code # "REJECTED" =>
            OfAWeek(e) /\ \A f \in quality : SameEvent(e, f) => f = e
    BY DEF InsightsInv, OneEventPerLookback, OfAWeek
  <2>4. \A e \in quality' : e.code # "REJECTED" =>
            OfAWeek(e)' /\ \A f \in quality' : SameEvent(e, f) => f = e
    BY <1>5, <2>1, <2>2, <2>3
  <2>5. OneEventPerLookback'
    BY <2>4 DEF OneEventPerLookback, OfAWeek
  <2> QED
    BY <1>2, <2>1, <2>5 DEF InsightsInv
<1> QED
  BY <1>2, <1>4, <1>6 DEF InsightsInv, InsightsTypeOK

LEMMA ScanInv == ASSUME InsightsInv, NEW r \in Scans, ScanAnomalies(r) PROVE InsightsInv'
<1>1. PICK lookback \in Lookbacks :
          scanning' = [scanning EXCEPT ![r] = IF Cardinality(Points(lookback)) < 8 THEN {}
                                              ELSE Anomalies(Points(lookback), lookback)]
  BY DEF ScanAnomalies
<1> DEFINE found == IF Cardinality(Points(lookback)) < 8 THEN {} ELSE Anomalies(Points(lookback), lookback)
<1>2. UNCHANGED <<hour, daily, quality, lastSync>> /\ ThisDay' = ThisDay
  BY DEF ScanAnomalies, ThisDay
<1>3. Points(lookback) = {} => found = {}
  BY FS_EmptySet
<1>4. \A a \in found : a \in Anomaly /\ OfAWeek(a)
  BY <1>3, AnomaliesAreOfTheLast
<1>5. scanning' = [scanning EXCEPT ![r] = found]
  BY <1>1
<1> HIDE DEF found
<1>6. /\ scanning' \in [Scans -> SUBSET Anomaly]
      /\ \A q \in Scans : \A a \in scanning'[q] : OfAWeek(a)
  BY <1>4, <1>5 DEF InsightsInv, InsightsTypeOK
<1>7. OneEventPerLookback' /\ \A q \in Scans : \A a \in scanning'[q] : OfAWeek(a)'
  BY <1>2, <1>6 DEF InsightsInv, OneEventPerLookback, OfAWeek, DaysLookedBack
<1> QED
  BY <1>2, <1>6, <1>7 DEF InsightsInv, InsightsTypeOK

LEMMA UpsertInv ==
  ASSUME InsightsInv, NEW r \in Scans, UpsertAnomalyEvent(r) \/ UpsertFails(r) PROVE InsightsInv'
<1>1. PICK a \in scanning[r] :
          /\ scanning' = [scanning EXCEPT ![r] = @ \ {a}]
          /\ \/ quality' = {e \in quality : ~SameEvent(e, a)} \cup {AnomalyEvent(a)}
             \/ quality' = quality
  BY DEF UpsertAnomalyEvent, UpsertFails
<1>2. UNCHANGED <<hour, daily, lastSync>> /\ ThisDay' = ThisDay
  BY DEF UpsertAnomalyEvent, UpsertFails, ThisDay
<1>3. /\ scanning \in [Scans -> SUBSET Anomaly] /\ a \in Anomaly /\ OfAWeek(a)
      /\ \A q \in Scans : \A b \in scanning[q] : OfAWeek(b)
  BY DEF InsightsInv, InsightsTypeOK
<1>4. /\ scanning' \in [Scans -> SUBSET Anomaly]
      /\ \A q \in Scans : \A b \in scanning'[q] : OfAWeek(b)
  BY <1>1, <1>3
<1> DEFINE new == AnomalyEvent(a)
<1>5. /\ new.code = a.code /\ new.key = a.key /\ new.lookback = a.lookback
      /\ new.severity \in Severity /\ new.at = hour
  BY <1>3 DEF AnomalyEvent, Anomaly
<1>6. \A b : OfAWeek(b)' <=> OfAWeek(b)
  BY <1>2 DEF OfAWeek, DaysLookedBack
<1>7. OfAWeek(new)
  BY <1>3, <1>5 DEF OfAWeek, DaysLookedBack
<1> HIDE DEF new
<1>8. /\ \A e \in quality : e.code # "REJECTED" =>
             OfAWeek(e) /\ \A f \in quality : SameEvent(e, f) => f = e
      /\ \A e \in quality : e.at \in Nat /\ e.at <= hour /\ e.severity \in Severity
  BY DEF InsightsInv, InsightsTypeOK, OneEventPerLookback, OfAWeek
<1>9. CASE quality' = {e \in quality : ~SameEvent(e, a)} \cup {new}
  <2>1. \A e \in quality' : e.at \in Nat /\ e.at <= hour /\ e.severity \in Severity
    <3>1. hour \in Nat /\ hour <= hour
      BY DaysAreWritten
    <3> QED
      BY <1>5, <1>8, <1>9, <3>1
  <2>2. ASSUME NEW e \in quality', e.code # "REJECTED"
        PROVE  OfAWeek(e)' /\ \A f \in quality' : SameEvent(e, f) => f = e
    <3>1. OfAWeek(e)
      BY <1>7, <1>8, <1>9, <2>2
    <3>2. ASSUME NEW f \in quality', SameEvent(e, f) PROVE f = e
      <4>1. CASE e = new \/ f = new
        BY <1>5, <1>9, <3>2, <4>1 DEF SameEvent
      <4>2. CASE e # new /\ f # new
        BY <1>8, <1>9, <2>2, <3>2, <4>2
      <4> QED
        BY <4>1, <4>2
    <3> QED
      BY <1>6, <3>1, <3>2
  <2>3. OneEventPerLookback'
    BY <2>2 DEF OneEventPerLookback, OfAWeek
  <2> QED
    BY <1>2, <1>4, <1>6, <2>1, <2>3 DEF InsightsInv, InsightsTypeOK
<1>10. CASE quality' = quality
  <2>1. OneEventPerLookback'
    BY <1>2, <1>10 DEF InsightsInv, OneEventPerLookback, DaysLookedBack
  <2> QED
    BY <1>2, <1>4, <1>6, <1>8, <1>10, <2>1 DEF InsightsInv, InsightsTypeOK
<1> QED
  BY <1>1, <1>9, <1>10 DEF new

LEMMA InsightsStepInv ==
  ASSUME InsightsInv, NEW what, InsightsStep(what) PROVE InsightsInv'
  BY PassInv, WriteDailyInv, EndSyncInv, LogIssueInv, ScanInv, UpsertInv DEF InsightsStep, ScanStep

LEMMA InsightsUnchanged == InsightsInv /\ UNCHANGED insightVars => InsightsInv'
  BY DEF InsightsInv, InsightsTypeOK, OneEventPerLookback, OfAWeek, DaysLookedBack, ThisDay, insightVars

(***************************************************************************)
(* What advice rests on                                                    *)
(***************************************************************************)

(* Events can be counted, a day has a figure of each metric, and a sync    *)
(* that ended is over.                                                     *)
FiguresOfDays ==
    /\ IsFiniteSet(quality)
    /\ \A s \in Sources : lastSync[s] # NoSync => lastSync[s].at <= hour
    /\ \A d \in DOMAIN daily : \A m \in DailyMetricKeys : daily[d][m] \in Int
FoundedInv == InsightsInv /\ FiguresOfDays

LEMMA FoundedInitInv == InsightsInit => FoundedInv
<1> SUFFICES ASSUME InsightsInit PROVE FoundedInv
  OBVIOUS
<1>1. quality = {} /\ daily \in DailyHistories /\ lastSync = [s \in Sources |-> NoSync]
  BY DEF InsightsInit
<1>2. \A d \in DOMAIN daily : \A m \in DailyMetricKeys : daily[d][m] \in Int
  BY <1>1, InsightsAssumption DEF IsDailyRow
<1> QED
  BY <1>1, <1>2, InsightsInitInv, FS_EmptySet DEF FoundedInv, FiguresOfDays

LEMMA FoundedStepInv ==
  ASSUME FoundedInv, NEW what, InsightsStep(what) PROVE FoundedInv'
<1>1. InsightsInv'
  BY InsightsStepInv DEF FoundedInv
<1>2. \A d \in DOMAIN daily : \A m \in DailyMetricKeys : daily[d][m] \in Int
  BY DEF FoundedInv, FiguresOfDays
<1>3. IsFiniteSet(quality)
  BY DEF FoundedInv, FiguresOfDays
<1>0. /\ hour \in Nat /\ \A s \in Sources : lastSync[s] # NoSync => lastSync[s].at <= hour
      /\ lastSync \in [Sources -> {NoSync} \cup [status : SyncOutcome, at : 0..MaxHours]]
  BY DaysAreWritten DEF FoundedInv, FiguresOfDays, InsightsInv, InsightsTypeOK
<1>4. CASE Pass(24) \/ Pass(6)
  <2>1. PICK hours \in {24, 6} : Pass(hours)
    BY <1>4
  <2>2. ASSUME NEW s \in Sources, lastSync'[s] # NoSync PROVE lastSync'[s].at <= hour'
    <3>1. lastSync[s] # NoSync /\ lastSync[s].at \in 0..MaxHours /\ lastSync'[s] = lastSync[s]
      BY <1>0, <2>1, <2>2 DEF Pass
    <3>2. hour' = hour + hours /\ lastSync[s].at <= hour /\ MaxHours \in Nat
      BY <1>0, <2>1, <3>1, InsightsAssumption DEF Pass
    <3> QED
      BY <1>0, <3>1, <3>2
  <2> QED
    BY <1>1, <1>2, <1>3, <2>1, <2>2 DEF Pass, FoundedInv, FiguresOfDays
<1>8. ASSUME NEW s \in Sources, EndSync(s) PROVE FoundedInv'
  <2>1. \A t \in Sources : lastSync'[t] # NoSync => lastSync'[t].at <= hour
    BY <1>0, <1>8 DEF EndSync
  <2> QED
    BY <1>1, <1>2, <1>3, <1>8, <2>1 DEF EndSync, FoundedInv, FiguresOfDays
<1>5. CASE WriteDaily
  <2>1. PICK row \in DailyRows :
            daily' = [d \in DOMAIN daily \cup {ThisDay} |-> IF d = ThisDay THEN row ELSE daily[d]]
    BY <1>5 DEF WriteDaily
  <2>2. \A m \in DailyMetricKeys : row[m] \in Int
    BY InsightsAssumption DEF IsDailyRow
  <2>3. \A d \in DOMAIN daily' : \A m \in DailyMetricKeys : daily'[d][m] \in Int
    BY <1>2, <2>1, <2>2
  <2> QED
    BY <1>0, <1>1, <1>3, <1>5, <2>3 DEF WriteDaily, FoundedInv, FiguresOfDays
<1>6. CASE LogValidationIssue
  <2>1. PICK e : quality' = quality \cup {e}
    BY <1>6 DEF LogValidationIssue
  <2>2. IsFiniteSet(quality')
    BY <1>3, <2>1, FS_AddElement
  <2> QED
    BY <1>0, <1>1, <1>2, <1>6, <2>2 DEF LogValidationIssue, FoundedInv, FiguresOfDays
<1>7. ASSUME NEW r \in Scans, ScanStep(r) PROVE FoundedInv'
  <2>1. UNCHANGED <<hour, daily, lastSync>>
    BY <1>7 DEF ScanStep, ScanAnomalies, UpsertAnomalyEvent, UpsertFails
  <2>2. IsFiniteSet(quality')
    <3>1. CASE quality' = quality
      BY <1>3, <3>1
    <3>2. ASSUME NEW a, quality' = {e \in quality : ~SameEvent(e, a)} \cup {AnomalyEvent(a)}
          PROVE  IsFiniteSet(quality')
      <4>1. IsFiniteSet({e \in quality : ~SameEvent(e, a)})
        BY <1>3, FS_Subset
      <4> QED
        BY <3>2, <4>1, FS_AddElement
    <3> QED
      BY <1>7, <3>1, <3>2 DEF ScanStep, ScanAnomalies, UpsertAnomalyEvent, UpsertFails
  <2> QED
    BY <1>0, <1>1, <1>2, <2>1, <2>2 DEF FoundedInv, FiguresOfDays
<1> QED
  BY <1>4, <1>5, <1>6, <1>7, <1>8 DEF InsightsStep

LEMMA FoundedUnchanged == FoundedInv /\ UNCHANGED insightVars => FoundedInv'
  BY InsightsUnchanged DEF FoundedInv, FiguresOfDays, insightVars

(* The deviations of a metric.                                             *)
FigureOn(days, metric) == [d \in days |-> daily[d][metric]]
SquareOn(days, metric) == [d \in days |-> daily[d][metric] * daily[d][metric]]

LEMMA SpreadOf ==
  ASSUME FoundedInv, NEW days \in SUBSET DOMAIN daily, NEW metric \in DailyMetricKeys
  PROVE  /\ Spread(days, metric).sum \in Int
         /\ Spread(days, metric).variance \in Int /\ Spread(days, metric).variance >= 0
<1> DEFINE f == FigureOn(days, metric)
           q == SquareOn(days, metric)
<1>1. IsFiniteSet(days)
  BY DaysAreWritten, FS_Subset DEF FoundedInv
<1>2. /\ SumOf(days, LAMBDA d : daily[d][metric]) = Total(f, days)
      /\ SumOf(days, LAMBDA d : daily[d][metric] * daily[d][metric]) = Total(q, days)
  BY Zenon DEF SumOf, Total, MapThenSumSet, MapThenFoldSet, FigureOn, SquareOn
<1>3. /\ Spread(days, metric).sum = Total(f, days)
      /\ Spread(days, metric).variance = Cardinality(days) * Total(q, days) - Total(f, days) * Total(f, days)
  BY <1>2 DEF Spread
<1>4. \A d \in days : f[d] \in Int /\ q[d] \in Int
  BY DEF FoundedInv, FiguresOfDays, FigureOn, SquareOn
<1>5. q = [d \in days |-> f[d] * f[d]]
  BY DEF FigureOn, SquareOn
<1>6. Total(f, days) \in Int /\ Total(q, days) \in Int /\ Cardinality(days) \in Nat
  BY <1>1, <1>4, TotalType, FS_CardinalityType
<1>7. Cardinality(days) * Total(q, days) - Total(f, days) * Total(f, days) >= 0
  BY <1>1, <1>4, <1>5, SquareOfTotal
<1> HIDE DEF f, q
<1> QED
  BY <1>3, <1>6, <1>7

(* Each factor is a share of 1.                                            *)
LEMMA AnomalyFactorIsAShare == ASSUME FoundedInv PROVE AnomalyFactor \in 0..1000
<1>1. AnomalyCount(7) \in Nat
  BY FS_Subset, FS_CardinalityType DEF AnomalyCount, FoundedInv, FiguresOfDays
<1>2. 1000 - 100 * AnomalyCount(7) \in Int /\ 1000 - 100 * AnomalyCount(7) <= 1000
  BY <1>1
<1> DEFINE m == 1000 - 100 * AnomalyCount(7)
<1> HIDE DEF m
<1>3. m \in Int /\ m <= 1000
  BY <1>2 DEF m
<1>4. Max({200, m}) = IF 200 >= m THEN 200 ELSE m
  BY <1>3, MaxOfTwo
<1>5. Max({200, m}) \in 0..1000
  BY <1>3, <1>4
<1> QED
  BY <1>5 DEF AnomalyFactor, m

LEMMA VarianceFactorIsAShare == ASSUME FoundedInv PROVE VarianceFactor \in 0..1000
<1> DEFINE days == LastRows(14)
           about == Spread(days, "revenue")
           square == about.sum * about.sum
           some == {k \in 0..100 : k * k * square <= 10000 * about.variance}
           cv == Max(some)
<1>1. /\ about.sum \in Int /\ about.variance \in Int /\ about.variance >= 0
  <2>1. days \in SUBSET DOMAIN daily
    BY DEF LastRows
  <2> HIDE DEF days
  <2> QED
    BY <2>1, SpreadOf, InsightsAssumption
<1> HIDE DEF about
<1>2. 0 \in some /\ some \in SUBSET (0..100)
  <2>1. square \in Int
    BY <1>1
  <2>2. 0 * 0 * square = 0
    BY <2>1
  <2> QED
    BY <1>1, <2>2
<1> HIDE DEF some
<1>3. cv \in some
  BY <1>2, LatestOfDays
<1> HIDE DEF cv
<1>4. cv \in 0..100 /\ 1000 - 10 * cv \in Int /\ 1000 - 10 * cv <= 1000
  BY <1>2, <1>3
<1>5. Max({200, 1000 - 10 * cv}) \in 0..1000
  <2> DEFINE m == 1000 - 10 * cv
  <2> HIDE DEF m
  <2>1. m \in Int /\ m <= 1000
    BY <1>4 DEF m
  <2>2. Max({200, m}) = IF 200 >= m THEN 200 ELSE m
    BY <2>1, MaxOfTwo
  <2>3. Max({200, m}) \in 0..1000
    BY <2>1, <2>2
  <2> QED
    BY <2>3 DEF m
<1>6. VarianceFactor = IF Cardinality(days) < 5 THEN 400
                       ELSE IF about.sum = 0 THEN 300
                       ELSE Max({200, 1000 - 10 * cv})
  BY DEF VarianceFactor, about, some, cv
<1> QED
  BY <1>5, <1>6

(* A source is fresh while it synced, or at least in part, within hours.   *)
LEMMA FreshSource ==
  ASSUME FoundedInv, NEW s \in Sources
  PROVE  /\ SourceFreshness(s) \in 0..1000
         /\ SourceFreshness(s) >= 500 => /\ lastSync[s] # NoSync
                                         /\ lastSync[s].status # "FAILED"
                                         /\ hour - lastSync[s].at <= 12
<1> DEFINE age == hour - lastSync[s].at
           left == Max({0, 24 - age})
           weight == CASE lastSync[s].status = "SUCCESS" -> 1000
                       [] lastSync[s].status = "PARTIAL" -> 700
                       [] OTHER -> 300
<1>1. CASE lastSync[s] = NoSync
  BY <1>1 DEF SourceFreshness
<1>2. CASE lastSync[s] # NoSync
  <2>1. /\ lastSync[s].status \in SyncOutcome /\ lastSync[s].at \in 0..MaxHours
        /\ hour \in 0..MaxHours /\ MaxHours \in Nat
    BY <1>2, InsightsAssumption DEF FoundedInv, InsightsInv, InsightsTypeOK
  <2>2. age \in Int
    BY <2>1
  <2>3. left = IF age <= 24 THEN 24 - age ELSE 0
    <3> DEFINE m == 24 - age
    <3> HIDE DEF m, age
    <3>1. m \in Int /\ m = 24 - age
      BY <2>2 DEF m
    <3>2. Max({0, m}) = IF 0 >= m THEN 0 ELSE m
      BY <3>1, MaxOfTwo
    <3>3. left = Max({0, m})
      BY DEF m
    <3> HIDE DEF left
    <3> QED
      BY <2>2, <3>1, <3>2, <3>3
  <2>4. age >= 0
    BY <1>2, <2>1 DEF FoundedInv, FiguresOfDays
  <2>5. left \in 0..24 /\ (left >= 12 => age <= 12)
    BY <2>2, <2>3, <2>4
  <2>6. /\ weight \in {1000, 700, 300}
        /\ weight # 300 => lastSync[s].status # "FAILED"
    BY <2>1 DEF SyncOutcome
  <2>7. SourceFreshness(s) = (left * weight) \div 24
    BY <1>2 DEF SourceFreshness
  <2> HIDE DEF left, weight, age
  <2>8. /\ (left * weight) \div 24 \in 0..1000
        /\ (left * weight) \div 24 >= 500 => weight # 300 /\ left >= 12
    BY <2>5, <2>6
  <2> QED
    BY <1>2, <2>5, <2>6, <2>7, <2>8 DEF age
<1> QED
  BY <1>1, <1>2

LEMMA ShareOf ==
  ASSUME NEW total \in Nat, NEW n \in Nat, n # 0, total <= 1000 * n
  PROVE  /\ total \div n \in 0..1000
         /\ total <= 499 * n => total \div n <= 499
<1> DEFINE q == total \div n
<1>1. q \in Nat /\ n * q <= total
  OBVIOUS
<1> HIDE DEF q
<1>2. ASSUME NEW k \in Nat, total <= k * n PROVE q <= k
  <2>1. q > k => n * q >= n * (k + 1)
    BY <1>1
  <2>2. n * (k + 1) = k * n + n
    OBVIOUS
  <2> QED
    BY <1>1, <1>2, <2>1, <2>2
<1> QED
  BY <1>1, <1>2 DEF q

LEMMA FreshnessIsAShare ==
  ASSUME FoundedInv
  PROVE  /\ FreshnessFactor \in 0..1000
         /\ FreshnessFactor >= 500 => \E s \in Sources : SourceFreshness(s) >= 500
<1> DEFINE f == [s \in Sources |-> SourceFreshness(s)]
           n == Cardinality(Sources)
<1>1. IsFiniteSet(Sources) /\ \A s \in Sources : f[s] \in Int /\ f[s] \in Nat /\ f[s] <= 1000
  BY FreshSource, InsightsAssumption
<1>2. SumOf(Sources, SourceFreshness) = Total(f, Sources)
  BY Zenon DEF SumOf, Total, MapThenSumSet, MapThenFoldSet
<1>3. CASE Sources = {}
  BY <1>3 DEF FreshnessFactor
<1>4. CASE Sources # {}
  <2>1. FreshnessFactor = Total(f, Sources) \div n
    BY <1>2, <1>4 DEF FreshnessFactor
  <2>2. n \in Nat /\ n # 0
    BY <1>1, <1>4, FS_CardinalityType, FS_EmptySet
  <2>3. (\A s \in Sources : f[s] <= 499) => Total(f, Sources) <= 499 * n
    BY <1>1, TotalAtMost
  <2>4. Total(f, Sources) <= 1000 * n
    BY <1>1, TotalAtMost
  <2>5. Total(f, Sources) \in Nat
    BY <1>1, TotalType
  <2>6. \A s \in Sources : f[s] = SourceFreshness(s)
    OBVIOUS
  <2> HIDE DEF f, n
  <2>7. /\ Total(f, Sources) \div n \in 0..1000
        /\ Total(f, Sources) <= 499 * n => Total(f, Sources) \div n <= 499
    BY <2>2, <2>4, <2>5, ShareOf
  <2> QED
    BY <1>1, <2>1, <2>3, <2>6, <2>7
<1> QED
  BY <1>3, <1>4

LEMMA AdviceIsFresh == FoundedInv => AdviceNeedsFreshData
<1> SUFFICES ASSUME FoundedInv PROVE AdviceNeedsFreshData
  OBVIOUS
<1> DEFINE read == Read
<1>1. ASSUME NEW brief \in Briefs, ExecutiveSummary(brief, read).suppression = "none"
      PROVE  /\ BriefMetrics \subseteq brief.metrics
             /\ brief.dataPoints >= 30
             /\ \E s \in Sources : /\ lastSync[s] # NoSync
                                   /\ lastSync[s].status # "FAILED"
                                   /\ hour - lastSync[s].at <= 12
  <2>1. BriefMetrics \subseteq brief.metrics /\ Guardrail(brief, read) = "none"
    BY <1>1 DEF ExecutiveSummary
  <2>2. ~(brief.dataPoints < 30) /\ ~(read.freshness < 500)
    BY <2>1 DEF Guardrail
  <2>3. brief.dataPoints \in Int
    BY InsightsAssumption
  <2>4. FreshnessFactor >= 500
    BY <2>2, FreshnessIsAShare DEF Read
  <2>5. PICK s \in Sources : SourceFreshness(s) >= 500
    BY <2>4, FreshnessIsAShare
  <2> QED
    BY <2>1, <2>2, <2>3, <2>5, FreshSource
<1> QED
  BY <1>1 DEF AdviceNeedsFreshData

LEMMA VolumeGrows ==
  ASSUME NEW n \in Int
  PROVE  /\ VolumeFactor(n) \in 0..1000 /\ VolumeFactor(n + 30) \in 0..1000
         /\ VolumeFactor(n) <= VolumeFactor(n + 30)
<1>1. ASSUME NEW k \in Int PROVE VolumeFactor(k) = IF k <= 0 THEN 0 ELSE IF k >= 120 THEN 1000 ELSE (1000 * k) \div 120
  <2>1. (1000 * k) \div 120 \in Int /\ ((1000 * k) \div 120 >= 1000 <=> k >= 120)
    OBVIOUS
  <2>2. Min({1000, (1000 * k) \div 120}) = IF 1000 <= (1000 * k) \div 120 THEN 1000 ELSE (1000 * k) \div 120
    BY <2>1, MinOfTwo
  <2> QED
    BY <2>1, <2>2 DEF VolumeFactor
<1>2. \A k \in Int : k > 0 /\ k < 120 => (1000 * k) \div 120 \in 0..1000
  OBVIOUS
<1>3. (1000 * n) \div 120 <= (1000 * (n + 30)) \div 120
  OBVIOUS
<1>4. n + 30 \in Int
  OBVIOUS
<1> QED
  BY <1>1, <1>2, <1>3, <1>4

LEMMA ConsistencyIsAShare ==
  ASSUME NEW growth \in Int, NEW churn \in Int, NEW ratio \in Int
  PROVE  Consistency(growth, churn, ratio) \in 0..(3 * 1000)
<1>1. 1000 + growth \in Int /\ 1000 - 5 * (churn - 50) \in Int
  OBVIOUS
<1>2. /\ Max({200, 1000 + growth}) = IF 200 >= 1000 + growth THEN 200 ELSE 1000 + growth
      /\ Max({200, 1000 - 5 * (churn - 50)}) =
             IF 200 >= 1000 - 5 * (churn - 50) THEN 200 ELSE 1000 - 5 * (churn - 50)
  BY <1>1, MaxOfTwo
<1> DEFINE a == IF growth >= 0 THEN 1000 ELSE Max({200, 1000 + growth})
           b == IF churn <= 50 THEN 1000 ELSE Max({200, 1000 - 5 * (churn - 50)})
           c == IF ratio >= 3000 THEN 1000 ELSE IF ratio >= 2000 THEN 750
                ELSE IF ratio >= 1000 THEN 500 ELSE 300
<1>3. a \in 0..1000
  BY <1>1, <1>2
<1>4. b \in 0..1000
  BY <1>1, <1>2
<1>5. c \in 0..1000
  OBVIOUS
<1>6. Consistency(growth, churn, ratio) = a + b + c
  BY DEF Consistency
<1> HIDE DEF a, b, c
<1> QED
  BY <1>3, <1>4, <1>5, <1>6

Weighted(v, c, variance, anomaly, freshness) ==
    (75 * v + 20 * c + 60 * variance + 45 * anomaly + 60 * freshness) \div 300

LEMMA WeightedShare ==
  ASSUME NEW K \in Nat, NEW v \in 0..K, NEW w \in 0..K, v <= w, NEW c \in 0..(3 * K),
         NEW rv \in 0..K, NEW ra \in 0..K, NEW rf \in 0..K
  PROVE  Weighted(v, c, rv, ra, rf) \in 0..K /\ Weighted(v, c, rv, ra, rf) <= Weighted(w, c, rv, ra, rf)
<1> DEFINE x == 75 * v + 20 * c + 60 * rv + 45 * ra + 60 * rf
           y == 75 * w + 20 * c + 60 * rv + 45 * ra + 60 * rf
<1>1. x \in Nat /\ y \in Nat /\ x <= y /\ x <= 300 * K
  OBVIOUS
<1>2. Weighted(v, c, rv, ra, rf) = x \div 300 /\ Weighted(w, c, rv, ra, rf) = y \div 300
  BY DEF Weighted
<1> HIDE DEF x, y
<1>3. x \div 300 \in 0..K /\ x \div 300 <= y \div 300
  BY <1>1
<1> QED
  BY <1>2, <1>3

LEMMA ScoreIsBounded == FoundedInv => ScoreIsAShare
<1> SUFFICES ASSUME FoundedInv PROVE ScoreIsAShare
  OBVIOUS
<1> DEFINE read == Read
<1>1. read.variance \in 0..1000 /\ read.anomaly \in 0..1000 /\ read.freshness \in 0..1000
  BY VarianceFactorIsAShare, AnomalyFactorIsAShare, FreshnessIsAShare DEF Read
<1> HIDE DEF read
<1>2. ASSUME NEW brief \in Briefs
      PROVE  /\ Score(brief, read) \in 0..1000
             /\ Score(brief, read) <= Score([brief EXCEPT !.dataPoints = @ + 30], read)
             /\ Alarms(brief) # {} => ExecutiveSummary(brief, read).impact = "HIGH"
  <2> DEFINE more == [brief EXCEPT !.dataPoints = @ + 30]
             v == VolumeFactor(brief.dataPoints)
             w == VolumeFactor(brief.dataPoints + 30)
             c == Consistency(brief.growth, brief.churn, brief.ratio)
             rest == 20 * c + 60 * read.variance + 45 * read.anomaly + 60 * read.freshness
  <2>1. brief.dataPoints \in Int /\ brief.growth \in Int /\ brief.churn \in Int /\ brief.ratio \in Int
        /\ DOMAIN brief = {"metrics", "dataPoints", "growth", "churn", "ratio", "cac", "leadRate"}
    BY InsightsAssumption
  <2>2. /\ more.dataPoints = brief.dataPoints + 30 /\ more.growth = brief.growth
        /\ more.churn = brief.churn /\ more.ratio = brief.ratio
    BY <2>1
  <2>3. v \in 0..1000 /\ w \in 0..1000 /\ v <= w
    BY <2>1, VolumeGrows
  <2>4. c \in 0..(3 * 1000)
    <3> DEFINE g == brief.growth
               h == brief.churn
               k == brief.ratio
    <3>1. g \in Int /\ h \in Int /\ k \in Int
      BY <2>1
    <3> HIDE DEF g, h, k
    <3>2. Consistency(g, h, k) \in 0..(3 * 1000)
      BY <3>1, ConsistencyIsAShare
    <3> QED
      BY <3>2 DEF g, h, k
  <2> HIDE DEF more
  <2>5. /\ Score(brief, read) = Weighted(v, c, read.variance, read.anomaly, read.freshness)
        /\ Score(more, read) = Weighted(w, c, read.variance, read.anomaly, read.freshness)
    BY <2>2 DEF Score, Weighted
  <2>6. /\ Score(brief, read) \in 0..1000
        /\ Score(brief, read) <= Score(more, read)
    <3> DEFINE rv == read.variance
               ra == read.anomaly
               rf == read.freshness
               K == 1000
    <3>1. /\ K \in Nat /\ v \in 0..K /\ w \in 0..K /\ v <= w /\ c \in 0..(3 * K)
          /\ rv \in 0..K /\ ra \in 0..K /\ rf \in 0..K
      BY <1>1, <2>3, <2>4
    <3> HIDE DEF v, w, c, rv, ra, rf, K
    <3>2. /\ Weighted(v, c, rv, ra, rf) \in 0..K
          /\ Weighted(v, c, rv, ra, rf) <= Weighted(w, c, rv, ra, rf)
      BY <3>1, WeightedShare
    <3> QED
      BY <2>5, <3>2 DEF rv, ra, rf, K
  <2>9. Alarms(brief) # {} => ExecutiveSummary(brief, read).impact = "HIGH"
    BY DEF ExecutiveSummary
  <2> QED
    BY <2>6, <2>9 DEF more
<1> QED
  BY <1>2 DEF ScoreIsAShare, read

LEMMA FoundedInvGives == FoundedInv => AdviceIsFounded
BY AdviceIsFresh, ScoreIsBounded DEF FoundedInv, InsightsInv, AdviceIsFounded

(***************************************************************************)
(* The market                                                              *)
(***************************************************************************)

LEMMA MarketInitTyped == MarketInit => MarketTypeOK
  BY MarketAssumption DEF MarketInit, MarketTypeOK

LEMMA MarketStepTyped ==
  ASSUME MarketTypeOK, NEW what, MarketStep(what) PROVE MarketTypeOK'
<1>1. CASE NextMarketDay
  BY <1>1, MarketAssumption DEF NextMarketDay, MarketTypeOK
<1>2. CASE RecordSignal
  <2>1. PICK s \in Observed, on \in 0..LastMarketDay :
            marketSignals' = IF SameSignal(s, on) THEN marketSignals
                             ELSE marketSignals \cup
                         {[competitor |-> s.competitor, type |-> s.type, source |-> s.source,
                           notes |-> Noted(s.notes), on |-> on, written |-> s.written,
                           marker |-> Marker(s.written, SignalRelevance(s.type, s.source, s.notes))]}
    BY <1>2 DEF RecordSignal
  <2>2. \A t \in marketSignals' : t.competitor \in Competitors /\ t.type \in SignalType
    BY <2>1, MarketAssumption DEF MarketTypeOK
  <2> QED
    BY <1>2, <2>2 DEF RecordSignal, MarketTypeOK
<1>3. CASE WriteOrgRow
  BY <1>3 DEF WriteOrgRow, MarketTypeOK
<1>4. CASE \E window \in BenchmarkWindows : Aggregate(window)
  <2>1. PICK window \in BenchmarkWindows : Aggregate(window)
    BY <1>4
  <2> DEFINE with == {i \in Industries : RowsIn(window, i) # {}}
  <2>2. DOMAIN benchmarks' = DOMAIN benchmarks \cup (with \X {window})
    BY <2>1 DEF Aggregate
  <2> QED
    BY <2>1, <2>2 DEF Aggregate, MarketTypeOK
<1>5. CASE AddGraphRow
  BY <1>5 DEF AddGraphRow, MarketTypeOK
<1> QED
  BY <1>1, <1>2, <1>3, <1>4, <1>5 DEF MarketStep

LEMMA MarketUnchanged == MarketTypeOK /\ UNCHANGED marketVars => MarketTypeOK'
  BY DEF MarketTypeOK, marketVars

(* Whatever the graph reads of how many rows.                              *)
LEMMA GraphHangsTogether == GraphIsWhole
<1>1. \A k \in GraphKind : Newest(k, GraphTake[k]) \subseteq Nodes
  BY DEF Nodes
<1>2. Org \in Nodes
  BY DEF Nodes
<1>3. {"recommendation", "experiment", "signal"} \subseteq GraphKind
  BY DEF GraphKind
<1>4. \A e \in Edges : e[1] \in Nodes /\ e[2] \in Nodes
  BY <1>1, <1>2, <1>3 DEF Edges
<1>5. ASSUME NEW n \in Nodes \ {Org} PROVE <<Org, n>> \in Edges
  <2>1. PICK k \in GraphKind : n \in Newest(k, GraphTake[k])
    BY DEF Nodes
  <2>2. <<Org, n>> \in {Org} \X Newest(k, GraphTake[k])
    BY <2>1
  <2> QED
    BY <2>2 DEF Edges
<1> QED
  BY <1>4, <1>5 DEF GraphIsWhole
(* What was aggregated since the last row was written is the benchmark of  *)
(* the rows there are.                                                     *)
BenchmarksInv ==
    /\ IsFiniteSet(DOMAIN orgRows) /\ \A k \in DOMAIN orgRows : orgRows[k] \in Int
    /\ IsFiniteSet(DOMAIN benchmarks)
    /\ aggregated \subseteq BenchmarkWindows
    /\ \A window \in aggregated, i \in Industries :
           RowsIn(window, i) # {} =>
               /\ <<i, window>> \in DOMAIN benchmarks
               /\ benchmarks[<<i, window>>] = BenchmarkRow(window, i)

(* Each signal is marked with its relevance, unless its notes had a marker.*)
MarketInv ==
    /\ MarketTypeOK
    /\ IsFiniteSet(marketSignals)
    /\ \A s \in marketSignals :
           s.written = {} => s.marker = SignalRelevance(s.type, s.source, s.notes)
    /\ BenchmarksInv

LEMMA BenchmarksInitInv == MarketInit => BenchmarksInv
<1> SUFFICES ASSUME MarketInit PROVE BenchmarksInv
  OBVIOUS
<1>1. DOMAIN orgRows = {} /\ DOMAIN benchmarks = {} /\ aggregated = {}
  BY DEF MarketInit
<1> QED
  BY <1>1, FS_EmptySet DEF BenchmarksInv

LEMMA SameRows ==
  ASSUME orgRows' = orgRows, NEW window, NEW i
  PROVE  /\ RowsIn(window, i)' = RowsIn(window, i)
         /\ BenchmarkRow(window, i)' = BenchmarkRow(window, i)
  BY DEF BenchmarkRow, FiguresOf, RowsIn

LEMMA BenchmarksAsTheyWere ==
  ASSUME BenchmarksInv, UNCHANGED <<orgRows, benchmarks, aggregated>> PROVE BenchmarksInv'
<1>1. ASSUME NEW window \in aggregated', NEW i \in Industries, RowsIn(window, i)' # {}
      PROVE  <<i, window>> \in DOMAIN benchmarks' /\ benchmarks'[<<i, window>>] = BenchmarkRow(window, i)'
  BY <1>1, SameRows DEF BenchmarksInv
<1> QED
  BY <1>1 DEF BenchmarksInv

LEMMA BenchmarksStepInv ==
  ASSUME MarketTypeOK, BenchmarksInv, NEW what, MarketStep(what) PROVE BenchmarksInv'
<1>1. CASE WriteOrgRow
  <2>1. PICK o \in DOMAIN IndustryOf, figure \in OrgFigures :
            orgRows' = [k \in DOMAIN orgRows \cup {<<o, marketDay>>} |->
                           IF k = <<o, marketDay>> THEN figure ELSE orgRows[k]]
    BY <1>1 DEF WriteOrgRow
  <2>2. aggregated' = {} /\ benchmarks' = benchmarks
    BY <1>1 DEF WriteOrgRow
  <2>3. DOMAIN orgRows' = DOMAIN orgRows \cup {<<o, marketDay>>}
    BY <2>1
  <2>4. IsFiniteSet(DOMAIN orgRows')
    BY <2>3, FS_AddElement DEF BenchmarksInv
  <2>5. figure \in Int
    BY MarketAssumption
  <2>6. \A k \in DOMAIN orgRows' : orgRows'[k] \in Int
    BY <2>1, <2>5 DEF BenchmarksInv
  <2> QED
    BY <2>2, <2>4, <2>6 DEF BenchmarksInv
<1>2. CASE \E window \in BenchmarkWindows : Aggregate(window)
  <2>1. PICK window \in BenchmarkWindows : Aggregate(window)
    BY <1>2
  <2> DEFINE with == {i \in Industries : RowsIn(window, i) # {}}
             rows == [k \in with \X {window} |-> BenchmarkRow(window, k[1])]
  <2>2. /\ benchmarks' = [k \in DOMAIN benchmarks \cup DOMAIN rows |->
                             IF k \in DOMAIN rows THEN rows[k] ELSE benchmarks[k]]
        /\ aggregated' = aggregated \cup {window}
        /\ orgRows' = orgRows
    BY <2>1 DEF Aggregate
  <2>3. DOMAIN rows = with \X {window} /\ \A i \in with : rows[<<i, window>>] = BenchmarkRow(window, i)
    OBVIOUS
  <2>4. IsFiniteSet(with)
    <3>1. Industries = {IndustryOf[o] : o \in DOMAIN IndustryOf}
      BY DEF Industries
    <3>2. IsFiniteSet(Industries)
      BY <3>1, MarketAssumption, ImageIsFinite
    <3> QED
      BY <3>2, FS_Subset
  <2> HIDE DEF with, rows
  <2>5. IsFiniteSet(DOMAIN benchmarks')
    <3>1. DOMAIN benchmarks' = DOMAIN benchmarks \cup DOMAIN rows
      BY <2>2
    <3>2. IsFiniteSet({window})
      BY FS_Singleton
    <3>3. IsFiniteSet(DOMAIN rows)
      BY <2>3, <2>4, <3>2, FS_Product
    <3> QED
      BY <3>1, <3>3, FS_Union DEF BenchmarksInv
  <2>6. ASSUME NEW w \in aggregated', NEW i \in Industries, RowsIn(w, i)' # {}
        PROVE  <<i, w>> \in DOMAIN benchmarks' /\ benchmarks'[<<i, w>>] = BenchmarkRow(w, i)'
    <3>1. RowsIn(w, i) # {} /\ BenchmarkRow(w, i)' = BenchmarkRow(w, i)
      BY <2>2, <2>6, SameRows
    <3>2. CASE w = window
      <4>1. i \in with
        BY <3>1, <3>2 DEF with
      <4>2. <<i, w>> \in DOMAIN rows /\ rows[<<i, w>>] = BenchmarkRow(w, i)
        BY <2>3, <3>2, <4>1
      <4> QED
        BY <2>2, <3>1, <4>2
    <3>3. CASE w # window
      <4>1. w \in aggregated
        BY <2>2, <3>3
      <4>2. <<i, w>> \in DOMAIN benchmarks /\ benchmarks[<<i, w>>] = BenchmarkRow(w, i)
        BY <3>1, <4>1 DEF BenchmarksInv
      <4>3. <<i, w>> \notin DOMAIN rows
        BY <2>3, <3>3
      <4> QED
        BY <2>2, <3>1, <4>2, <4>3
    <3> QED
      BY <3>2, <3>3
  <2> QED
    BY <2>2, <2>5, <2>6 DEF BenchmarksInv
<1>3. CASE UNCHANGED <<orgRows, benchmarks, aggregated>>
  BY <1>3, BenchmarksAsTheyWere
<1>4. \/ WriteOrgRow \/ (\E window \in BenchmarkWindows : Aggregate(window))
      \/ UNCHANGED <<orgRows, benchmarks, aggregated>>
  BY DEF MarketStep, NextMarketDay, RecordSignal, AddGraphRow
<1> QED
  BY <1>1, <1>2, <1>3, <1>4

LEMMA MarketInitInv == MarketInit => MarketInv
BY MarketInitTyped, BenchmarksInitInv, FS_EmptySet DEF MarketInit, MarketInv

LEMMA MarketStepInv ==
  ASSUME MarketInv, NEW what, MarketStep(what) PROVE MarketInv'
<1>1. MarketTypeOK' /\ BenchmarksInv'
  BY MarketStepTyped, BenchmarksStepInv DEF MarketInv
<1>2. CASE RecordSignal
  <2>1. PICK s \in Observed, on \in 0..LastMarketDay :
            marketSignals' = IF SameSignal(s, on) THEN marketSignals
                             ELSE marketSignals \cup
                         {[competitor |-> s.competitor, type |-> s.type, source |-> s.source,
                           notes |-> Noted(s.notes), on |-> on, written |-> s.written,
                           marker |-> Marker(s.written, SignalRelevance(s.type, s.source, s.notes))]}
    BY <1>2 DEF RecordSignal
  <2>2. SignalRelevance(s.type, s.source, Noted(s.notes)) = SignalRelevance(s.type, s.source, s.notes)
    BY DEF SignalRelevance, Noted
  <2>3. ASSUME NEW t \in marketSignals', t.written = {}
        PROVE  t.marker = SignalRelevance(t.type, t.source, t.notes)
    <3>1. CASE t \in marketSignals
      BY <2>3, <3>1 DEF MarketInv
    <3>2. CASE t \notin marketSignals
      <4>1. PICK score : score = SignalRelevance(s.type, s.source, s.notes)
        OBVIOUS
      <4>2. /\ t.written = s.written /\ t.marker = Marker(s.written, score)
            /\ t.type = s.type /\ t.source = s.source /\ t.notes = Noted(s.notes)
        BY <2>1, <3>2, <4>1
      <4> QED
        BY <2>2, <2>3, <4>1, <4>2 DEF Marker
    <3> QED
      BY <3>1, <3>2
  <2>4. IsFiniteSet(marketSignals')
    BY <2>1, FS_AddElement DEF MarketInv
  <2> QED
    BY <1>1, <2>3, <2>4 DEF MarketInv
<1>3. CASE UNCHANGED marketSignals
  BY <1>1, <1>3 DEF MarketInv
<1>4. RecordSignal \/ UNCHANGED marketSignals
  BY DEF MarketStep, NextMarketDay, WriteOrgRow, Aggregate, AddGraphRow
<1> QED
  BY <1>2, <1>3, <1>4

LEMMA MarketInvUnchanged == MarketInv /\ UNCHANGED marketVars => MarketInv'
BY MarketUnchanged, BenchmarksAsTheyWere DEF MarketInv, marketVars

(* Figures from the least to the greatest.                                 *)
Sorted(s, n) ==
    /\ n \in Nat /\ 1 <= n /\ Len(s) = n /\ DOMAIN s = 1..n
    /\ \A i \in 1..n : s[i] \in Int
    /\ \A i, j \in 1..n : i <= j => s[i] <= s[j]

PositionOf(n, p) == p * (n - 1)
BaseOf(n, p) == PositionOf(n, p) \div 100
RestOf(n, p) == PositionOf(n, p) % 100
NextOf(n, p) == Min({BaseOf(n, p) + 2, n})
PlacesOf(n, p) ==
    /\ PositionOf(n, p) \in Nat /\ BaseOf(n, p) \in Nat /\ RestOf(n, p) \in 0..99
    /\ PositionOf(n, p) = 100 * BaseOf(n, p) + RestOf(n, p)
    /\ BaseOf(n, p) + 1 \in 1..n /\ NextOf(n, p) \in 1..n
    /\ NextOf(n, p) = (IF BaseOf(n, p) + 2 <= n THEN BaseOf(n, p) + 2 ELSE n)
    /\ BaseOf(n, p) + 1 <= NextOf(n, p)
LEMMA Places == ASSUME NEW n \in Nat, 1 <= n, NEW p \in {25, 50, 75} PROVE PlacesOf(n, p)
<1> DEFINE x == PositionOf(n, p)
           b == BaseOf(n, p)
           r == RestOf(n, p)
<1>1. x \in Nat /\ x <= 75 * (n - 1)
  BY DEF PositionOf
<1>2. b = x \div 100 /\ r = x % 100
  BY DEF BaseOf, RestOf
<1>3. NextOf(n, p) = Min({b + 2, n})
  BY DEF NextOf
<1> HIDE DEF x, b, r
<1>4. b \in Nat /\ r \in 0..99 /\ x = 100 * b + r
  BY <1>1, <1>2
<1>5. b + 1 <= n
  BY <1>1, <1>4
<1> DEFINE c == b + 2
<1>6. c \in Int /\ n \in Int
  BY <1>4
<1>7. NextOf(n, p) = Min({c, n})
  BY <1>3
<1> HIDE DEF c
<1>8. NextOf(n, p) = IF c <= n THEN c ELSE n
  BY <1>6, <1>7, MinOfTwo
<1>9. NextOf(n, p) = IF b + 2 <= n THEN b + 2 ELSE n
  BY <1>8 DEF c
<1> QED
  BY <1>1, <1>4, <1>5, <1>9 DEF x, b, r, PlacesOf

(* A percentile lies between two figures next to each other.               *)
LEMMA PercentileLies ==
  ASSUME NEW s, NEW n, Sorted(s, n), NEW p \in {25, 50, 75}
  PROVE  /\ s[BaseOf(n, p) + 1] \in Int /\ s[NextOf(n, p)] \in Int /\ Percentile(s, p) \in Int
         /\ s[BaseOf(n, p) + 1] <= s[NextOf(n, p)]
         /\ Percentile(s, p) = 100 * s[BaseOf(n, p) + 1]
                                   + RestOf(n, p) * (s[NextOf(n, p)] - s[BaseOf(n, p) + 1])
         /\ 100 * s[BaseOf(n, p) + 1] <= Percentile(s, p)
         /\ Percentile(s, p) <= 100 * s[NextOf(n, p)]
<1> DEFINE b == BaseOf(n, p)
           r == RestOf(n, p)
           u == s[b + 1]
           v == s[NextOf(n, p)]
<1>1. /\ b + 1 \in 1..n /\ NextOf(n, p) \in 1..n /\ b + 1 <= NextOf(n, p) /\ r \in 0..99
  BY Places DEF Sorted, PlacesOf
<1>2. u \in Int /\ v \in Int /\ u <= v
  BY <1>1 DEF Sorted
<1>3. Percentile(s, p) = 100 * u + r * (v - u)
  BY DEF Percentile, PositionOf, BaseOf, RestOf, NextOf, Sorted
<1> HIDE DEF b, r, u, v
<1>4. r * (v - u) >= 0 /\ r * (v - u) <= 100 * (v - u) /\ r * (v - u) \in Int
  BY <1>1, <1>2
<1> QED
  BY <1>2, <1>3, <1>4 DEF u, v, b, r

LEMMA PercentileGrows ==
  ASSUME NEW s, NEW n, Sorted(s, n), NEW p \in {25, 50, 75}, NEW q \in {25, 50, 75}, p <= q
  PROVE  Percentile(s, p) <= Percentile(s, q)
<1> DEFINE x == PositionOf(n, p)
           y == PositionOf(n, q)
           b == BaseOf(n, p)
           c == BaseOf(n, q)
           k == RestOf(n, p)
           l == RestOf(n, q)
<1>1. n \in Nat /\ 1 <= n
  BY DEF Sorted
<1>2. x <= y
  <2> DEFINE m == n - 1
  <2>1. m \in Nat
    BY <1>1
  <2> HIDE DEF m
  <2>2. p * m <= q * m
    BY <2>1
  <2> QED
    BY <2>2 DEF m, PositionOf
<1>3. /\ x \in Nat /\ b \in Nat /\ k \in 0..99 /\ x = 100 * b + k
      /\ y \in Nat /\ c \in Nat /\ l \in 0..99 /\ y = 100 * c + l
      /\ NextOf(n, p) = (IF b + 2 <= n THEN b + 2 ELSE n)
      /\ b + 1 \in 1..n /\ c + 1 \in 1..n /\ NextOf(n, p) \in 1..n
  <2>1. /\ x \in Nat /\ b \in Nat /\ k \in 0..99 /\ x = 100 * b + k
        /\ NextOf(n, p) = (IF b + 2 <= n THEN b + 2 ELSE n)
        /\ b + 1 \in 1..n /\ NextOf(n, p) \in 1..n
    <3>1. PlacesOf(n, p)
      BY <1>1, Places
    <3> QED
      BY <3>1 DEF PlacesOf
  <2>2. y \in Nat /\ c \in Nat /\ l \in 0..99 /\ y = 100 * c + l /\ c + 1 \in 1..n
    <3>1. PlacesOf(n, q)
      BY <1>1, Places
    <3> QED
      BY <3>1 DEF PlacesOf
  <2> QED
    BY <2>1, <2>2
<1>4. CASE b = c
  <2> DEFINE u == s[b + 1]
             v == s[NextOf(n, p)]
  <2>1. NextOf(n, q) = NextOf(n, p)
    BY <1>4 DEF NextOf
  <2>2. /\ u \in Int /\ v \in Int /\ u <= v /\ Percentile(s, p) = 100 * u + k * (v - u)
        /\ Percentile(s, q) = 100 * u + l * (v - u)
    BY <1>4, <2>1, PercentileLies
  <2> HIDE DEF x, y, b, c, k, l
  <2>3. k <= l /\ k \in Int /\ l \in Int
    BY <1>2, <1>3, <1>4
  <2> HIDE DEF u, v
  <2>4. k * (v - u) <= l * (v - u) /\ k * (v - u) \in Int /\ l * (v - u) \in Int
    <3> DEFINE w == v - u
    <3>1. w \in Nat
      BY <2>2
    <3> HIDE DEF w
    <3>2. k * w <= l * w /\ k * w \in Int /\ l * w \in Int
      BY <2>3, <3>1
    <3> QED
      BY <3>2 DEF w
  <2> QED
    BY <2>2, <2>4
<1>5. CASE b # c
  <2>1. /\ Percentile(s, p) <= 100 * s[NextOf(n, p)] /\ 100 * s[c + 1] <= Percentile(s, q)
        /\ Percentile(s, p) \in Int /\ Percentile(s, q) \in Int
    BY PercentileLies
  <2> HIDE DEF x, y, b, c, k, l
  <2>2. b < c
    BY <1>2, <1>3, <1>5
  <2>3. NextOf(n, p) <= c + 1
    BY <1>1, <1>3, <2>2
  <2>4. s[NextOf(n, p)] <= s[c + 1] /\ s[NextOf(n, p)] \in Int /\ s[c + 1] \in Int
    BY <1>3, <2>3 DEF Sorted
  <2> QED
    BY <2>1, <2>4
<1> QED
  BY <1>4, <1>5

(* How many figures are at most, and at least, a percentile.               *)
LEMMA SharesOf ==
  ASSUME NEW s, NEW n, Sorted(s, n), NEW p \in {25, 50, 75}, NEW x, x = Percentile(s, p)
  PROVE  /\ p <= 50 => 100 * Cardinality({i \in DOMAIN s : 100 * s[i] <= x}) >= p * n
         /\ p >= 50 => 100 * Cardinality({i \in DOMAIN s : 100 * s[i] >= x}) >= (100 - p) * n
<1> DEFINE b == BaseOf(n, p)
           r == RestOf(n, p)
           from == IF r = 0 THEN b + 1 ELSE NextOf(n, p)
           low == {i \in DOMAIN s : 100 * s[i] <= x}
           high == {i \in DOMAIN s : 100 * s[i] >= x}
<1>1. n \in Nat /\ 1 <= n /\ DOMAIN s = 1..n
  BY DEF Sorted
<1>2. /\ b \in Nat /\ r \in 0..99 /\ PositionOf(n, p) = 100 * b + r /\ PositionOf(n, p) = p * (n - 1)
      /\ b + 1 \in 1..n /\ from \in 1..n
      /\ NextOf(n, p) = (IF b + 2 <= n THEN b + 2 ELSE n) /\ NextOf(n, p) \in 1..n
  <2>1. /\ b \in Nat /\ r \in 0..99 /\ PositionOf(n, p) = 100 * b + r
        /\ b + 1 \in 1..n /\ NextOf(n, p) \in 1..n
        /\ NextOf(n, p) = (IF b + 2 <= n THEN b + 2 ELSE n)
    <3>1. PlacesOf(n, p)
      BY <1>1, Places
    <3> QED
      BY <3>1 DEF PlacesOf
  <2>2. PositionOf(n, p) = p * (n - 1)
    BY DEF PositionOf
  <2>3. from \in 1..n
    <3> HIDE DEF b, r
    <3> QED
      BY <2>1
  <2> QED
    BY <2>1, <2>2, <2>3
<1>3. x \in Int /\ 100 * s[b + 1] <= x /\ x <= 100 * s[from]
  <2>1. /\ x \in Int /\ 100 * s[b + 1] <= x /\ x <= 100 * s[NextOf(n, p)]
        /\ x = 100 * s[b + 1] + r * (s[NextOf(n, p)] - s[b + 1])
        /\ s[b + 1] \in Int /\ s[NextOf(n, p)] \in Int
    BY PercentileLies
  <2>2. CASE r = 0
    BY <2>1, <2>2
  <2>3. CASE r # 0
    BY <2>1, <2>3
  <2> QED
    BY <2>2, <2>3
<1> HIDE DEF b, r, from
<1>4. IsFiniteSet(low) /\ IsFiniteSet(high)
  <2>1. IsFiniteSet(1..n)
    BY <1>1, FS_Interval
  <2> QED
    BY <1>1, <2>1, FS_Subset
<1>5. 1..(b + 1) \subseteq low
  <2> SUFFICES ASSUME NEW i \in 1..(b + 1) PROVE i \in low
    OBVIOUS
  <2>1. i \in 1..n /\ s[i] <= s[b + 1] /\ s[i] \in Int /\ s[b + 1] \in Int
    BY <1>1, <1>2 DEF Sorted
  <2> QED
    BY <1>1, <1>3, <2>1
<1>6. from..n \subseteq high
  <2> SUFFICES ASSUME NEW i \in from..n PROVE i \in high
    OBVIOUS
  <2>1. i \in 1..n /\ s[from] <= s[i] /\ s[i] \in Int /\ s[from] \in Int
    BY <1>1, <1>2 DEF Sorted
  <2> QED
    BY <1>1, <1>3, <2>1
<1>7. Cardinality(1..(b + 1)) = b + 1 /\ Cardinality(from..n) = n - from + 1
  <2> DEFINE last == b + 1
             one == 1
  <2>1. last \in Int /\ from \in Int /\ n \in Int /\ one \in Int /\ ~(one > last) /\ ~(from > n)
    BY <1>1, <1>2
  <2>2. last - one + 1 = b + 1
    BY <1>2
  <2> HIDE DEF last, one
  <2>3. Cardinality(one..last) = last - one + 1 /\ Cardinality(from..n) = n - from + 1
    BY <2>1, FS_Interval
  <2> QED
    BY <2>2, <2>3 DEF last, one
<1> DEFINE a == Cardinality(low)
           h == Cardinality(high)
<1>8. a \in Nat /\ h \in Nat /\ b + 1 <= a /\ n - from + 1 <= h
  <2> HIDE DEF low, high
  <2>1. Cardinality(1..(b + 1)) <= a /\ a \in Nat
    BY <1>4, <1>5, FS_Subset, FS_CardinalityType
  <2>2. Cardinality(from..n) <= h /\ h \in Nat
    BY <1>4, <1>6, FS_Subset, FS_CardinalityType
  <2> QED
    BY <1>7, <2>1, <2>2
<1> HIDE DEF low, high, a, h
<1>9. from = (IF r = 0 THEN b + 1 ELSE IF b + 2 <= n THEN b + 2 ELSE n)
  BY <1>2 DEF from
<1>10. p * (n - 1) = 100 * b + r
  BY <1>2
<1>11. (p <= 50 => 100 * a >= p * n) /\ (p >= 50 => 100 * h >= (100 - p) * n)
  <2>1. CASE p = 25
    BY <1>1, <1>2, <1>8, <1>9, <1>10, <2>1
  <2>2. CASE p = 50
    BY <1>1, <1>2, <1>8, <1>9, <1>10, <2>2
  <2>3. CASE p = 75
    BY <1>1, <1>2, <1>8, <1>9, <1>10, <2>3
  <2> QED
    BY <2>1, <2>2, <2>3
<1> QED
  BY <1>11 DEF a, h, low, high

LEMMA FiguresAreSorted ==
  ASSUME BenchmarksInv, NEW window, NEW industry, RowsIn(window, industry) # {}
  PROVE  Sorted(FiguresOf(RowsIn(window, industry)), Cardinality(RowsIn(window, industry)))
<1> DEFINE keys == RowsIn(window, industry)
           f == [k \in keys |-> orgRows[k]]
           s == Ascending(f)
           n == Cardinality(keys)
<1>1. keys \subseteq DOMAIN orgRows
  BY DEF RowsIn
<1>2. IsFiniteSet(keys) /\ DOMAIN f = keys /\ \A k \in keys : f[k] \in Int
  BY <1>1, FS_Subset DEF BenchmarksInv
<1>3. n \in Nat /\ n # 0
  BY <1>2, FS_EmptySet, FS_CardinalityType
<1> HIDE DEF keys, f
<1>4. s = [i \in 1..n |-> s[i]]
  BY <1>2 DEF Ascending
<1>5. \A i \in 1..n : s[i] \in Int
  BY <1>2, AscendingIs
<1>6. \A i, j \in 1..n : i <= j => s[i] <= s[j]
  BY <1>2, AscendingGrows
<1> HIDE DEF s, n
<1>7. Len(s) = n /\ DOMAIN s = 1..n
  BY <1>3, <1>4
<1>8. Sorted(s, n)
  BY <1>3, <1>5, <1>6, <1>7 DEF Sorted
<1>9. FiguresOf(RowsIn(window, industry)) = s
  BY DEF FiguresOf, s, f, keys
<1> QED
  BY <1>8, <1>9 DEF n, keys

(* Someone who asks for a window within one that has a benchmark finds one.*)
LEMMA ShownWhereCovered ==
  ASSUME BenchmarksInv, MarketTypeOK, NEW industry, NEW asked, Covering(industry, asked) # {}
  PROVE  BenchmarkShown(industry, asked) # {}
<1> DEFINE covering == Covering(industry, asked)
           end == [d \in covering |-> d[2][2]]
           ends == {end[d] : d \in DOMAIN end}
<1>1. covering \subseteq DOMAIN benchmarks
  BY DEF Covering
<1>2. IsFiniteSet(covering)
  BY <1>1, FS_Subset DEF BenchmarksInv
<1>3. \A d \in covering : end[d] \in Int /\ end[d] = d[2][2]
  <2> SUFFICES ASSUME NEW d \in covering PROVE d[2][2] \in Int
    OBVIOUS
  <2>1. d \in Industries \X BenchmarkWindows
    BY <1>1 DEF MarketTypeOK
  <2>2. d[2] \in Nat \X Nat
    BY <2>1, MarketAssumption
  <2> QED
    BY <2>2
<1>4. IsFiniteSet(ends)
  BY <1>2, ImageIsFinite
<1>5. ends \in SUBSET Int /\ ends # {}
  BY <1>3
<1>6. DOMAIN end = covering
  OBVIOUS
<1> HIDE DEF ends, end, covering
<1>7. PICK e \in ends : \A x \in ends : x <= e
  BY <1>4, <1>5, LastOfInstants
<1>8. PICK c \in covering : e = end[c]
  BY <1>6 DEF ends
<1>9. \A d \in covering : d[2][2] <= c[2][2]
  <2> SUFFICES ASSUME NEW d \in covering PROVE d[2][2] <= c[2][2]
    OBVIOUS
  <2>1. end[d] \in ends
    BY <1>6 DEF ends
  <2> QED
    BY <1>3, <1>7, <1>8, <2>1
<1>10. benchmarks[c] \in BenchmarkShown(industry, asked)
  BY <1>8, <1>9 DEF BenchmarkShown, covering
<1> QED
  BY <1>10

LEMMA BenchmarksFound == MarketInv => BenchmarksAreFound
<1> SUFFICES ASSUME MarketInv, NEW window \in aggregated, NEW industry \in Industries,
                    FiguresOf(RowsIn(window, industry)) # <<>>
             PROVE  LET figures == FiguresOf(RowsIn(window, industry))
                        row == benchmarks[<<industry, window>>]
                    IN  /\ row.p25 <= row.median /\ row.median <= row.p75
                        /\ 4 * Share(figures, LAMBDA x : x <= row.p25) >= Len(figures)
                        /\ 4 * Share(figures, LAMBDA x : x >= row.p75) >= Len(figures)
                        /\ 2 * Share(figures, LAMBDA x : x <= row.median) >= Len(figures)
                        /\ 2 * Share(figures, LAMBDA x : x >= row.median) >= Len(figures)
                        /\ \A asked \in BenchmarkWindows :
                               window[1] <= asked[1] /\ asked[2] <= window[2] =>
                                   BenchmarkShown(industry, asked) # {}
  BY Zenon DEF BenchmarksAreFound
<1> DEFINE keys == RowsIn(window, industry)
           s == FiguresOf(keys)
           n == Cardinality(keys)
           row == benchmarks[<<industry, window>>]
<1>1. MarketTypeOK /\ BenchmarksInv
  BY DEF MarketInv
<1>2. keys # {}
  <2> SUFFICES ASSUME keys = {} PROVE FALSE
    OBVIOUS
  <2>1. Cardinality({}) = 0
    BY FS_EmptySet
  <2>2. s = [i \in {} |-> 0]
    <3> DEFINE f == [k \in {} |-> orgRows[k]]
    <3>1. s = Ascending(f) /\ DOMAIN f = {}
      BY DEF FiguresOf
    <3> HIDE DEF f
    <3>2. 1..Cardinality(DOMAIN f) = {}
      BY <2>1, <3>1
    <3> QED
      BY <3>1, <3>2 DEF Ascending
  <2>3. <<>> = [i \in {} |-> 0]
    OBVIOUS
  <2> QED
    BY <2>2, <2>3
<1>3. <<industry, window>> \in DOMAIN benchmarks /\ row = BenchmarkRow(window, industry)
  BY <1>1, <1>2 DEF BenchmarksInv
<1>4. Sorted(s, n)
  BY <1>1, <1>2, FiguresAreSorted
<1>5. Len(s) = n /\ n \in Nat
  BY <1>4 DEF Sorted
<1>6. row.p25 = Percentile(s, 25) /\ row.median = Percentile(s, 50) /\ row.p75 = Percentile(s, 75)
  BY <1>3 DEF BenchmarkRow
<1> DEFINE low == row.p25
           half == row.median
           top == row.p75
<1>7. low = Percentile(s, 25) /\ half = Percentile(s, 50) /\ top = Percentile(s, 75)
  BY <1>6
<1> HIDE DEF keys, s, n, row, low, half, top
<1>8. low <= half /\ half <= top
  BY <1>4, <1>7, PercentileGrows
<1>9. 4 * Cardinality({i \in DOMAIN s : 100 * s[i] <= low}) >= n
  <2> DEFINE c == Cardinality({i \in DOMAIN s : 100 * s[i] <= low})
  <2>1. 100 * c >= 25 * n
    BY <1>4, <1>7, SharesOf
  <2>2. c \in Nat
    <3>1. IsFiniteSet(1..n)
      BY <1>5, FS_Interval
    <3>2. DOMAIN s = 1..n
      BY <1>4 DEF Sorted
    <3>3. IsFiniteSet({i \in DOMAIN s : 100 * s[i] <= low})
      BY <3>1, <3>2, FS_Subset
    <3> QED
      BY <3>3, FS_CardinalityType
  <2> HIDE DEF c
  <2>3. 4 * c >= n
    BY <1>5, <2>1, <2>2
  <2> QED
    BY <2>3 DEF c
<1>10. /\ 2 * Cardinality({i \in DOMAIN s : 100 * s[i] <= half}) >= n
       /\ 2 * Cardinality({i \in DOMAIN s : 100 * s[i] >= half}) >= n
       /\ 4 * Cardinality({i \in DOMAIN s : 100 * s[i] >= top}) >= n
  <2> DEFINE c == Cardinality({i \in DOMAIN s : 100 * s[i] <= half})
             d == Cardinality({i \in DOMAIN s : 100 * s[i] >= half})
             e == Cardinality({i \in DOMAIN s : 100 * s[i] >= top})
  <2>1. 100 * c >= 50 * n /\ 100 * d >= (100 - 50) * n /\ 100 * e >= (100 - 75) * n
    BY <1>4, <1>7, SharesOf
  <2>2. c \in Nat /\ d \in Nat /\ e \in Nat
    <3>1. IsFiniteSet(1..n)
      BY <1>5, FS_Interval
    <3>2. DOMAIN s = 1..n
      BY <1>4 DEF Sorted
    <3>3. /\ IsFiniteSet({i \in DOMAIN s : 100 * s[i] <= half})
          /\ IsFiniteSet({i \in DOMAIN s : 100 * s[i] >= half})
          /\ IsFiniteSet({i \in DOMAIN s : 100 * s[i] >= top})
      BY <3>1, <3>2, FS_Subset
    <3> QED
      BY <3>3, FS_CardinalityType
  <2> HIDE DEF c, d, e
  <2>3. 2 * c >= n /\ 2 * d >= n /\ 4 * e >= n
    BY <1>5, <2>1, <2>2
  <2> QED
    BY <2>3 DEF c, d, e
<1>11. ASSUME NEW asked \in BenchmarkWindows, window[1] <= asked[1], asked[2] <= window[2]
       PROVE  BenchmarkShown(industry, asked) # {}
  <2>1. window \in Nat \X Nat /\ asked \in Nat \X Nat
    BY <1>1, MarketAssumption DEF BenchmarksInv
  <2>2. <<industry, window>> \in Covering(industry, asked)
    BY <1>3, <1>11, <2>1 DEF Covering
  <2> QED
    BY <1>1, <2>2, ShownWhereCovered
<1>12. /\ Share(s, LAMBDA x : x <= low) = Cardinality({i \in DOMAIN s : 100 * s[i] <= low})
       /\ Share(s, LAMBDA x : x >= top) = Cardinality({i \in DOMAIN s : 100 * s[i] >= top})
       /\ Share(s, LAMBDA x : x <= half) = Cardinality({i \in DOMAIN s : 100 * s[i] <= half})
       /\ Share(s, LAMBDA x : x >= half) = Cardinality({i \in DOMAIN s : 100 * s[i] >= half})
  BY DEF Share
<1> QED
  BY <1>5, <1>8, <1>9, <1>10, <1>11, <1>12 DEF s, keys, row, low, half, top

(* The trend counts each of the signals that match.                        *)
LEMMA TrendCounts ==
  ASSUME MarketInv, NEW days, NEW competitors, NEW types
  PROVE  TrendTotal(SignalTrend(days, competitors, types)) = Cardinality(Matching(days, competitors, types))
<1> DEFINE rows == Matching(days, competitors, types)
           trend == SignalTrend(days, competitors, types)
           day == [s \in rows |-> s.on]
           total == [d \in DOMAIN trend |-> trend[d].total]
<1>1. IsFiniteSet(rows)
  BY FS_Subset DEF MarketInv, Matching, Since
<1>2. /\ DOMAIN trend = {day[s] : s \in DOMAIN day} /\ DOMAIN day = rows
      /\ \A d \in DOMAIN trend : total[d] = Cardinality(OfPart(rows, day, d))
  <2>1. /\ DOMAIN trend = {s.on : s \in rows}
        /\ \A d \in DOMAIN trend : trend[d].total = Cardinality({s \in rows : s.on = d})
    BY DEF SignalTrend
  <2>2. \A d : {s \in rows : s.on = d} = OfPart(rows, day, d)
    BY DEF OfPart
  <2> HIDE DEF trend, rows
  <2> QED
    BY <2>1, <2>2
<1>3. TrendTotal(trend) = Total(total, DOMAIN trend)
  BY SumOverIsTotal DEF TrendTotal
<1> HIDE DEF day, total, rows, trend
<1>4. IsFiniteSet(DOMAIN trend) /\ \A s \in rows : day[s] \in DOMAIN trend
  BY <1>1, <1>2, ImageIsFinite
<1>5. Total(total, DOMAIN trend) = Cardinality(rows)
  BY <1>1, <1>2, <1>4, CountedByPart
<1> QED
  BY <1>3, <1>5 DEF trend, rows

(* The comparison counts those of each competitor by their types.          *)
OfCompetitor(days, c) == {s \in Since(days) : s.competitor = c}
LEMMA ComparisonCounts ==
  ASSUME MarketInv, NEW days, NEW c \in Competitors
  PROVE  LET comparison == CompetitorComparison(days) IN
         /\ comparison[c].total = Cardinality(OfCompetitor(days, c))
         /\ \A t \in DOMAIN comparison[c].counts :
                comparison[c].counts[t] = Cardinality({s \in OfCompetitor(days, c) : s.type = t})
<1> DEFINE rows == OfCompetitor(days, c)
           type == [s \in rows |-> s.type]
           counts == [t \in {s.type : s \in rows} |-> Cardinality({s \in rows : s.type = t})]
<1>1. IsFiniteSet(rows)
  BY FS_Subset DEF MarketInv, OfCompetitor, Since
<1>2. /\ CompetitorComparison(days)[c].counts = counts
      /\ CompetitorComparison(days)[c].total = SumOver(counts)
  BY DEF CompetitorComparison, OfCompetitor
<1>3. /\ DOMAIN counts = {type[s] : s \in DOMAIN type} /\ DOMAIN type = rows
      /\ \A t \in DOMAIN counts : counts[t] = Cardinality(OfPart(rows, type, t))
  <2>1. \A t : {s \in rows : s.type = t} = OfPart(rows, type, t)
    BY DEF OfPart
  <2> QED
    BY <2>1
<1>4. \A t \in DOMAIN counts : counts[t] = Cardinality({s \in rows : s.type = t})
  OBVIOUS
<1> HIDE DEF rows, type, counts
<1>5. IsFiniteSet(DOMAIN counts) /\ \A s \in rows : type[s] \in DOMAIN counts
  BY <1>1, <1>3, ImageIsFinite
<1>6. Total(counts, DOMAIN counts) = Cardinality(rows)
  BY <1>1, <1>3, <1>5, CountedByPart
<1> QED
  BY <1>2, <1>4, <1>6, SumOverIsTotal DEF rows

LEMMA CountsAgree == MarketInv => SignalCountsAgree
<1> SUFFICES ASSUME MarketInv PROVE SignalCountsAgree
  OBVIOUS
<1>1. \A s \in marketSignals : s.competitor \in Competitors /\ s.type \in SignalType
  BY DEF MarketInv, MarketTypeOK
<1>2. \A days : Matching(days, Competitors, SignalType) = Since(days)
  BY <1>1 DEF Matching, Since
<1>3. \A days : IsFiniteSet(Since(days))
  BY FS_Subset DEF MarketInv, Since
<1>4. ASSUME NEW days \in SignalWindows
      PROVE  LET comparison == CompetitorComparison(days) IN
             /\ TrendTotal(SignalTrend(days, Competitors, SignalType)) =
                    SumOver([c \in Competitors |-> comparison[c].total])
             /\ \A c \in Competitors : \A t \in DOMAIN comparison[c].counts :
                    /\ AlertCount(t, days, {c}) = comparison[c].counts[t]
                    /\ TrendTotal(SignalTrend(days, {c}, {t})) = comparison[c].counts[t]
  <2> DEFINE comparison == CompetitorComparison(days)
             total == [c \in Competitors |-> comparison[c].total]
             whose == [s \in Since(days) |-> s.competitor]
  <2>1. TrendTotal(SignalTrend(days, Competitors, SignalType)) = Cardinality(Since(days))
    BY <1>2, TrendCounts
  <2>2. \A c \in Competitors : total[c] = Cardinality(OfCompetitor(days, c))
    BY ComparisonCounts
  <2>3. \A c \in Competitors : OfCompetitor(days, c) = OfPart(Since(days), whose, c)
    BY DEF OfCompetitor, OfPart
  <2>4. \A s \in Since(days) : whose[s] \in Competitors
    BY <1>1 DEF Since
  <2>5. SumOver(total) = Total(total, Competitors)
    BY SumOverIsTotal
  <2> HIDE DEF total, whose
  <2>6. \A c \in Competitors : total[c] = Cardinality(OfPart(Since(days), whose, c))
    BY <2>2, <2>3
  <2>7. Total(total, Competitors) = Cardinality(Since(days))
    BY <1>3, <2>4, <2>6, MarketAssumption, CountedByPart
  <2>8. ASSUME NEW c \in Competitors, NEW t \in DOMAIN comparison[c].counts
        PROVE  /\ AlertCount(t, days, {c}) = comparison[c].counts[t]
               /\ TrendTotal(SignalTrend(days, {c}, {t})) = comparison[c].counts[t]
    <3>1. comparison[c].counts[t] = Cardinality({s \in OfCompetitor(days, c) : s.type = t})
      BY ComparisonCounts
    <3>2. {s \in OfCompetitor(days, c) : s.type = t} = Matching(days, {c}, {t})
      BY DEF OfCompetitor, Matching
    <3>3. TrendTotal(SignalTrend(days, {c}, {t})) = Cardinality(Matching(days, {c}, {t}))
      BY TrendCounts
    <3> QED
      BY <3>1, <3>2, <3>3 DEF AlertCount
  <2> QED
    BY <2>1, <2>5, <2>7, <2>8 DEF total
<1>5. BriefCount = TrendTotal(SignalTrend(7, Competitors, SignalType))
  BY <1>2, TrendCounts DEF BriefCount
<1>6. \A s \in marketSignals : s.written = {} => Delta(s).relevance = s.marker
  BY DEF MarketInv, Delta
<1> QED
  BY <1>4, <1>5, <1>6 DEF SignalCountsAgree

(* A product grows with its factors, and what falls below zero is cut.     *)
LEMMA ProductGrows ==
  ASSUME NEW a \in Nat, NEW b \in Nat, NEW p \in Nat, NEW q \in Nat, NEW x \in Int, NEW y \in Int,
         a <= b, p <= q, x <= y
  PROVE  /\ a * p <= b * q
         /\ Max({0, a * p * x}) <= Max({0, b * q * y})
<1>1. a * p \in Nat /\ b * q \in Nat /\ b * p \in Nat
  OBVIOUS
<1>2. a * p <= b * p /\ b * p <= b * q
  OBVIOUS
<1> DEFINE m == a * p
           n == b * q
<1>3. m \in Nat /\ n \in Nat /\ m <= n
  BY <1>1, <1>2
<1>4. a * p * x = m * x /\ b * q * y = n * y
  OBVIOUS
<1> HIDE DEF m, n
<1>5. m * x \in Int /\ n * y \in Int
  BY <1>3
<1>6. m * x > 0 => m * x <= n * y
  <2>1. CASE x >= 0
    <3>1. m * x <= n * x /\ n * x <= n * y
      BY <1>3, <2>1
    <3>2. n * x \in Int
      BY <1>3
    <3> QED
      BY <1>5, <3>1, <3>2
  <2>2. CASE x < 0
    <3>1. m * x <= 0
      BY <1>3, <2>2
    <3> QED
      BY <1>5, <3>1
  <2> QED
    BY <2>1, <2>2
<1> DEFINE s == m * x
           t == n * y
<1>7. s \in Int /\ t \in Int /\ (s > 0 => s <= t)
  BY <1>5, <1>6
<1> HIDE DEF s, t
<1>8. Max({0, s}) = (IF 0 >= s THEN 0 ELSE s) /\ Max({0, t}) = IF 0 >= t THEN 0 ELSE t
  BY <1>7, MaxOfTwo
<1>9. Max({0, s}) <= Max({0, t})
  BY <1>7, <1>8
<1>10. Max({0, a * p * x}) <= Max({0, b * q * y})
  BY <1>4, <1>9 DEF s, t
<1> QED
  BY <1>2, <1>1, <1>10

LEMMA InOrderOfScenarios == ScenariosAreInOrder
<1> SUFFICES ASSUME NEW l \in Levers, l.churn >= -20, NoFactorIsNegative(l)
             PROVE  LET scenarios == Scenarios(l)
                        AtMost(x, y) == x.levers <= y.levers /\ x.others <= y.others
                    IN  /\ AtMost(scenarios.conservative, scenarios.base)
                        /\ AtMost(scenarios.base, scenarios.aggressive)
  BY DEF ScenariosAreInOrder
<1> DEFINE m == l.marketing
           p == l.pricing
           c == l.churn
           v == l.conversion
           o == l.orderValue
           less == Max({c - 4, -20})
<1>1. m \in Int /\ p \in Int /\ c \in Int /\ v \in Int /\ o \in Int
  BY MarketAssumption
<1>2. m >= -95 /\ p >= -98 /\ c >= -20 /\ v >= -97 /\ o >= -98
  BY DEF NoFactorIsNegative
<1>3. /\ Scenarios(l).conservative.levers = Multiplier(m - 5, p - 2, c + 2)
      /\ Scenarios(l).base.levers = Multiplier(m, p, c)
      /\ Scenarios(l).aggressive.levers = Multiplier(m + 8, p + 3, less)
      /\ Scenarios(l).conservative.others = (100 + (v - 3)) * (100 + (o - 2))
      /\ Scenarios(l).base.others = (100 + v) * (100 + o)
      /\ Scenarios(l).aggressive.others = (100 + (v + 5)) * (100 + (o + 4))
  BY DEF Scenarios, Factors
<1> HIDE DEF m, p, c, v, o
<1>4. less \in Int /\ less <= c
  <2> DEFINE d == c - 4
  <2>1. d \in Int /\ -20 \in Int
    BY <1>1
  <2> HIDE DEF d
  <2>2. Max({d, -20}) = IF d >= -20 THEN d ELSE -20
    BY <2>1, MaxOfTwo
  <2> QED
    BY <1>1, <1>2, <2>2 DEF d
<1> HIDE DEF less
<1>5. Multiplier(m - 5, p - 2, c + 2) <= Multiplier(m, p, c)
  <2>1. /\ 100 + (m - 5) \in Nat /\ 100 + m \in Nat /\ 100 + (m - 5) <= 100 + m
        /\ 100 + (p - 2) \in Nat /\ 100 + p \in Nat /\ 100 + (p - 2) <= 100 + p
        /\ 100 - (c + 2) \in Int /\ 100 - c \in Int /\ 100 - (c + 2) <= 100 - c
    BY <1>1, <1>2
  <2> QED
    BY <2>1, ProductGrows DEF Multiplier
<1>6. Multiplier(m, p, c) <= Multiplier(m + 8, p + 3, less)
  <2>1. /\ 100 + (m + 8) \in Nat /\ 100 + m \in Nat /\ 100 + m <= 100 + (m + 8)
        /\ 100 + (p + 3) \in Nat /\ 100 + p \in Nat /\ 100 + p <= 100 + (p + 3)
        /\ 100 - less \in Int /\ 100 - c \in Int /\ 100 - c <= 100 - less
    BY <1>1, <1>2, <1>4
  <2> QED
    BY <2>1, ProductGrows DEF Multiplier
<1>7. /\ (100 + (v - 3)) * (100 + (o - 2)) <= (100 + v) * (100 + o)
      /\ (100 + v) * (100 + o) <= (100 + (v + 5)) * (100 + (o + 4))
  <2>1. /\ 100 + (v - 3) \in Nat /\ 100 + v \in Nat /\ 100 + (v + 5) \in Nat
        /\ 100 + (o - 2) \in Nat /\ 100 + o \in Nat /\ 100 + (o + 4) \in Nat
        /\ 100 + (v - 3) <= 100 + v /\ 100 + v <= 100 + (v + 5)
        /\ 100 + (o - 2) <= 100 + o /\ 100 + o <= 100 + (o + 4)
    BY <1>1, <1>2
  <2> QED
    BY <2>1, ProductGrows
<1> QED
  BY <1>3, <1>5, <1>6, <1>7

(***************************************************************************)
(* The metrics                                                             *)
(***************************************************************************)

(* The rows of a table can be counted, and each is valid and was recorded. *)
Recorded(rows) ==
    /\ IsFiniteSet(DOMAIN rows)
    /\ \A r \in DOMAIN rows : rows[r] \in Nat \ {0} /\ IsRow(r)

(* While an audit runs there is what it seeded.                            *)
Seeded(mode, day) == IF mode = "rich" THEN RichFixtures(day) ELSE StressFixtures(day)
AnalyticsInv ==
    /\ AnalyticsTypeOK
    /\ Recorded(ledger)
    /\ audit # NoAudit => ledger = Seeded(audit.mode, audit.day)

LEMMA JoinRecorded ==
  ASSUME NEW f, NEW g, Recorded(f), Recorded(g) PROVE Recorded(Join(f, g))
<1>1. DOMAIN Join(f, g) = DOMAIN f \cup DOMAIN g
  BY DEF Join
<1>2. IsFiniteSet(DOMAIN Join(f, g))
  BY <1>1, FS_Union DEF Recorded
<1>3. \A r \in DOMAIN Join(f, g) : Join(f, g)[r] = IF r \in DOMAIN f THEN f[r] ELSE g[r]
  BY DEF Join
<1> QED
  BY <1>1, <1>2, <1>3 DEF Recorded

LEMMA OnceRecorded ==
  ASSUME NEW rows, IsFiniteSet(rows), \A r \in rows : IsRow(r)
  PROVE  Recorded(Once(rows))
  BY DEF Recorded, Once

(* The same row n times, and an event of every kind for every customer.    *)
Copies(row, n) == [r \in {row} |-> n]
EventsOf(ids, kinds, at) == {EventRow(c, kind, at) : c \in ids, kind \in kinds}

LEMMA SomeRecorded ==
  ASSUME NEW row, NEW n \in Nat \ {0}, IsRow(row) PROVE Recorded(Copies(row, n))
<1>1. IsFiniteSet({row})
  BY FS_Singleton
<1> QED
  BY <1>1 DEF Recorded, Copies

LEMMA RangesAreFinite == ASSUME NEW n, n \in {2, 5} PROVE IsFiniteSet(1..n) /\ IsFiniteSet(0..79)
<1> DEFINE none == 0
           one == 1
           last == 79
<1>1. none \in Int /\ one \in Int /\ last \in Int /\ n \in Int
  OBVIOUS
<1> HIDE DEF none, one, last
<1>2. IsFiniteSet(one .. n) /\ IsFiniteSet(none .. last)
  BY <1>1, FS_Interval
<1> QED
  BY <1>2 DEF none, one, last

LEMMA PairIsFinite == ASSUME NEW a, NEW b PROVE IsFiniteSet({a, b})
<1>1. IsFiniteSet({a}) /\ {a, b} = {a} \cup {b}
  BY FS_Singleton
<1>2. IsFiniteSet({a} \cup {b})
  BY <1>1, FS_AddElement
<1> QED
  BY <1>1, <1>2

LEMMA EventsOfAll ==
  ASSUME NEW ids, NEW kinds, IsFiniteSet(ids), IsFiniteSet(kinds), NEW at \in Int
  PROVE  IsFiniteSet(EventsOf(ids, kinds, at)) /\ \A r \in EventsOf(ids, kinds, at) : IsRow(r)
<1> DEFINE f == [p \in ids \X kinds |-> EventRow(p[1], p[2], at)]
           rows == {EventRow(c, kind, at) : c \in ids, kind \in kinds}
<1>1. IsFiniteSet(DOMAIN f)
  BY FS_Product
<1>2. rows = {f[p] : p \in DOMAIN f}
  <2>1. ASSUME NEW r \in rows PROVE r \in {f[p] : p \in DOMAIN f}
    <3>1. PICK c \in ids, kind \in kinds : r = EventRow(c, kind, at)
      OBVIOUS
    <3>2. <<c, kind>> \in DOMAIN f /\ f[<<c, kind>>] = r
      BY <3>1
    <3> QED
      BY <3>2
  <2>2. \A p \in DOMAIN f : p[1] \in ids /\ p[2] \in kinds /\ f[p] = EventRow(p[1], p[2], at)
    OBVIOUS
  <2> QED
    BY <2>1, <2>2
<1>3. \A r \in rows : IsRow(r)
  BY DEF EventRow, IsRow
<1> HIDE DEF f, rows
<1>4. IsFiniteSet(rows)
  BY <1>1, <1>2, ImageIsFinite
<1>5. rows = EventsOf(ids, kinds, at)
  BY DEF rows, EventsOf
<1> QED
  BY <1>3, <1>4, <1>5

LEMMA MonthsAreDays ==
  /\ IsFiniteSet(FirstsOfMonths) /\ FirstsOfMonths \subseteq Nat
  /\ \A S \in SUBSET FirstsOfMonths : IsFiniteSet(S) /\ S \in SUBSET Int
<1>1. IsFiniteSet(FirstsOfMonths) /\ FirstsOfMonths \subseteq Nat
  BY AnalyticsAssumption
<1>2. ASSUME NEW S \in SUBSET FirstsOfMonths PROVE IsFiniteSet(S) /\ S \in SUBSET Int
  <2>1. IsFiniteSet(S)
    BY <1>1, <1>2, FS_Subset
  <2>2. S \in SUBSET Int
    BY <1>1, <1>2
  <2> QED
    BY <2>1, <2>2
<1> QED
  BY <1>1, <1>2

(* Months begin and end.                                                   *)
LEMMA MonthHasBegun ==
  ASSUME NEW day \in Int, \E m \in FirstsOfMonths : m <= day
  PROVE  /\ MonthOf(day) \in FirstsOfMonths /\ MonthOf(day) \in Nat /\ MonthOf(day) <= day
         /\ \A m \in FirstsOfMonths : m <= day => m <= MonthOf(day)
<1> DEFINE S == {m \in FirstsOfMonths : m <= day}
<1>1. S \in SUBSET Int /\ S # {} /\ IsFiniteSet(S)
  BY MonthsAreDays
<1> HIDE DEF S
<1>2. \E x \in S : \A y \in S : x >= y
  <2>1. PICK x \in S : \A y \in S : y <= x
    BY <1>1, LastOfInstants
  <2> QED
    BY <1>1, <2>1
<1>3. Max(S) \in S /\ \A y \in S : Max(S) >= y
  BY <1>2 DEF Max
<1>4. MonthOf(day) = Max(S)
  BY DEF MonthOf, S
<1>5. MonthOf(day) \in FirstsOfMonths /\ MonthOf(day) <= day
  BY <1>3, <1>4 DEF S
<1>6. \A m \in FirstsOfMonths : m \in Nat
  BY MonthsAreDays
<1>7. ASSUME NEW m \in FirstsOfMonths, m <= day PROVE m <= MonthOf(day)
  <2>1. m \in S
    BY <1>7 DEF S
  <2> QED
    BY <1>3, <1>4, <1>5, <1>6, <2>1
<1> QED
  BY <1>5, <1>6, <1>7

LEMMA MonthEnds ==
  ASSUME NEW day \in Int, \E m \in FirstsOfMonths : m > day
  PROVE  /\ MonthAfter(day) \in FirstsOfMonths /\ MonthAfter(day) \in Nat /\ MonthAfter(day) > day
         /\ \A m \in FirstsOfMonths : m > day => MonthAfter(day) <= m
<1> DEFINE S == {m \in FirstsOfMonths : m > day}
<1>1. S \in SUBSET Int /\ S # {} /\ IsFiniteSet(S)
  BY MonthsAreDays
<1> HIDE DEF S
<1>2. Min(S) \in S /\ \A y \in S : Min(S) <= y
  BY <1>1, LeastInstant
<1>3. MonthAfter(day) = Min(S)
  BY DEF MonthAfter, S
<1> QED
  BY <1>2, <1>3, MonthsAreDays DEF S

LEMMA AuditDay ==
  ASSUME NEW day \in AuditDays
  PROVE  day \in Nat /\ MonthOf(day) \in Nat /\ MonthOf(day) <= day
<1>1. day \in Nat /\ \E m \in FirstsOfMonths : m <= day
  <2>1. day \in Nat /\ \E m \in FirstsOfMonths : m <= day - 6
    BY AnalyticsAssumption
  <2>2. PICK m \in FirstsOfMonths : m <= day - 6
    BY <2>1
  <2>3. m \in Nat
    BY AnalyticsAssumption
  <2> QED
    BY <2>1, <2>2, <2>3
<1> QED
  BY <1>1, MonthHasBegun

(* What the audit seeds is valid.                                          *)
LEMMA SeedsAreRows ==
  ASSUME NEW t \in Int, NEW u \in Int, NEW day \in Int
  PROVE  /\ \A channel : IsRow(CustomerRow(channel, t))
         /\ \A status : IsRow(SubscriptionRow(status, t, u))
         /\ \A campaign, cost, conversions :
                cost \in Nat /\ conversions \in Nat => IsRow(SpendRow(campaign, cost, conversions, day))
         /\ \A customer, amount, kind : amount \in Nat => IsRow(RevenueRow(customer, amount, kind, day))
         /\ \A customer, kind : IsRow(EventRow(customer, kind, t))
BY DEF IsRow, CustomerRow, SubscriptionRow, SpendRow, RevenueRow, EventRow

LEMMA RichRecorded == ASSUME NEW day \in AuditDays PROVE Recorded(RichFixtures(day))
<1> DEFINE month == MonthOf(day)
           noon == 2 * day + 1
           a == SpendRow(1, 150, 3, day)
           b == CustomerRow("Referral", 2 * (month - 20))
           c == SubscriptionRow("ACTIVE", 2 * (month - 90), 2 * (month - 30))
           d == SubscriptionRow("CANCELED", 2 * (month - 150), noon)
           e == RevenueRow(1, 60, "SUBSCRIPTION_STARTED", day)
           f == RevenueRow(2, 30, "SUBSCRIPTION_RENEWED", day)
           g == EventRow(0, "PURCHASE", 2 * (month - 20))
           one == {a, b, c, d, e, f, g}
           kinds == {"SIGNUP", "PURCHASE"}
           all == EventsOf(1..2, kinds, noon)
           more == Copies(CustomerRow("audit", noon), 3)
<1>1. day \in Nat /\ month \in Nat
  BY AuditDay
<1>2. /\ noon \in Int /\ 2 * (month - 20) \in Int /\ 2 * (month - 90) \in Int
      /\ 2 * (month - 30) \in Int /\ 2 * (month - 150) \in Int
  BY <1>1
<1>3. IsFiniteSet(1..2) /\ IsFiniteSet(kinds)
  <2>1. IsFiniteSet(1..2)
    BY RangesAreFinite, Zenon
  <2>2. IsFiniteSet(kinds)
    BY Zenon, PairIsFinite
  <2> QED
    BY <2>1, <2>2
<1>5. \A r \in one : IsRow(r)
  <2>1. IsRow(b) /\ IsRow(c) /\ IsRow(d) /\ IsRow(g)
    BY <1>2, SeedsAreRows
  <2>2. 150 \in Nat /\ 3 \in Nat /\ 60 \in Nat /\ 30 \in Nat /\ day \in Int
    BY <1>1
  <2>3. IsRow(a) /\ IsRow(e) /\ IsRow(f)
    BY <1>2, <2>2, SeedsAreRows
  <2> QED
    BY <2>1, <2>3
<1>6. IsRow(CustomerRow("audit", noon))
  BY <1>2, SeedsAreRows
<1> HIDE DEF kinds, noon
<1>4. IsFiniteSet(all) /\ \A r \in all : IsRow(r)
  BY <1>2, <1>3, EventsOfAll
<1>7. Recorded(more)
  <2>1. 3 \in Nat \ {0}
    OBVIOUS
  <2> QED
    BY <1>6, <2>1, SomeRecorded
<1>8. RichFixtures(day) = Join(Once(one \cup all), more)
  BY DEF RichFixtures, EventsOf, Copies, kinds, noon
<1> HIDE DEF a, b, c, d, e, f, g, all, more
<1>9. IsFiniteSet(one)
  <2>1. one = (((((({a} \cup {b}) \cup {c}) \cup {d}) \cup {e}) \cup {f}) \cup {g})
    OBVIOUS
  <2>2. IsFiniteSet({a})
    BY FS_Singleton
  <2>3. IsFiniteSet({a} \cup {b})
    BY <2>2, FS_AddElement
  <2>4. IsFiniteSet(({a} \cup {b}) \cup {c})
    BY <2>3, FS_AddElement
  <2>5. IsFiniteSet((({a} \cup {b}) \cup {c}) \cup {d})
    BY <2>4, FS_AddElement
  <2>6. IsFiniteSet(((({a} \cup {b}) \cup {c}) \cup {d}) \cup {e})
    BY <2>5, FS_AddElement
  <2>7. IsFiniteSet((((({a} \cup {b}) \cup {c}) \cup {d}) \cup {e}) \cup {f})
    BY <2>6, FS_AddElement
  <2>8. IsFiniteSet(((((({a} \cup {b}) \cup {c}) \cup {d}) \cup {e}) \cup {f}) \cup {g})
    BY <2>7, FS_AddElement
  <2> QED
    BY <2>1, <2>8
<1>10. IsFiniteSet(one \cup all)
  BY <1>4, <1>9, FS_Union
<1> QED
  <2>1. \A r \in one \cup all : IsRow(r)
    BY <1>4, <1>5
  <2>2. Recorded(Once(one \cup all))
    BY <1>10, <2>1, OnceRecorded
  <2> QED
    BY <1>7, <1>8, <2>2, JoinRecorded

LEMMA StressRecorded == ASSUME NEW day \in AuditDays PROVE Recorded(StressFixtures(day))
<1> DEFINE month == MonthOf(day)
           noon == 2 * day + 1
           kinds == {"SIGNUP", "PURCHASE"}
           Kind(i) == IF i % 2 = 0 THEN "SUBSCRIPTION_STARTED" ELSE "SUBSCRIPTION_RENEWED"
           spend == [k \in 1..5 |-> SpendRow(k, 100, 20, day)]
           revenue == [i \in 0..79 |-> RevenueRow(i, 10 + (i % 5) * 2, Kind(i), day)]
           all == EventsOf(0..79, kinds, noon)
           spends == {SpendRow(k, 100, 20, day) : k \in 1..5}
           revenues == {RevenueRow(i, 10 + (i % 5) * 2, Kind(i), day) : i \in 0..79}
           rows == spends \cup revenues \cup all
           old == Copies(CustomerRow("Legacy", 2 * (month - 10)), 40)
           new == Copies(CustomerRow("audit", noon), 100)
           active == Copies(SubscriptionRow("ACTIVE", 2 * (month - 120), 2 * (month - 30)), 80)
           gone == Copies(SubscriptionRow("CANCELED", 2 * (month - 120), noon), 20)
<1>1. day \in Nat /\ month \in Nat /\ noon \in Int
  BY AuditDay
<1>0. /\ 2 * (month - 10) \in Int /\ 2 * (month - 120) \in Int /\ 2 * (month - 30) \in Int
      /\ day \in Int
  BY <1>1
<1>2. IsFiniteSet(1..5) /\ IsFiniteSet(0..79) /\ IsFiniteSet(kinds)
  <2>1. IsFiniteSet(1..5) /\ IsFiniteSet(0..79)
    BY RangesAreFinite, Zenon
  <2>2. IsFiniteSet(kinds)
    BY Zenon, PairIsFinite
  <2> QED
    BY <2>1, <2>2
<1>3. StressFixtures(day) = Join(Once(rows), Join(old, Join(new, Join(active, gone))))
  BY DEF StressFixtures, EventsOf, Copies
<1>4. \A r \in spends \cup revenues : IsRow(r)
  <2>1. 100 \in Nat /\ 20 \in Nat /\ \A i \in 0..79 : 10 + (i % 5) * 2 \in Nat
    OBVIOUS
  <2>2. \A k \in 1..5 : IsRow(SpendRow(k, 100, 20, day))
    BY <1>0, <2>1, SeedsAreRows
  <2>3. \A i \in 0..79 : IsRow(RevenueRow(i, 10 + (i % 5) * 2, Kind(i), day))
    BY <1>0, <2>1, SeedsAreRows
  <2> QED
    BY <2>2, <2>3
<1>5. /\ IsRow(CustomerRow("Legacy", 2 * (month - 10))) /\ IsRow(CustomerRow("audit", noon))
      /\ IsRow(SubscriptionRow("ACTIVE", 2 * (month - 120), 2 * (month - 30)))
      /\ IsRow(SubscriptionRow("CANCELED", 2 * (month - 120), noon))
  BY <1>0, <1>1, SeedsAreRows
<1>6. /\ spends = {spend[k] : k \in DOMAIN spend} /\ DOMAIN spend = 1..5
      /\ revenues = {revenue[i] : i \in DOMAIN revenue} /\ DOMAIN revenue = 0..79
  BY Zenon
<1> HIDE DEF kinds, noon, month, spend, revenue, spends, revenues, Kind
<1>7. IsFiniteSet(all) /\ \A r \in all : IsRow(r)
  <2>1. noon \in Int
    BY <1>1
  <2> QED
    BY <1>2, <2>1, EventsOfAll
<1>8. IsFiniteSet(spends) /\ IsFiniteSet(revenues)
  BY <1>2, <1>6, ImageIsFinite
<1>9. 40 \in Nat \ {0} /\ 100 \in Nat \ {0} /\ 80 \in Nat \ {0} /\ 20 \in Nat \ {0}
  OBVIOUS
<1>10. Recorded(old) /\ Recorded(new) /\ Recorded(active) /\ Recorded(gone)
  BY <1>5, <1>9, SomeRecorded
<1> HIDE DEF all, old, new, active, gone
<1>11. IsFiniteSet(rows)
  BY <1>7, <1>8, FS_Union
<1>12. \A r \in rows : IsRow(r)
  BY <1>4, <1>7
<1> HIDE DEF rows
<1>13. Recorded(Once(rows))
  BY <1>11, <1>12, OnceRecorded
<1> QED
  BY <1>3, <1>10, <1>13, JoinRecorded

LEMMA AnalyticsInitInv == AnalyticsInit => AnalyticsInv
<1> SUFFICES ASSUME AnalyticsInit PROVE AnalyticsInv
  OBVIOUS
<1>1. DOMAIN ledger = {}
  BY DEF AnalyticsInit
<1> QED
  BY <1>1, FS_EmptySet DEF AnalyticsInit, AnalyticsInv, AnalyticsTypeOK, Recorded

LEMMA AnalyticsStepInv ==
  ASSUME AnalyticsInv, NEW what, AnalyticsStep(what) PROVE AnalyticsInv'
<1>1. ASSUME what \in DOMAIN MetricRows, RecordRow(what) PROVE AnalyticsInv'
  <2>1. PICK row \in MetricRows[what] : ledger' = With(row)
    BY <1>1 DEF RecordRow
  <2>2. /\ DOMAIN ledger' = DOMAIN ledger \cup {row}
        /\ \A r \in DOMAIN ledger' : ledger'[r] =
               IF r \in DOMAIN ledger THEN ledger[r] + (IF r = row THEN 1 ELSE 0) ELSE 1
    BY <2>1 DEF With
  <2>3. IsFiniteSet(DOMAIN ledger')
    BY <2>2, FS_AddElement DEF AnalyticsInv, Recorded
  <2>4. IsRow(row)
    BY <1>1, AnalyticsAssumption, Zenon
  <2>5. \A r \in DOMAIN ledger' : ledger'[r] \in Nat \ {0}
    BY <2>2 DEF AnalyticsInv, Recorded
  <2>6. \A r \in DOMAIN ledger' : IsRow(r)
    BY <2>2, <2>4 DEF AnalyticsInv, Recorded
  <2>7. UNCHANGED audit /\ audit = NoAudit
    BY <1>1 DEF RecordRow
  <2> QED
    BY <2>3, <2>5, <2>6, <2>7 DEF AnalyticsInv, AnalyticsTypeOK, Recorded
<1>2. ASSUME what \in {"rich", "stress"}, RunAudit(what) PROVE AnalyticsInv'
  <2>1. PICK day \in AuditDays :
            /\ audit' = [mode |-> what, day |-> day]
            /\ ledger' = IF what = "rich" THEN RichFixtures(day) ELSE StressFixtures(day)
    BY <1>2 DEF RunAudit
  <2>2. Recorded(ledger')
    BY <2>1, RichRecorded, StressRecorded
  <2>3. audit'.mode = what /\ audit'.day = day
    BY <2>1
  <2>4. ledger' = Seeded(audit'.mode, audit'.day)
    BY <2>1, <2>3 DEF Seeded
  <2>5. AnalyticsTypeOK'
    BY <1>2, <2>2, <2>3 DEF AnalyticsTypeOK, Recorded
  <2> QED
    BY <2>2, <2>4, <2>5 DEF AnalyticsInv
<1>3. ASSUME EndAudit PROVE AnalyticsInv'
  <2>1. DOMAIN ledger' = {}
    BY <1>3 DEF EndAudit
  <2> QED
    BY <1>3, <2>1, FS_EmptySet DEF EndAudit, AnalyticsInv, AnalyticsTypeOK, Recorded
<1> QED
  BY <1>1, <1>2, <1>3 DEF AnalyticsStep

LEMMA AnalyticsUnchanged == AnalyticsInv /\ UNCHANGED analyticsVars => AnalyticsInv'
  BY DEF AnalyticsInv, AnalyticsTypeOK, Recorded, analyticsVars

(* Who is activated in a range bought in it, and not before.               *)
LEMMA FirstPurchase ==
  ASSUME AnalyticsInv, NEW range \in Asked, NEW c \in Activated(range)
  PROVE  /\ c # NoCustomer
         /\ \E r \in Rows("event") :
               /\ r.kind = "PURCHASE" /\ r.customer = c /\ r.at \in Int
               /\ RangeStart(range) <= r.at /\ r.at <= RangeEnd(range)
               /\ \A s \in Rows("event") :
                      s.kind = "PURCHASE" /\ s.customer = c /\ s.at <= RangeEnd(range) => r.at <= s.at
<1> DEFINE upTo == {r \in Rows("event") : r.kind = "PURCHASE" /\ r.at <= RangeEnd(range)}
           mine == PurchasesOf(c) \cap upTo
           times == {r.at : r \in mine}
           at == [r \in mine |-> r.at]
<1>1. c \in {r.customer : r \in upTo} \ {NoCustomer} /\ Min(times) >= RangeStart(range)
  BY DEF Activated
<1>2. IsFiniteSet(Rows("event")) /\ \A r \in Rows("event") : r.at \in Int
  BY FS_Subset DEF AnalyticsInv, Recorded, Rows, IsRow
<1>3. IsFiniteSet(mine)
  BY <1>2, FS_Subset
<1>4. times = {at[r] : r \in DOMAIN at} /\ DOMAIN at = mine
  OBVIOUS
<1> HIDE DEF at
<1>5. IsFiniteSet(times)
  BY <1>3, <1>4, ImageIsFinite
<1>6. PICK b \in upTo : b.customer = c
  BY <1>1
<1>7. b \in mine
  BY <1>6 DEF PurchasesOf
<1>8. times \in SUBSET Int /\ times # {}
  BY <1>2, <1>7
<1>9. Min(times) \in times /\ \A t \in times : Min(times) <= t
  BY <1>5, <1>8, LeastInstant
<1>10. PICK r \in mine : r.at = Min(times)
  BY <1>9
<1>11. \A s \in Rows("event") :
           s.kind = "PURCHASE" /\ s.customer = c /\ s.at <= RangeEnd(range) => r.at <= s.at
  <2> SUFFICES ASSUME NEW s \in Rows("event"), s.kind = "PURCHASE", s.customer = c,
                      s.at <= RangeEnd(range)
               PROVE  r.at <= s.at
    OBVIOUS
  <2>1. s \in mine
    BY DEF PurchasesOf
  <2> QED
    BY <1>9, <1>10, <2>1
<1>12. r \in Rows("event") /\ r.kind = "PURCHASE" /\ r.customer = c /\ r.at <= RangeEnd(range)
  BY <1>10 DEF PurchasesOf
<1>13. r.at \in Int /\ RangeStart(range) \in Int
  BY <1>2, <1>12, AnalyticsAssumption DEF RangeStart
<1>14. RangeStart(range) <= r.at
  BY <1>1, <1>10, <1>13
<1> QED
  BY <1>1, <1>11, <1>12, <1>13, <1>14

LEMMA BuyersOfRange ==
  ASSUME NEW range
  PROVE  /\ Conversion(range).activated = Activated(range)
         /\ Conversion(range).customers =
                {r.customer : r \in {e \in During(Rows("event"), range) : e.kind = "PURCHASE"}}
                    \ {NoCustomer}
         /\ Conversion(range).activation =
                Ratio(Cardinality(Activated(range)), Cardinality(Conversion(range).customers))
  BY DEF Conversion

LEMMA AnalyticsInvActivates == AnalyticsInv => ActivatedOnce
<1> SUFFICES ASSUME AnalyticsInv, NEW range \in Asked
             PROVE  /\ Conversion(range).activated \subseteq Conversion(range).customers
                    /\ NoMore(Conversion(range).activation, <<1, 1>>)
                    /\ \A other \in Asked : other[1] > range[2] =>
                           Conversion(range).activated \cap Conversion(other).activated = {}
  BY DEF ActivatedOnce
<1> DEFINE bought == {e \in During(Rows("event"), range) : e.kind = "PURCHASE"}
           by == [e \in bought |-> e.customer]
           customers == Conversion(range).customers
<1>1. Activated(range) \subseteq customers
  <2> SUFFICES ASSUME NEW c \in Activated(range) PROVE c \in customers
    OBVIOUS
  <2>1. c # NoCustomer /\ \E r \in bought : r.customer = c
    BY FirstPurchase DEF During
  <2> QED
    BY <2>1, BuyersOfRange
<1>2. IsFiniteSet(customers)
  <2>1. IsFiniteSet(bought)
    BY FS_Subset DEF AnalyticsInv, Recorded, Rows, During
  <2>2. {e.customer : e \in bought} = {by[e] : e \in DOMAIN by} /\ DOMAIN by = bought
    OBVIOUS
  <2> HIDE DEF by
  <2>3. IsFiniteSet({e.customer : e \in bought})
    BY <2>1, <2>2, ImageIsFinite
  <2>4. customers \in SUBSET {e.customer : e \in bought}
    BY BuyersOfRange
  <2> QED
    BY <2>3, <2>4, FS_Subset
<1>3. NoMore(Conversion(range).activation, <<1, 1>>)
  <2>1. /\ Cardinality(Activated(range)) \in Nat /\ Cardinality(customers) \in Nat
        /\ Cardinality(Activated(range)) <= Cardinality(customers)
    BY <1>1, <1>2, FS_Subset, FS_CardinalityType
  <2> DEFINE n == Cardinality(Activated(range))
             d == Cardinality(customers)
  <2>2. Conversion(range).activation = Ratio(n, d)
    BY BuyersOfRange
  <2> HIDE DEF n, d
  <2>3. n \in Nat /\ d \in Nat /\ n <= d
    BY <2>1 DEF n, d
  <2>4. NoMore(Ratio(n, d), <<1, 1>>)
    BY <2>3 DEF NoMore, Ratio
  <2> QED
    BY <2>2, <2>4
<1>4. ASSUME NEW other \in Asked, other[1] > range[2], NEW c \in Activated(range), c \in Activated(other)
      PROVE  FALSE
  <2>1. PICK r \in Rows("event") :
            /\ r.kind = "PURCHASE" /\ r.customer = c /\ r.at \in Int /\ r.at <= RangeEnd(range)
    BY FirstPurchase
  <2>2. PICK s \in Rows("event") :
            /\ s.at \in Int /\ RangeStart(other) <= s.at /\ s.at <= RangeEnd(other)
            /\ r.at <= RangeEnd(other) => s.at <= r.at
    BY <1>4, <2>1, FirstPurchase
  <2>3. range[2] \in Nat /\ other[1] \in Nat /\ other[2] \in Nat
    BY AnalyticsAssumption
  <2> QED
    BY <1>4, <2>1, <2>2, <2>3 DEF RangeStart, RangeEnd
<1> QED
  BY <1>1, <1>3, <1>4, BuyersOfRange


(* What rows weigh, as sums of functions of them.                          *)
AmountOf(rows) == Weigh(rows, LAMBDA r : r.amount)
CostOf(rows) == Weigh(rows, LAMBDA r : r.cost)
ValueOf(rows) == Weigh(rows, LAMBDA r : r.value)
Amounts == [r \in Rows("revenue") |-> ledger[r] * r.amount]
Costs == [r \in Rows("spend") |-> ledger[r] * r.cost]
Values == [r \in Rows("deal") |-> ledger[r] * r.value]

LEMMA LedgerCounts ==
  ASSUME AnalyticsInv
  PROVE  /\ IsFiniteSet(DOMAIN ledger)
         /\ \A r \in DOMAIN ledger : ledger[r] \in Nat /\ ledger[r] # 0 /\ IsRow(r)
         /\ \A rows \in SUBSET DOMAIN ledger : IsFiniteSet(rows)
         /\ \A table : Rows(table) \in SUBSET DOMAIN ledger
<1>1. IsFiniteSet(DOMAIN ledger) /\ \A r \in DOMAIN ledger : ledger[r] \in Nat /\ ledger[r] # 0 /\ IsRow(r)
  BY DEF AnalyticsInv, Recorded
<1>2. \A rows \in SUBSET DOMAIN ledger : IsFiniteSet(rows)
  BY <1>1, FS_Subset
<1>3. \A table : Rows(table) \in SUBSET DOMAIN ledger
  BY DEF Rows
<1> QED
  BY <1>1, <1>2, <1>3

(* The terms of a sum over rows are those of a sum over a table.           *)
LEMMA WeighedAlike ==
  ASSUME NEW rows, IsFiniteSet(rows), NEW f, NEW g, DOMAIN g = rows, \A r \in rows : g[r] = f[r] /\ f[r] \in Nat
  PROVE  SumOver(g) = Total(f, rows) /\ SumOver(g) \in Nat /\ (SumOver(g) = 0 <=> \A r \in rows : f[r] = 0)
<1>1. SumOver(g) = Total(g, rows)
  BY SumOverIsTotal
<1>2. Total(g, rows) = Total(f, rows)
  BY TotalAgrees
<1>3. Total(f, rows) \in Nat /\ (Total(f, rows) = 0 <=> \A r \in rows : f[r] = 0)
  BY TotalType, TotalIsNothing
<1> QED
  BY <1>1, <1>2, <1>3

LEMMA CountOfRows ==
  ASSUME AnalyticsInv, NEW rows \in SUBSET DOMAIN ledger
  PROVE  /\ CountOf(rows) = Total(ledger, rows) /\ CountOf(rows) \in Nat
         /\ CountOf(rows) = 0 <=> rows = {}
<1> DEFINE g == [r \in rows |-> ledger[r] * 1]
<1>1. /\ IsFiniteSet(rows) /\ DOMAIN g = rows
      /\ \A r \in rows : g[r] = ledger[r] /\ ledger[r] \in Nat /\ ledger[r] # 0
  BY LedgerCounts
<1>2. CountOf(rows) = SumOver(g)
  BY DEF CountOf, Weigh
<1> HIDE DEF g
<1>3. SumOver(g) = Total(ledger, rows) /\ SumOver(g) \in Nat /\ (SumOver(g) = 0 <=> \A r \in rows : ledger[r] = 0)
  BY <1>1, WeighedAlike
<1> QED
  BY <1>1, <1>2, <1>3

LEMMA RowsWeigh ==
  ASSUME AnalyticsInv
  PROVE  /\ \A r \in Rows("revenue") : Amounts[r] \in Nat
         /\ \A r \in Rows("spend") : Costs[r] \in Nat
         /\ \A r \in Rows("deal") : Values[r] \in Nat
<1>1. /\ \A r \in Rows("revenue") : ledger[r] \in Nat /\ r.amount \in Nat
      /\ \A r \in Rows("spend") : ledger[r] \in Nat /\ r.cost \in Nat
      /\ \A r \in Rows("deal") : ledger[r] \in Nat /\ r.value \in Nat
  BY LedgerCounts DEF Rows, IsRow
<1>2. \A m, n \in Nat : m * n \in Nat
  OBVIOUS
<1> QED
  BY <1>1, <1>2 DEF Amounts, Costs, Values

LEMMA AmountOfRows ==
  ASSUME AnalyticsInv, NEW rows \in SUBSET Rows("revenue")
  PROVE  /\ AmountOf(rows) = Total(Amounts, rows) /\ AmountOf(rows) \in Nat
         /\ rows = {} => AmountOf(rows) = 0
<1> DEFINE g == [r \in rows |-> ledger[r] * r.amount]
<1>1. IsFiniteSet(rows) /\ DOMAIN g = rows
  BY LedgerCounts
<1>2. \A r \in rows : g[r] = Amounts[r] /\ Amounts[r] \in Nat
  BY RowsWeigh DEF Amounts
<1>3. AmountOf(rows) = SumOver(g)
  BY DEF AmountOf, Weigh
<1> HIDE DEF g
<1> QED
  BY <1>1, <1>2, <1>3, WeighedAlike

LEMMA CostOfRows ==
  ASSUME AnalyticsInv, NEW rows \in SUBSET Rows("spend")
  PROVE  CostOf(rows) = Total(Costs, rows) /\ CostOf(rows) \in Nat
<1> DEFINE g == [r \in rows |-> ledger[r] * r.cost]
<1>1. IsFiniteSet(rows) /\ DOMAIN g = rows
  BY LedgerCounts
<1>2. \A r \in rows : g[r] = Costs[r] /\ Costs[r] \in Nat
  BY RowsWeigh DEF Costs
<1>3. CostOf(rows) = SumOver(g)
  BY DEF CostOf, Weigh
<1> HIDE DEF g
<1> QED
  BY <1>1, <1>2, <1>3, WeighedAlike

LEMMA ValueOfRows ==
  ASSUME AnalyticsInv, NEW rows \in SUBSET Rows("deal")
  PROVE  ValueOf(rows) = Total(Values, rows) /\ ValueOf(rows) \in Nat
<1> DEFINE g == [r \in rows |-> ledger[r] * r.value]
<1>1. IsFiniteSet(rows) /\ DOMAIN g = rows
  BY LedgerCounts
<1>2. \A r \in rows : g[r] = Values[r] /\ Values[r] \in Nat
  BY RowsWeigh DEF Values
<1>3. ValueOf(rows) = SumOver(g)
  BY DEF ValueOf, Weigh
<1> HIDE DEF g
<1> QED
  BY <1>1, <1>2, <1>3, WeighedAlike

(* The figures that are computed of which rows.                            *)
SpendIn(range, channel, campaign) ==
    {r \in During(Rows("spend"), range) : Chosen(r.channel, channel) /\ Chosen(r.campaign, campaign)}
NewIn(range, channel) == {c \in During(Rows("customer"), range) : Chosen(c.channel, channel)}
CACOf(range, channel, campaign, rows) ==
    /\ CAC(range, channel, campaign).totalSpend = CostOf(rows)
    /\ CAC(range, channel, campaign).newCustomers = CountOf(NewIn(range, channel))
    /\ CAC(range, channel, campaign).sourceRecordCount = CountOf(rows)
    /\ CAC(range, channel, campaign).cac = Ratio(CostOf(rows), CountOf(NewIn(range, channel)))
    /\ DOMAIN CAC(range, channel, campaign).byChannel = {r.channel : r \in rows}
    /\ \A c \in {r.channel : r \in rows} :
           CAC(range, channel, campaign).byChannel[c].spend = CostOf({r \in rows : r.channel = c})
    /\ DOMAIN CAC(range, channel, campaign).byCampaign = {r.campaign : r \in rows}
    /\ \A k \in {r.campaign : r \in rows} :
           CAC(range, channel, campaign).byCampaign[k].spend = CostOf({r \in rows : r.campaign = k})
LEMMA CACIs ==
  ASSUME NEW range, NEW channel, NEW campaign, NEW rows, rows = SpendIn(range, channel, campaign)
  PROVE  CACOf(range, channel, campaign, rows)
BY DEF CACOf, CAC, SpendIn, NewIn, CostOf

BuyersIn(range) == {r.customer : r \in During(Rows("revenue"), range)} \ {NoCustomer}
LEMMA LTVIs ==
  ASSUME NEW range
  PROVE  /\ LTV(range).customers = Cardinality(BuyersIn(range))
         /\ LTV(range).perCustomer =
                Ratio(AmountOf(During(Rows("revenue"), range)), Cardinality(BuyersIn(range)))
  BY DEF LTV, BuyersIn, AmountOf

CustomersBefore(range) == {c \in Rows("customer") : c.at < RangeEnd(range)}
CanceledIn(range) ==
    {s \in Rows("subscription") : /\ s.status = "CANCELED" /\ s.end # NoEnd
                                  /\ RangeStart(range) <= s.end /\ s.end <= RangeEnd(range)}
AtStart(range) ==
    [m \in MonthSeries(range) |-> CountOf({c \in CustomersBefore(range) : c.at < 2 * m})]
Lost(range) ==
    [m \in MonthSeries(range) |->
        Min({AtStart(range)[m],
             CountOf({s \in CanceledIn(range) : 2 * m <= s.end /\ s.end <= MonthEnd(m)})})]
LEMMA ChurnIs ==
  ASSUME NEW range
  PROVE  /\ Churn(range).atStart = SumOver(AtStart(range))
         /\ Churn(range).lost = SumOver(Lost(range))
         /\ Churn(range).overall = Ratio(SumOver(Lost(range)), SumOver(AtStart(range)))
         /\ \A m \in MonthSeries(range) :
                Churn(range).byMonth[m] = Ratio(Lost(range)[m], AtStart(range)[m])
  BY DEF Churn, CustomersBefore, CanceledIn, AtStart, Lost

LEMMA RevenueIs ==
  ASSUME NEW range
  PROVE  /\ Revenue(range).total = AmountOf(During(Rows("revenue"), range))
         /\ Revenue(range).mrr =
                AmountOf({r \in During(Rows("revenue"), range) : r.kind \in RecurringTypes})
         /\ Revenue(range).history = ByMonth(During(Rows("revenue"), range))
         /\ LET before == AmountOf({r \in Rows("revenue") :
                              Previous(range)[1] <= r.at /\ r.at <= Previous(range)[2]})
            IN  Revenue(range).growth =
                    IF before = 0 THEN <<0, 1>>
                    ELSE <<AmountOf(During(Rows("revenue"), range)) - before, before>>
  BY DEF Revenue, AmountOf

(* The sums that make up a churn.                                          *)
LEMMA MonthsOfChurn ==
  ASSUME AnalyticsInv, NEW range
  PROVE  /\ IsFiniteSet(MonthSeries(range)) /\ MonthSeries(range) \subseteq FirstsOfMonths
         /\ DOMAIN AtStart(range) = MonthSeries(range) /\ DOMAIN Lost(range) = MonthSeries(range)
         /\ \A m \in MonthSeries(range) :
                /\ AtStart(range)[m] \in Nat /\ Lost(range)[m] \in Nat
                /\ Lost(range)[m] <= AtStart(range)[m]
         /\ SumOver(AtStart(range)) = Total(AtStart(range), MonthSeries(range))
         /\ SumOver(Lost(range)) = Total(Lost(range), MonthSeries(range))
         /\ SumOver(AtStart(range)) \in Nat /\ SumOver(Lost(range)) \in Nat
         /\ SumOver(Lost(range)) <= SumOver(AtStart(range))
<1> DEFINE months == MonthSeries(range)
           at == AtStart(range)
           lost == Lost(range)
<1>1. months \subseteq FirstsOfMonths
  BY DEF MonthSeries
<1>2. IsFiniteSet(months)
  BY <1>1, MonthsAreDays
<1>3. DOMAIN at = months /\ DOMAIN lost = months
  BY DEF AtStart, Lost
<1>4. ASSUME NEW m \in months PROVE at[m] \in Nat /\ lost[m] \in Nat /\ lost[m] <= at[m]
  <2> DEFINE c == {c \in CustomersBefore(range) : c.at < 2 * m}
             s == {s \in CanceledIn(range) : 2 * m <= s.end /\ s.end <= MonthEnd(m)}
             a == CountOf(c)
             b == CountOf(s)
  <2>1. c \in SUBSET DOMAIN ledger /\ s \in SUBSET DOMAIN ledger
    BY DEF CustomersBefore, CanceledIn, Rows
  <2>2. at[m] = a /\ lost[m] = Min({at[m], b})
    BY DEF AtStart, Lost
  <2> HIDE DEF c, s, at, lost
  <2>3. a \in Nat /\ b \in Nat
    BY <2>1, CountOfRows
  <2> HIDE DEF a, b
  <2>4. a \in Int /\ b \in Int /\ lost[m] = Min({a, b})
    BY <2>2, <2>3
  <2>5. lost[m] = IF a <= b THEN a ELSE b
    BY <2>4, MinOfTwo
  <2> QED
    BY <2>2, <2>3, <2>5
<1> HIDE DEF months, at, lost
<1>5. SumOver(at) = Total(at, months) /\ SumOver(lost) = Total(lost, months)
  BY <1>3, SumOverIsTotal
<1>6. Total(at, months) \in Nat /\ Total(lost, months) \in Nat
  BY <1>2, <1>4, TotalType
<1>7. \A m \in months : lost[m] \in Int /\ at[m] \in Int /\ lost[m] <= at[m]
  BY <1>4
<1>8. Total(lost, months) <= Total(at, months)
  BY <1>2, <1>7, TotalGrows
<1> QED
  BY <1>1, <1>2, <1>3, <1>4, <1>5, <1>6, <1>8 DEF months, at, lost


(* A snapshot of a size says how much supports it.                         *)
Flags(size) == {f \in {"no_supporting_records", "low_sample_size"} :
                   IF f = "low_sample_size" THEN size \in 1..4 ELSE size = 0}
Snapped(value, size) == [value |-> value, sampleSize |-> size, flags |-> Flags(size)]
SnapshotOfCAC(range) ==
    Snapped(CAC(range, {}, {}).cac[1],
            Max({CAC(range, {}, {}).newCustomers, CAC(range, {}, {}).sourceRecordCount}))
SnapshotOfLTV(range) ==
    Snapped(LTV(range).perCustomer[1] * LTV(range).months[1],
            Max({CountOf(Rows("subscription")), LTV(range).customers}))
LEMMA SnapshotIs ==
  ASSUME NEW range
  PROVE  /\ Snapshot(range).cac = SnapshotOfCAC(range)
         /\ Snapshot(range).ltv = SnapshotOfLTV(range)
         /\ Snapshot(range).revenue =
                Snapped(Revenue(range).total, CountOf(During(Rows("revenue"), range)))
         /\ Snapshot(range).churn = Snapped(Churn(range).overall[1], Churn(range).atStart)
  BY DEF Snapshot, Snapped, SnapshotOfCAC, SnapshotOfLTV, Flags

LEMMA FlagsOfSize ==
  ASSUME NEW size \in Nat
  PROVE  /\ "no_supporting_records" \in Flags(size) <=> size = 0
         /\ size = 0 => Flags(size) = {"no_supporting_records"}
<1>1. \A f : f \in Flags(size) <=> \/ f = "no_supporting_records" /\ size = 0
                                   \/ f = "low_sample_size" /\ size \in 1..4
  BY DEF Flags
<1>2. size = 0 => size \notin 1..4
  OBVIOUS
<1> QED
  BY <1>1, <1>2

(* A figure that is 0 unless some record supports it.                      *)
Founded(snapshot) ==
    /\ snapshot.value # 0 => "no_supporting_records" \notin snapshot.flags
    /\ ledger = <<>> => snapshot.flags = {"no_supporting_records"}
LEMMA FoundedOnSize ==
  ASSUME NEW value, NEW size \in Nat, value # 0 => size # 0, ledger = <<>> => size = 0
  PROVE  Founded(Snapped(value, size))
BY FlagsOfSize DEF Founded, Snapped

LEMMA NothingRecorded ==
  ASSUME ledger = <<>>
  PROVE  \A table, range : Rows(table) = {} /\ During(Rows(table), range) = {}
BY DEF Rows, During

LEMMA LargerOfTwo ==
  ASSUME NEW a \in Nat, NEW b \in Nat
  PROVE  Max({a, b}) \in Nat /\ (Max({a, b}) = 0 <=> a = 0 /\ b = 0)
<1>1. a \in Int /\ b \in Int
  OBVIOUS
<1>2. Max({a, b}) = IF a >= b THEN a ELSE b
  BY <1>1, MaxOfTwo
<1> QED
  BY <1>2

LEMMA TablesAreRows ==
  ASSUME NEW table, NEW range
  PROVE  Rows(table) \in SUBSET DOMAIN ledger /\ During(Rows(table), range) \in SUBSET DOMAIN ledger
BY DEF Rows, During

LEMMA CACFounded == ASSUME AnalyticsInv, NEW range PROVE Founded(SnapshotOfCAC(range))
<1> DEFINE rows == SpendIn(range, {}, {})
           new == NewIn(range, {})
           n == CountOf(new)
           s == CountOf(rows)
           c == CostOf(rows)
<1>1. rows \in SUBSET DOMAIN ledger /\ new \in SUBSET DOMAIN ledger /\ rows \in SUBSET Rows("spend")
  BY DEF SpendIn, NewIn, During, Rows
<1>2. n \in Nat /\ s \in Nat /\ c \in Nat
  BY <1>1, CountOfRows, CostOfRows
<1>3. SnapshotOfCAC(range) = Snapped(Ratio(c, n)[1], Max({n, s}))
  <2>1. /\ CAC(range, {}, {}).cac = Ratio(c, n) /\ CAC(range, {}, {}).newCustomers = n
        /\ CAC(range, {}, {}).sourceRecordCount = s
    BY CACIs DEF CACOf
  <2> HIDE DEF c, n, s
  <2> QED
    BY <2>1 DEF SnapshotOfCAC
<1>4. ledger = <<>> => n = 0 /\ s = 0
  <2>1. ledger = <<>> => new = {} /\ rows = {}
    BY NothingRecorded DEF SpendIn, NewIn
  <2> QED
    BY <1>1, <2>1, CountOfRows
<1> HIDE DEF rows, new, n, s, c
<1>5. Ratio(c, n)[1] # 0 => n # 0
  BY <1>2 DEF Ratio
<1>6. Max({n, s}) \in Nat /\ (Max({n, s}) = 0 <=> n = 0 /\ s = 0)
  BY <1>2, LargerOfTwo
<1> QED
  BY <1>3, <1>4, <1>5, <1>6, FoundedOnSize

LEMMA RevenueFounded ==
  ASSUME AnalyticsInv, NEW range
  PROVE  Founded(Snapped(Revenue(range).total, CountOf(During(Rows("revenue"), range))))
<1> DEFINE rows == During(Rows("revenue"), range)
           n == CountOf(rows)
<1>1. rows \in SUBSET DOMAIN ledger /\ rows \in SUBSET Rows("revenue")
  BY TablesAreRows DEF During
<1>2. Revenue(range).total = AmountOf(rows)
  BY RevenueIs
<1> HIDE DEF rows
<1>3. n \in Nat /\ (n = 0 <=> rows = {})
  BY <1>1, CountOfRows
<1>4. AmountOf(rows) # 0 => n # 0
  BY <1>1, <1>3, AmountOfRows
<1>5. ledger = <<>> => n = 0
  BY <1>3, NothingRecorded DEF rows
<1> QED
  BY <1>2, <1>3, <1>4, <1>5, FoundedOnSize DEF rows

LEMMA BuyersAreCounted ==
  ASSUME AnalyticsInv, NEW range
  PROVE  /\ IsFiniteSet(BuyersIn(range)) /\ Cardinality(BuyersIn(range)) \in Nat
         /\ During(Rows("revenue"), range) = {} => Cardinality(BuyersIn(range)) = 0
<1> DEFINE rows == During(Rows("revenue"), range)
           by == [r \in rows |-> r.customer]
<1>1. IsFiniteSet(DOMAIN by)
  BY LedgerCounts, TablesAreRows
<1>2. IsFiniteSet({by[r] : r \in DOMAIN by})
  BY <1>1, ImageIsFinite
<1>3. BuyersIn(range) \subseteq {by[r] : r \in DOMAIN by}
  BY DEF BuyersIn
<1>4. IsFiniteSet(BuyersIn(range))
  BY <1>2, <1>3, FS_Subset
<1>5. rows = {} => BuyersIn(range) = {}
  BY DEF BuyersIn
<1> QED
  BY <1>4, <1>5, FS_EmptySet, FS_CardinalityType

LEMMA LTVFounded == ASSUME AnalyticsInv, NEW range PROVE Founded(SnapshotOfLTV(range))
<1> DEFINE subs == Rows("subscription")
           n == CountOf(subs)
           c == Cardinality(BuyersIn(range))
           a == AmountOf(During(Rows("revenue"), range))
           w == Weigh(subs, LAMBDA s : Max({0, (IF s.end = NoEnd THEN Present ELSE s.end) - s.start}))
           value == Ratio(a, c)[1] * Ratio(w, 60 * n)[1]
<1>1. subs \in SUBSET DOMAIN ledger
  BY TablesAreRows
<1>2. n \in Nat /\ (n = 0 <=> subs = {}) /\ c \in Nat
  BY <1>1, CountOfRows, BuyersAreCounted
<1>3. SnapshotOfLTV(range) = Snapped(LTV(range).perCustomer[1] * LTV(range).months[1], Max({n, c}))
  BY LTVIs DEF SnapshotOfLTV
<1>4. LTV(range).perCustomer = Ratio(a, c)
  BY LTVIs
<1>5. ledger = <<>> => n = 0 /\ c = 0
  BY <1>1, <1>2, NothingRecorded, BuyersAreCounted
<1> HIDE DEF subs, n, c, a, w, value
<1>6. LTV(range).months[1] = 0 \/ n # 0
  <2>1. LTV(range).months = Ratio(w, 60 * n)
    BY DEF LTV, w, n, subs
  <2> QED
    BY <1>2, <2>1 DEF Ratio
<1>7. a \in Nat
  BY AmountOfRows DEF During, a
<1>8. Ratio(a, c)[1] \in Nat
  BY <1>2, <1>7 DEF Ratio
<1>9. n = 0 => LTV(range).perCustomer[1] * LTV(range).months[1] = 0
  BY <1>4, <1>6, <1>8
<1>10. Max({n, c}) \in Nat /\ (Max({n, c}) = 0 <=> n = 0 /\ c = 0)
  BY <1>2, LargerOfTwo
<1> QED
  BY <1>3, <1>5, <1>9, <1>10, FoundedOnSize

LEMMA ChurnFounded ==
  ASSUME AnalyticsInv, NEW range
  PROVE  Founded(Snapped(Churn(range).overall[1], Churn(range).atStart))
<1> DEFINE a == SumOver(AtStart(range))
           l == SumOver(Lost(range))
<1>1. a \in Nat /\ l \in Nat
  BY MonthsOfChurn
<1>2. Churn(range).overall[1] # 0 => a # 0
  <2>1. Churn(range).overall = Ratio(l, a)
    BY ChurnIs
  <2> HIDE DEF a, l
  <2> QED
    BY <1>1, <2>1 DEF Ratio
<1>3. ASSUME ledger = <<>> PROVE a = 0
  <2>1. \A m \in MonthSeries(range) : {c \in CustomersBefore(range) : c.at < 2 * m} = {}
    BY <1>3, NothingRecorded DEF CustomersBefore
  <2>2. CountOf({}) = 0
    BY CountOfRows
  <2>3. \A m \in MonthSeries(range) : AtStart(range)[m] = 0
    BY <2>1, <2>2 DEF AtStart
  <2>4. \A m \in MonthSeries(range) : AtStart(range)[m] \in Nat
    BY MonthsOfChurn
  <2>5. Total(AtStart(range), MonthSeries(range)) = 0
    BY <2>3, <2>4, MonthsOfChurn, TotalIsNothing
  <2> QED
    BY <2>5, MonthsOfChurn
<1>4. Churn(range).atStart = a
  BY ChurnIs
<1> HIDE DEF a, l
<1> QED
  BY <1>1, <1>2, <1>3, <1>4, FoundedOnSize

LEMMA FiguresAreFounded == AnalyticsInv => FiguresHaveRecords
<1> SUFFICES ASSUME AnalyticsInv, NEW range \in Asked, NEW m \in {"cac", "ltv", "revenue", "churn"}
             PROVE  Founded(Snapshot(range)[m])
  BY DEF FiguresHaveRecords, Founded
<1>1. CASE m = "cac"
  BY <1>1, CACFounded, SnapshotIs
<1>2. CASE m = "ltv"
  BY <1>2, LTVFounded, SnapshotIs
<1>3. CASE m = "revenue"
  BY <1>3, RevenueFounded, SnapshotIs
<1>4. CASE m = "churn"
  BY <1>4, ChurnFounded, SnapshotIs
<1> QED
  BY <1>1, <1>2, <1>3, <1>4

(* The deals of a range, and those that were closed.                       *)
DealsIn(range) == During(Rows("deal"), range)
ClosedIn(range) == {d \in DealsIn(range) : d.closed # NoEnd}
WonIn(range) == {d \in DealsIn(range) : d.stage = "WON"}
CycleDaysOf(range) ==
    IF ClosedIn(range) = {} THEN <<1, 1>>
    ELSE <<Weigh(ClosedIn(range), Cycle), 2 * CountOf(ClosedIn(range))>>
LEMMA PipelineIs ==
  ASSUME NEW range
  PROVE  LET win == Ratio(CountOf(WonIn(range)), CountOf(DealsIn(range)))
             value == ValueOf(DealsIn(range))
             days == CycleDaysOf(range)
         IN  /\ Pipeline(range).totalValue = value
             /\ Pipeline(range).winRate = win
             /\ Pipeline(range).velocity = IF days[1] <= 0 THEN <<0, 1>>
                                           ELSE <<value * win[1] * days[2], win[2] * days[1]>>
  BY DEF Pipeline, DealsIn, ClosedIn, WonIn, CycleDaysOf, ValueOf

(* A cycle takes a day at least.                                           *)
LEMMA CyclesTakeADay ==
  ASSUME AnalyticsInv, NEW range
  PROVE  CycleDaysOf(range)[1] \in Nat /\ CycleDaysOf(range)[2] \in Nat /\ CycleDaysOf(range)[2] <= CycleDaysOf(range)[1]
<1>1. CASE ClosedIn(range) = {}
  BY <1>1 DEF CycleDaysOf
<1>2. CASE ClosedIn(range) # {}
  <2> DEFINE rows == ClosedIn(range)
             g == [d \in rows |-> ledger[d] * Cycle(d)]
             h == [d \in rows |-> 2 * ledger[d] + 0 * ledger[d]]
             n == CountOf(rows)
             w == SumOver(g)
  <2>1. rows \in SUBSET DOMAIN ledger /\ rows \in SUBSET Rows("deal")
    BY DEF ClosedIn, DealsIn, During, Rows
  <2>2. /\ IsFiniteSet(rows) /\ DOMAIN g = rows
        /\ \A d \in rows : d.at \in Int /\ d.closed \in Int /\ ledger[d] \in Nat
    BY <2>1, LedgerCounts DEF ClosedIn, Rows, IsRow
  <2>3. CycleDaysOf(range)[1] = w /\ CycleDaysOf(range)[2] = 2 * n
    BY <1>2 DEF CycleDaysOf, Weigh
  <2>4. ASSUME NEW d \in rows PROVE g[d] \in Nat /\ g[d] \in Int /\ h[d] \in Int /\ h[d] <= g[d]
    <3> DEFINE x == ledger[d]
               y == Cycle(d)
               e == d.closed - d.at
               two == 2
    <3>1. x \in Nat /\ e \in Int /\ two \in Int
      BY <2>2
    <3>2. y = Max({two, e}) /\ g[d] = x * y /\ h[d] = 2 * x
      BY <2>2 DEF Cycle
    <3> HIDE DEF x, y, e, two, g, h
    <3>3. y = IF two >= e THEN two ELSE e
      BY <3>1, <3>2, MaxOfTwo
    <3>4. y \in Nat /\ y >= 2
      BY <3>1, <3>3 DEF two
    <3>5. x * y >= x * 2 /\ x * y \in Nat
      BY <3>1, <3>4
    <3> QED
      BY <3>1, <3>2, <3>5
  <2>5. \A d \in rows : h[d] = 2 * ledger[d] + 0 * ledger[d] /\ ledger[d] \in Int
    BY <2>2
  <2> HIDE DEF rows, g, h
  <2>6. w = Total(g, rows) /\ Total(h, rows) <= Total(g, rows)
    BY <2>2, <2>4, SumOverIsTotal, TotalGrows
  <2>7. Total(h, rows) = 2 * Total(ledger, rows) + 0 * Total(ledger, rows)
    BY <2>2, <2>5, TotalCombines
  <2>8. n = Total(ledger, rows) /\ n \in Nat
    BY <2>1, CountOfRows
  <2>9. w \in Nat
    BY <2>2, <2>4, <2>6, TotalType
  <2> HIDE DEF n, w
  <2> QED
    BY <2>3, <2>6, <2>7, <2>8, <2>9
<1> QED
  BY <1>1, <1>2

LEMMA ProductsGrow ==
  ASSUME NEW v \in Nat, NEW a \in Nat, NEW b \in Nat, a <= b, NEW c \in Nat, NEW d \in Nat, c <= d
  PROVE  (v * a * c) * 1 <= v * (b * d)
<1>1. a * c <= b * c /\ b * c <= b * d
  BY Z3
<1> DEFINE x == a * c
           y == b * d
<1>2. x \in Nat /\ y \in Nat /\ x <= y
  BY <1>1, Z3
<1>3. v * a * c = v * x
  BY Z3
<1> HIDE DEF x, y
<1>4. v * x <= v * y
  BY <1>2, Z3
<1>5. v * x \in Nat
  BY <1>2, Z3
<1> QED
  BY <1>3, <1>4, <1>5 DEF y

LEMMA VelocityIsBounded == AnalyticsInv => VelocityIsOfTheValue
<1> SUFFICES ASSUME AnalyticsInv, NEW range \in Asked
             PROVE  /\ NoMore(Pipeline(range).winRate, <<1, 1>>)
                    /\ NoMore(Pipeline(range).velocity, <<Pipeline(range).totalValue, 1>>)
  BY DEF VelocityIsOfTheValue
<1> DEFINE deals == DealsIn(range)
           won == WonIn(range)
           a == CountOf(won)
           b == CountOf(deals)
           win == Ratio(a, b)
           v == ValueOf(deals)
           p == CycleDaysOf(range)[1]
           q == CycleDaysOf(range)[2]
<1>1. won \subseteq deals /\ deals \in SUBSET DOMAIN ledger /\ deals \in SUBSET Rows("deal")
  BY DEF WonIn, DealsIn, During, Rows
<1>2. a \in Nat /\ b \in Nat /\ a = Total(ledger, won) /\ b = Total(ledger, deals) /\ v \in Nat
  BY <1>1, CountOfRows, ValueOfRows
<1>3. a <= b
  <2>1. IsFiniteSet(deals) /\ \A r \in deals : ledger[r] \in Nat
    BY <1>1, LedgerCounts
  <2> HIDE DEF won, deals
  <2> QED
    BY <1>1, <1>2, <2>1, TotalOfMore
<1>4. p \in Nat /\ q \in Nat /\ q <= p
  BY CyclesTakeADay
<1>5. /\ Pipeline(range).totalValue = v /\ Pipeline(range).winRate = win
      /\ Pipeline(range).velocity = IF p <= 0 THEN <<0, 1>> ELSE <<v * win[1] * q, win[2] * p>>
  BY PipelineIs
<1> HIDE DEF deals, won, a, b, v, p, q
<1>6. win[1] \in Nat /\ win[2] \in Nat /\ win[1] <= win[2]
  BY <1>2, <1>3 DEF Ratio
<1> HIDE DEF win
<1>7. NoMore(Pipeline(range).winRate, <<1, 1>>)
  BY <1>5, <1>6 DEF NoMore
<1>8. CASE p <= 0
  <2>1. Pipeline(range).velocity = <<0, 1>>
    BY <1>5, <1>8
  <2> QED
    BY <1>2, <1>5, <1>7, <2>1 DEF NoMore
<1>9. CASE ~(p <= 0)
  <2> DEFINE x == v * win[1] * q
             y == win[2] * p
  <2>1. Pipeline(range).velocity = <<x, y>>
    BY <1>5, <1>9
  <2>2. x * 1 <= v * y
    BY <1>2, <1>4, <1>6, ProductsGrow
  <2> HIDE DEF x, y
  <2> QED
    BY <1>5, <1>7, <2>1, <2>2 DEF NoMore
<1> QED
  BY <1>8, <1>9


(* The segments of a set of rows add up to its spend.                      *)
LEMMA SegmentsAddUp ==
  ASSUME AnalyticsInv, NEW rows \in SUBSET Rows("spend"), NEW part, DOMAIN part = rows,
         NEW by, DOMAIN by = {part[r] : r \in rows},
         \A c \in DOMAIN by : by[c].spend = CostOf(OfPart(rows, part, c))
  PROVE  CostOf(rows) = SumOver([c \in DOMAIN by |-> by[c].spend])
<1> DEFINE D == {part[r] : r \in rows}
           sum == [c \in DOMAIN by |-> by[c].spend]
<1>1. IsFiniteSet(rows)
  BY LedgerCounts
<1>2. IsFiniteSet(D) /\ \A r \in rows : part[r] \in D
  BY <1>1, ImageIsFinite
<1>3. CostOf(rows) = Total(Costs, rows) /\ \A r \in rows : Costs[r] \in Int
  BY CostOfRows, RowsWeigh
<1>4. ASSUME NEW c \in D PROVE sum[c] = Total(Costs, OfPart(rows, part, c))
  <2>1. OfPart(rows, part, c) \in SUBSET Rows("spend")
    BY DEF OfPart
  <2> QED
    BY <2>1, CostOfRows
<1>5. SumOver(sum) = Total(sum, D)
  BY SumOverIsTotal
<1> HIDE DEF D
<1>6. Total(sum, D) = Total(Costs, rows)
  <2> HIDE DEF sum
  <2> QED
    BY <1>1, <1>2, <1>3, <1>4, TotalByPart
<1> QED
  BY <1>3, <1>5, <1>6

LEMMA SegmentsAgree == AnalyticsInv => SegmentsAreRequests
<1> SUFFICES ASSUME AnalyticsInv, NEW range \in Asked
             PROVE  LET all == CAC(range, {}, {}) IN
                    /\ \A c \in DOMAIN all.byChannel :
                           all.byChannel[c].spend = CAC(range, {c}, {}).totalSpend
                    /\ \A k \in DOMAIN all.byCampaign :
                           all.byCampaign[k].spend = CAC(range, {}, {k}).totalSpend
                    /\ all.totalSpend = SumOver([c \in DOMAIN all.byChannel |-> all.byChannel[c].spend])
                    /\ all.totalSpend = SumOver([k \in DOMAIN all.byCampaign |-> all.byCampaign[k].spend])
  BY DEF SegmentsAreRequests
<1> DEFINE cac == CAC(range, {}, {})
           none == {}
           rows == SpendIn(range, none, none)
           channel == [r \in rows |-> r.channel]
           campaign == [r \in rows |-> r.campaign]
<1>1. /\ DOMAIN cac.byChannel = {r.channel : r \in rows}
      /\ DOMAIN cac.byCampaign = {r.campaign : r \in rows}
      /\ \A c \in {r.channel : r \in rows} : cac.byChannel[c].spend = CostOf({r \in rows : r.channel = c})
      /\ \A k \in {r.campaign : r \in rows} : cac.byCampaign[k].spend = CostOf({r \in rows : r.campaign = k})
      /\ cac.totalSpend = CostOf(rows)
  <2> HIDE DEF rows, none
  <2>1. rows = SpendIn(range, none, none)
    BY DEF rows
  <2>2. cac = CAC(range, none, none)
    BY DEF none
  <2>3. CACOf(range, none, none, rows)
    BY <2>1, CACIs
  <2> QED
    BY <2>2, <2>3 DEF CACOf
<1>2. \A c : SpendIn(range, {c}, {}) = {r \in rows : r.channel = c}
  BY DEF SpendIn, Chosen
<1>3. \A k : SpendIn(range, {}, {k}) = {r \in rows : r.campaign = k}
  BY DEF SpendIn, Chosen
<1>4. \A c : CAC(range, {c}, {}).totalSpend = CostOf({r \in rows : r.channel = c})
  <2> SUFFICES ASSUME NEW c PROVE CAC(range, {c}, {}).totalSpend = CostOf({r \in rows : r.channel = c})
    OBVIOUS
  <2> DEFINE one == {c}
             mine == {r \in rows : r.channel = c}
  <2>1. mine = SpendIn(range, one, none)
    BY <1>2
  <2> HIDE DEF one, mine, none
  <2>2. CAC(range, one, none).totalSpend = CostOf(mine)
    BY <2>1, CACIs DEF CACOf
  <2> QED
    BY <2>2 DEF one, mine, none
<1>5. \A k : CAC(range, {}, {k}).totalSpend = CostOf({r \in rows : r.campaign = k})
  <2> SUFFICES ASSUME NEW k PROVE CAC(range, {}, {k}).totalSpend = CostOf({r \in rows : r.campaign = k})
    OBVIOUS
  <2> DEFINE one == {k}
             mine == {r \in rows : r.campaign = k}
  <2>1. mine = SpendIn(range, none, one)
    BY <1>3
  <2> HIDE DEF one, mine, none
  <2>2. CAC(range, none, one).totalSpend = CostOf(mine)
    BY <2>1, CACIs DEF CACOf
  <2> QED
    BY <2>2 DEF one, mine, none
<1>6. rows \in SUBSET Rows("spend")
  BY DEF SpendIn, During
<1>7. /\ \A c : {r \in rows : r.channel = c} = OfPart(rows, channel, c)
      /\ \A k : {r \in rows : r.campaign = k} = OfPart(rows, campaign, k)
      /\ {r.channel : r \in rows} = {channel[r] : r \in rows}
      /\ {r.campaign : r \in rows} = {campaign[r] : r \in rows}
      /\ DOMAIN channel = rows /\ DOMAIN campaign = rows
  BY DEF OfPart
<1> HIDE DEF rows, channel, campaign, cac
<1>8. CostOf(rows) = SumOver([c \in DOMAIN cac.byChannel |-> cac.byChannel[c].spend])
  <2> DEFINE by == cac.byChannel
  <2>1. DOMAIN by = {channel[r] : r \in rows} /\ \A c \in DOMAIN by : by[c].spend = CostOf(OfPart(rows, channel, c))
    BY <1>1, <1>7
  <2> HIDE DEF by
  <2>2. CostOf(rows) = SumOver([c \in DOMAIN by |-> by[c].spend])
    BY <1>6, <1>7, <2>1, SegmentsAddUp
  <2> QED
    BY <2>2 DEF by
<1>9. CostOf(rows) = SumOver([c \in DOMAIN cac.byCampaign |-> cac.byCampaign[c].spend])
  <2> DEFINE by == cac.byCampaign
  <2>1. DOMAIN by = {campaign[r] : r \in rows} /\ \A c \in DOMAIN by : by[c].spend = CostOf(OfPart(rows, campaign, c))
    BY <1>1, <1>7
  <2> HIDE DEF by
  <2>2. CostOf(rows) = SumOver([c \in DOMAIN by |-> by[c].spend])
    BY <1>6, <1>7, <2>1, SegmentsAddUp
  <2> QED
    BY <2>2 DEF by
<1> QED
  BY <1>1, <1>4, <1>5, <1>8, <1>9 DEF cac

(* What is asked for, in days and instants.                                *)
LEMMA RangeAsked ==
  ASSUME NEW range \in Asked
  PROVE  /\ range[1] \in Nat /\ range[2] \in Nat /\ range[1] <= range[2]
         /\ \E m \in FirstsOfMonths : m <= range[1]
         /\ \E m, n \in FirstsOfMonths : range[2] < m /\ m < n
BY AnalyticsAssumption

LEMMA DaysBefore ==
  ASSUME NEW range \in Asked
  PROVE  LET before == <<range[1] - (range[2] - range[1] + 1), range[1] - 1>>
         IN  RangeStart(before) = Previous(range)[1] /\ RangeEnd(before) = Previous(range)[2]
<1> DEFINE a == range[1]
           b == range[2]
           one == 1
           days == (RangeEnd(range) - RangeStart(range) + 1) \div 2
<1>1. a \in Nat /\ b \in Nat /\ a <= b
  BY RangeAsked
<1>2. days = b - a + 1
  <2>1. RangeEnd(range) - RangeStart(range) + 1 = 2 * (b - a + 1)
    BY <1>1 DEF RangeEnd, RangeStart
  <2>2. \A n \in Int : (2 * n) \div 2 = n
    OBVIOUS
  <2> QED
    BY <1>1, <2>1, <2>2
<1>3. TotalDays(range) = Max({one, days})
  BY DEF TotalDays
<1>4. one \in Int /\ days \in Int /\ days >= one
  BY <1>1, <1>2
<1> HIDE DEF one, days
<1>5. TotalDays(range) = days
  BY <1>3, <1>4, MaxOfTwo
<1> QED
  BY <1>1, <1>2, <1>5 DEF Previous, RangeStart, RangeEnd

(* The months of a history, each with the revenue of its rows.             *)
MonthsWith(range) == {MonthOf(r.at \div 2) : r \in During(Rows("revenue"), range)}
InMonth(range, m) == {r \in During(Rows("revenue"), range) : MonthOf(r.at \div 2) = m}
LEMMA MonthsOfRows ==
  ASSUME AnalyticsInv, NEW range \in Asked
  PROVE  /\ MonthsWith(range) \subseteq FirstsOfMonths /\ IsFiniteSet(MonthsWith(range))
         /\ \A m \in MonthsWith(range) : m <= range[2]
<1>1. ASSUME NEW r \in During(Rows("revenue"), range)
      PROVE  MonthOf(r.at \div 2) \in FirstsOfMonths /\ MonthOf(r.at \div 2) <= range[2]
  <2> DEFINE day == r.at \div 2
  <2>1. r.at \in Int /\ RangeStart(range) <= r.at /\ r.at <= RangeEnd(range)
    BY <1>1, LedgerCounts DEF During, Rows, IsRow
  <2>2. day \in Int /\ range[1] <= day /\ day <= range[2]
    BY <2>1, RangeAsked DEF RangeStart, RangeEnd
  <2>3. PICK m \in FirstsOfMonths : m <= range[1]
    BY RangeAsked
  <2>4. m \in Nat
    BY MonthsAreDays
  <2>5. m <= day
    BY <2>2, <2>3, <2>4, RangeAsked
  <2> HIDE DEF day
  <2>6. MonthOf(day) \in FirstsOfMonths /\ MonthOf(day) \in Nat /\ MonthOf(day) <= day
    BY <2>2, <2>5, MonthHasBegun
  <2> QED
    BY <2>2, <2>6, RangeAsked DEF day
<1>2. MonthsWith(range) \subseteq FirstsOfMonths
  BY <1>1 DEF MonthsWith
<1> QED
  BY <1>1, <1>2, MonthsAreDays DEF MonthsWith

HistoryOf(range, h) ==
    LET n == Cardinality(MonthsWith(range)) IN
    /\ DOMAIN h = 1..n /\ Len(h) = n /\ n \in Nat
    /\ \A i \in 1..n : /\ h[i].period \in MonthsWith(range) /\ h[i].period \in Nat
                       /\ h[i].value = AmountOf(InMonth(range, h[i].period))
                       /\ h[i].value \in Nat
    /\ \A i, j \in 1..n : i < j => h[i].period < h[j].period
    /\ {h[i].period : i \in 1..n} = MonthsWith(range)
LEMMA HistoryIs ==
  ASSUME AnalyticsInv, NEW range \in Asked PROVE HistoryOf(range, Revenue(range).history)
<1> DEFINE S == MonthsWith(range)
           s == Ascending(Itself(S))
           n == Cardinality(S)
           h == Revenue(range).history
<1>1. S \in SUBSET Int /\ S \in SUBSET Nat /\ IsFiniteSet(S)
  BY MonthsOfRows, MonthsAreDays
<1>2. n \in Nat
  BY <1>1, FS_CardinalityType
<1>3. h = [i \in DOMAIN s |-> [period |-> s[i], value |-> AmountOf(InMonth(range, s[i]))]]
  BY RevenueIs DEF ByMonth, Itself, MonthsWith, InMonth, AmountOf
<1> HIDE DEF S, s, n, h
<1>4. /\ DOMAIN s = 1..n /\ {s[i] : i \in 1..n} = S
      /\ \A i, j \in 1..n : i < j => s[i] < s[j]
  BY <1>1, AscendingOfSet DEF s, n
<1>5. \A m : AmountOf(InMonth(range, m)) \in Nat
  <2>1. \A m : InMonth(range, m) \in SUBSET Rows("revenue")
    BY DEF InMonth, During
  <2> QED
    BY <2>1, AmountOfRows
<1>6. DOMAIN h = 1..n /\ \A i \in 1..n : h[i] = [period |-> s[i], value |-> AmountOf(InMonth(range, s[i]))]
  BY <1>3, <1>4
<1>7. \A i \in 1..n : /\ h[i].period = s[i] /\ s[i] \in S
                      /\ h[i].value = AmountOf(InMonth(range, s[i]))
  BY <1>4, <1>6
<1>9. Len(h) = n
  BY <1>2, <1>6
<1>10. {h[i].period : i \in 1..n} = S
  <2>1. \A m \in S : \E i \in 1..n : m = s[i]
    BY <1>4
  <2>2. \A m : m \in {h[i].period : i \in 1..n} <=> m \in S
    BY <1>7, <2>1
  <2> QED
    BY <2>2
<1> QED
  BY <1>1, <1>2, <1>4, <1>5, <1>6, <1>7, <1>9, <1>10 DEF HistoryOf, S, n, h

LEMMA HistoryAddsUp ==
  ASSUME AnalyticsInv, NEW range \in Asked
  PROVE  LET history == Revenue(range).history IN
         SumOver([i \in DOMAIN history |-> history[i].value]) = AmountOf(During(Rows("revenue"), range))
<1> DEFINE rows == During(Rows("revenue"), range)
           h == Revenue(range).history
           S == MonthsWith(range)
           n == Cardinality(S)
           part == [r \in rows |-> MonthOf(r.at \div 2)]
           period == [i \in 1..n |-> h[i].period]
           f == [i \in DOMAIN h |-> h[i].value]
           g == [m \in S |-> AmountOf(InMonth(range, m))]
<1>1. HistoryOf(range, h)
  BY HistoryIs
<1>2. rows \in SUBSET Rows("revenue") /\ rows \in SUBSET DOMAIN ledger
  BY TablesAreRows DEF During
<1>3. /\ AmountOf(rows) = Total(Amounts, rows) /\ \A r \in rows : Amounts[r] \in Int
      /\ IsFiniteSet(rows)
  BY <1>2, AmountOfRows, RowsWeigh, LedgerCounts
<1>4. IsFiniteSet(S) /\ \A r \in rows : part[r] \in S
  BY MonthsOfRows DEF MonthsWith
<1>5. ASSUME NEW m \in S PROVE g[m] = Total(Amounts, OfPart(rows, part, m))
  <2>1. InMonth(range, m) = OfPart(rows, part, m) /\ InMonth(range, m) \in SUBSET Rows("revenue")
    BY DEF InMonth, OfPart, During
  <2> QED
    BY <2>1, AmountOfRows
<1> HIDE DEF rows, h
<1>6. /\ DOMAIN f = 1..n /\ DOMAIN period = 1..n
      /\ \A i \in 1..n : period[i] = h[i].period /\ f[i] = h[i].value /\ f[i] \in Int
      /\ {period[i] : i \in 1..n} = S
      /\ n \in Nat /\ \A i \in 1..n : h[i].period \in Nat
      /\ \A i, j \in 1..n : i < j => h[i].period < h[j].period
  BY <1>1 DEF HistoryOf
<1>12. \A i \in 1..n : g[period[i]] = f[i]
  BY <1>1 DEF HistoryOf
<1> HIDE DEF S, n, part, period, f, g
<1>7. ASSUME NEW i \in 1..n, NEW j \in 1..n, period[i] = period[j] PROVE i = j
  <2>1. n \in Nat /\ h[i].period \in Nat /\ h[j].period \in Nat /\ h[i].period = h[j].period
    BY <1>6, <1>7
  <2>2. ~(i < j) /\ ~(j < i)
    BY <1>6, <2>1
  <2> QED
    BY <2>1, <2>2
<1>8. IsFiniteSet(1..n)
  BY <1>6, FS_Interval
<1>9. Total(g, S) = Total(Amounts, rows)
  BY <1>3, <1>4, <1>5, TotalByPart
<1>10. Total(g, {period[i] : i \in 1..n}) = Total(f, 1..n)
  <2> DEFINE I == 1..n
  <2>1. /\ IsFiniteSet(I) /\ DOMAIN period = I /\ \A i \in I : f[i] \in Int
        /\ \A i, j \in I : period[i] = period[j] => i = j
        /\ \A i \in I : g[period[i]] = f[i]
    BY <1>6, <1>7, <1>8, <1>12
  <2> HIDE DEF I
  <2>2. Total(g, {period[i] : i \in I}) = Total(f, I)
    BY <2>1, TotalRenamed
  <2> QED
    BY <2>2 DEF I
<1>11. SumOver(f) = Total(f, 1..n)
  BY <1>6, SumOverIsTotal
<1> QED
  BY <1>3, <1>6, <1>9, <1>10, <1>11 DEF rows, f, h

LEMMA GrowthIsSound == AnalyticsInv => GrowthIsOverTheDaysBefore
<1> SUFFICES ASSUME AnalyticsInv, NEW range \in Asked
             PROVE  LET days == range[2] - range[1] + 1
                        before == Revenue(<<range[1] - days, range[1] - 1>>).total
                        now == Revenue(range)
                    IN  /\ before # 0 => Same(now.growth, <<now.total - before, before>>)
                        /\ before = 0 => now.growth = <<0, 1>>
                        /\ now.mrr <= now.total
                        /\ now.total = SumOver([i \in DOMAIN now.history |-> now.history[i].value])
  BY DEF GrowthIsOverTheDaysBefore
<1> DEFINE days == range[2] - range[1] + 1
           earlier == <<range[1] - days, range[1] - 1>>
           rows == During(Rows("revenue"), range)
           recurring == {r \in rows : r.kind \in RecurringTypes}
           old == {r \in Rows("revenue") : Previous(range)[1] <= r.at /\ r.at <= Previous(range)[2]}
           b == AmountOf(old)
           t == AmountOf(rows)
<1>1. /\ Revenue(range).total = t /\ Revenue(range).mrr = AmountOf(recurring)
      /\ Revenue(range).growth = IF b = 0 THEN <<0, 1>> ELSE <<t - b, b>>
  BY RevenueIs
<1>2. Revenue(earlier).total = b
  <2>1. RangeStart(earlier) = Previous(range)[1] /\ RangeEnd(earlier) = Previous(range)[2]
    BY DaysBefore
  <2> HIDE DEF earlier
  <2>2. During(Rows("revenue"), earlier) = old
    BY <2>1 DEF During
  <2>3. Revenue(earlier).total = AmountOf(During(Rows("revenue"), earlier))
    BY RevenueIs
  <2> QED
    BY <2>2, <2>3
<1>3. /\ rows \in SUBSET Rows("revenue") /\ recurring \in SUBSET Rows("revenue")
      /\ old \in SUBSET Rows("revenue") /\ recurring \in SUBSET rows /\ rows \in SUBSET DOMAIN ledger
  BY TablesAreRows DEF During
<1>4. /\ t = Total(Amounts, rows) /\ t \in Nat /\ b \in Nat
      /\ AmountOf(recurring) = Total(Amounts, recurring)
  BY <1>3, AmountOfRows
<1>5. IsFiniteSet(rows) /\ \A r \in rows : Amounts[r] \in Nat
  BY <1>3, LedgerCounts, RowsWeigh
<1> HIDE DEF rows, recurring, old
<1>6. Total(Amounts, recurring) <= Total(Amounts, rows)
  BY <1>3, <1>5, TotalOfMore
<1>7. t = SumOver([i \in DOMAIN Revenue(range).history |-> Revenue(range).history[i].value])
  BY HistoryAddsUp DEF rows
<1> HIDE DEF t, b, earlier
<1>8. Same(<<t - b, b>>, <<t - b, b>>)
  BY DEF Same
<1>9. /\ Revenue(earlier).total # 0 => Same(Revenue(range).growth, <<Revenue(range).total - Revenue(earlier).total, Revenue(earlier).total>>)
      /\ Revenue(earlier).total = 0 => Revenue(range).growth = <<0, 1>>
  BY <1>1, <1>2, <1>8
<1>10. Revenue(range).mrr <= Revenue(range).total
  BY <1>1, <1>4, <1>6
<1> QED
  BY <1>1, <1>7, <1>9, <1>10 DEF earlier


(* The months of a range, and the part of the range in one of them.        *)
LEMMA MonthAfterAsked ==
  ASSUME NEW range \in Asked, NEW day \in Int, day <= range[2]
  PROVE  /\ MonthAfter(day) \in FirstsOfMonths /\ MonthAfter(day) \in Nat /\ MonthAfter(day) > day
         /\ \A m \in FirstsOfMonths : m > day => MonthAfter(day) <= m
<1>1. PICK m, n \in FirstsOfMonths : range[2] < m /\ m < n
  BY RangeAsked
<1>2. m \in Nat /\ range[2] \in Nat
  BY MonthsAreDays, RangeAsked
<1>3. m > day
  BY <1>1, <1>2
<1> QED
  BY <1>3, MonthEnds

LEMMA MonthsOfRange ==
  ASSUME NEW range \in Asked
  PROVE  /\ MonthOf(range[1]) \in MonthSeries(range)
         /\ MonthOf(range[1]) <= range[1]
         /\ \A m \in FirstsOfMonths : m <= range[1] => m <= MonthOf(range[1])
         /\ \A m \in MonthSeries(range) : /\ m \in Nat /\ m \in FirstsOfMonths
                                          /\ MonthOf(range[1]) <= m /\ m <= range[2]
<1>1. range[1] \in Int /\ \E m \in FirstsOfMonths : m <= range[1]
  BY RangeAsked
<1>2. /\ MonthOf(range[1]) \in FirstsOfMonths /\ MonthOf(range[1]) \in Nat
      /\ MonthOf(range[1]) <= range[1]
      /\ \A m \in FirstsOfMonths : m <= range[1] => m <= MonthOf(range[1])
  BY <1>1, MonthHasBegun
<1>3. MonthOf(range[1]) \in MonthSeries(range)
  BY <1>2, RangeAsked DEF MonthSeries
<1> QED
  BY <1>2, <1>3, MonthsAreDays DEF MonthSeries

LEMMA PartIs ==
  ASSUME NEW range \in Asked, NEW m \in MonthSeries(range)
  PROVE  /\ PartOf(range, m)[1] = IF m >= range[1] THEN m ELSE range[1]
         /\ PartOf(range, m)[2] = IF MonthAfter(m) - 1 <= range[2] THEN MonthAfter(m) - 1 ELSE range[2]
         /\ MonthSeries(PartOf(range, m)) = {m}
         /\ m <= PartOf(range, m)[2]
<1> DEFINE a == range[1]
           b == range[2]
           e == MonthAfter(m) - 1
           p == PartOf(range, m)
<1>1. m \in Nat /\ m \in FirstsOfMonths /\ m <= b /\ MonthOf(a) <= m /\ a \in Nat /\ b \in Nat /\ a <= b
  BY RangeAsked, MonthsOfRange
<1>2. /\ MonthAfter(m) \in Nat /\ MonthAfter(m) > m
      /\ \A x \in FirstsOfMonths : x > m => MonthAfter(m) <= x
  BY <1>1, MonthAfterAsked
<1>3. p[1] = Max({m, a}) /\ p[2] = Min({e, b})
  BY DEF PartOf
<1>4. e \in Int /\ m <= e
  BY <1>1, <1>2
<1> HIDE DEF a, b, e, p
<1>5. p[1] = IF m >= a THEN m ELSE a
  BY <1>1, <1>3, MaxOfTwo
<1>6. p[2] = IF e <= b THEN e ELSE b
  BY <1>1, <1>3, <1>4, MinOfTwo
<1>7. p[1] \in Int /\ p[2] \in Int /\ m <= p[1] /\ m <= p[2]
  BY <1>1, <1>4, <1>5, <1>6
<1>8. \E x \in FirstsOfMonths : x <= p[1]
  BY <1>1, <1>7
<1>9. /\ MonthOf(p[1]) \in Nat /\ MonthOf(p[1]) <= p[1] /\ MonthOf(p[1]) \in FirstsOfMonths
      /\ \A x \in FirstsOfMonths : x <= p[1] => x <= MonthOf(p[1])
  BY <1>7, <1>8, MonthHasBegun
<1>10. MonthOf(p[1]) = m
  <2>1. m <= MonthOf(p[1])
    BY <1>1, <1>7, <1>9
  <2>2. CASE m >= a
    BY <1>1, <1>5, <1>9, <2>1, <2>2
  <2>3. CASE ~(m >= a)
    <3>1. p[1] = a
      BY <1>5, <2>3
    <3> QED
      BY <1>1, <1>9, <2>1, <3>1
  <2> QED
    BY <2>2, <2>3
<1>11. ASSUME NEW x \in FirstsOfMonths, m <= x, x <= p[2] PROVE x = m
  <2>1. x \in Nat
    BY MonthsAreDays
  <2>2. p[2] <= e
    BY <1>1, <1>4, <1>6
  <2>3. ~(x > m)
    <3> SUFFICES ASSUME x > m PROVE FALSE
      OBVIOUS
    <3>1. MonthAfter(m) <= x
      BY <1>2
    <3> QED
      BY <1>2, <1>7, <1>11, <2>1, <2>2, <3>1 DEF e
  <2> QED
    BY <1>1, <1>11, <2>1, <2>3
<1>12. MonthSeries(p) = {m}
  <2>1. \A x : x \in MonthSeries(p) <=> x \in FirstsOfMonths /\ m <= x /\ x <= p[2]
    BY <1>10 DEF MonthSeries
  <2>2. m <= m
    BY <1>1
  <2>3. \A x : x \in MonthSeries(p) <=> x = m
    BY <1>1, <1>7, <1>11, <2>1, <2>2
  <2> QED
    BY <2>3
<1> QED
  BY <1>5, <1>6, <1>7, <1>12 DEF a, b, e, p

(* A month asked for alone has the customers and the cancellations that    *)
(* it has in the range.                                                    *)
LEMMA MonthAlone ==
  ASSUME AnalyticsInv, NEW range \in Asked, NEW m \in MonthSeries(range)
  PROVE  /\ Churn(PartOf(range, m)).atStart = AtStart(range)[m]
         /\ Churn(PartOf(range, m)).lost = Lost(range)[m]
<1> DEFINE a == range[1]
           b == range[2]
           e == MonthAfter(m) - 1
           p == PartOf(range, m)
           early(q) == {c \in CustomersBefore(q) : c.at < 2 * m}
           gone(q) == {s \in CanceledIn(q) : 2 * m <= s.end /\ s.end <= MonthEnd(m)}
<1>1. m \in Nat /\ m <= b /\ a \in Nat /\ b \in Nat /\ a <= b
  BY RangeAsked, MonthsOfRange
<1>2. e \in Int /\ m <= e /\ MonthEnd(m) = 2 * e + 1
  <2>1. MonthAfter(m) \in Nat /\ MonthAfter(m) > m
    BY <1>1, MonthAfterAsked
  <2> QED
    BY <1>1, <2>1 DEF MonthEnd
<1>3. /\ p[1] = IF m >= a THEN m ELSE a
      /\ p[2] = IF e <= b THEN e ELSE b
      /\ MonthSeries(p) = {m} /\ m <= p[2]
  BY PartIs
<1> HIDE DEF a, b, e, p
<1>4. early(p) = early(range)
  <2>1. \A c \in Rows("customer") : c.at \in Int
    BY LedgerCounts DEF Rows, IsRow
  <2>2. p[2] \in Int
    BY <1>1, <1>2, <1>3
  <2>3. \A c : c \in early(p) <=> c \in early(range)
    BY <1>1, <1>3, <2>1, <2>2 DEF CustomersBefore, RangeEnd, b
  <2> QED
    BY <2>3
<1>5. gone(p) = gone(range)
  <2>1. \A s \in Rows("subscription") : s.end # NoEnd => s.end \in Int
    BY LedgerCounts DEF Rows, IsRow
  <2>2. p[1] \in Int /\ p[2] \in Int
    BY <1>1, <1>2, <1>3
  <2>3. ASSUME NEW x \in Int
        PROVE  (2 * p[1] <= x /\ x <= 2 * p[2] + 1 /\ 2 * m <= x /\ x <= 2 * e + 1)
               <=> (2 * a <= x /\ x <= 2 * b + 1 /\ 2 * m <= x /\ x <= 2 * e + 1)
    BY <1>1, <1>2, <1>3, <2>2
  <2>4. \A s : s \in gone(p) <=>
               /\ s \in Rows("subscription") /\ s.status = "CANCELED" /\ s.end # NoEnd
               /\ 2 * p[1] <= s.end /\ s.end <= 2 * p[2] + 1 /\ 2 * m <= s.end /\ s.end <= 2 * e + 1
    BY <1>2 DEF CanceledIn, RangeStart, RangeEnd
  <2>5. \A s : s \in gone(range) <=>
               /\ s \in Rows("subscription") /\ s.status = "CANCELED" /\ s.end # NoEnd
               /\ 2 * a <= s.end /\ s.end <= 2 * b + 1 /\ 2 * m <= s.end /\ s.end <= 2 * e + 1
    BY <1>2 DEF CanceledIn, RangeStart, RangeEnd, a, b
  <2> HIDE DEF gone
  <2>6. \A s : s \in gone(p) <=> s \in gone(range)
    BY <2>1, <2>3, <2>4, <2>5
  <2> QED
    BY <2>6
<1>6. AtStart(p)[m] = CountOf(early(p)) /\ AtStart(range)[m] = CountOf(early(range))
  <2>1. m \in MonthSeries(p)
    BY <1>3
  <2> QED
    BY <2>1 DEF AtStart
<1>7. /\ Lost(p)[m] = Min({AtStart(p)[m], CountOf(gone(p))})
      /\ Lost(range)[m] = Min({AtStart(range)[m], CountOf(gone(range))})
  <2>1. m \in MonthSeries(p)
    BY <1>3
  <2> QED
    BY <2>1 DEF Lost
<1> HIDE DEF early, gone
<1>8. AtStart(p)[m] = AtStart(range)[m] /\ Lost(p)[m] = Lost(range)[m]
  BY <1>4, <1>5, <1>6, <1>7
<1>9. /\ SumOver(AtStart(p)) = Total(AtStart(p), {m}) /\ SumOver(Lost(p)) = Total(Lost(p), {m})
      /\ AtStart(p)[m] \in Int /\ Lost(p)[m] \in Int
  BY <1>3, MonthsOfChurn
<1>10. SumOver(AtStart(p)) = AtStart(p)[m] /\ SumOver(Lost(p)) = Lost(p)[m]
  BY <1>9, TotalOfOne
<1> QED
  BY <1>8, <1>10, ChurnIs DEF p

(* A mean lies between the fractions it is of.                             *)
LEMMA MeanLies ==
  ASSUME NEW S, IsFiniteSet(S), S # {}, NEW part, NEW all,
         \A m \in S : part[m] \in Nat /\ all[m] \in Nat /\ part[m] <= all[m],
         NEW mean, mean = Ratio(Total(part, S), Total(all, S))
  PROVE  /\ NoMore(mean, <<1, 1>>)
         /\ \E m \in S : NoMore(Ratio(part[m], all[m]), mean)
         /\ \E m \in S : NoMore(mean, Ratio(part[m], all[m]))
<1> DEFINE L == Total(part, S)
           A == Total(all, S)
           minus == 0 - L
           less == 0 - A
           f == [m \in S |-> A * part[m] + minus * all[m]]
           g == [m \in S |-> less * part[m] + L * all[m]]
<1>1. L \in Nat /\ A \in Nat
  BY TotalType
<1>2. L <= A
  <2>1. \A m \in S : part[m] \in Int /\ all[m] \in Int /\ part[m] <= all[m]
    OBVIOUS
  <2> QED
    BY <2>1, TotalGrows
<1>3. minus \in Int /\ less \in Int
  BY <1>1
<1>4. \A m \in S : /\ part[m] \in Int /\ all[m] \in Int
                   /\ f[m] = A * part[m] + minus * all[m] /\ g[m] = less * part[m] + L * all[m]
  OBVIOUS
<1>5. A = 0 => \A m \in S : all[m] = 0 /\ part[m] = 0
  <2>1. \A m \in S : all[m] \in Nat
    OBVIOUS
  <2>2. A = 0 => \A m \in S : all[m] = 0
    BY <2>1, TotalIsNothing
  <2> QED
    BY <2>2
<1> HIDE DEF f, g, L, A
<1>6. Total(f, S) = A * L + minus * A /\ Total(g, S) = less * L + L * A
  <2> HIDE DEF minus, less
  <2>1. Total(f, S) = A * Total(part, S) + minus * Total(all, S)
    BY <1>1, <1>3, <1>4, TotalCombines
  <2>2. Total(g, S) = less * Total(part, S) + L * Total(all, S)
    BY <1>1, <1>3, <1>4, TotalCombines
  <2> QED
    BY <2>1, <2>2 DEF L, A
<1>7. Total(f, S) = 0 /\ Total(g, S) = 0
  <2>1. A * L + minus * A = 0 /\ less * L + L * A = 0
    BY <1>1
  <2> QED
    BY <1>6, <2>1
<1>8. mean = IF A <= 0 THEN <<0, 1>> ELSE <<L, A>>
  BY DEF Ratio, L, A
<1>9. NoMore(mean, <<1, 1>>)
  BY <1>1, <1>2, <1>8 DEF NoMore
<1>10. CASE A = 0
  <2>1. PICK m \in S : TRUE
    OBVIOUS
  <2>2. Ratio(part[m], all[m]) = <<0, 1>> /\ mean = <<0, 1>>
    BY <1>5, <1>8, <1>10 DEF Ratio
  <2> QED
    BY <1>9, <2>2 DEF NoMore
<1>11. ASSUME A > 0, \A m \in S : ~NoMore(Ratio(part[m], all[m]), mean) PROVE FALSE
  <2>1. ASSUME NEW m \in S PROVE f[m] \in Nat /\ f[m] # 0
    <3> DEFINE x == part[m]
               y == all[m]
    <3>1. x \in Nat /\ y \in Nat
      OBVIOUS
    <3>2. ~NoMore(Ratio(x, y), <<L, A>>)
      BY <1>1, <1>8, <1>11
    <3>3. f[m] = A * x + minus * y
      BY <1>4
    <3> HIDE DEF x, y
    <3>4. ~(y <= 0)
      BY <1>1, <1>11, <3>1, <3>2 DEF NoMore, Ratio
    <3>5. x * A > L * y
      BY <1>1, <3>1, <3>2, <3>4 DEF NoMore, Ratio
    <3> QED
      BY <1>1, <3>1, <3>3, <3>5
  <2>2. \A m \in S : f[m] = 0
    BY <1>7, <2>1, TotalIsNothing
  <2> QED
    BY <2>1, <2>2
<1>12. ASSUME A > 0, \A m \in S : ~NoMore(mean, Ratio(part[m], all[m])) PROVE FALSE
  <2>1. ASSUME NEW m \in S PROVE g[m] \in Nat /\ (all[m] # 0 => g[m] # 0)
    <3> DEFINE x == part[m]
               y == all[m]
    <3>1. x \in Nat /\ y \in Nat /\ x <= y
      OBVIOUS
    <3>2. ~NoMore(<<L, A>>, Ratio(x, y))
      BY <1>1, <1>8, <1>12
    <3>3. g[m] = less * x + L * y
      BY <1>4
    <3> HIDE DEF x, y
    <3>4. CASE y = 0
      <4>1. x = 0
        BY <3>1, <3>4
      <4>2. less * 0 + L * 0 = 0
        BY <1>1
      <4> QED
        BY <3>3, <3>4, <4>1, <4>2 DEF y
    <3>5. CASE y # 0
      <4>1. L * y > x * A
        BY <1>1, <3>1, <3>2, <3>5 DEF NoMore, Ratio
      <4>2. g[m] \in Nat /\ g[m] # 0
        BY <1>1, <3>1, <3>3, <4>1
      <4> QED
        BY <4>2
    <3> QED
      BY <3>4, <3>5
  <2>2. \A m \in S : g[m] = 0
    BY <1>7, <2>1, TotalIsNothing
  <2>3. \A m \in S : all[m] \in Nat /\ all[m] = 0
    BY <2>1, <2>2
  <2>4. A = 0
    BY <2>3, TotalIsNothing DEF A
  <2> QED
    BY <1>12, <2>4
<1> QED
  BY <1>1, <1>9, <1>10, <1>11, <1>12

LEMMA ChurnAddsUp == AnalyticsInv => ChurnIsOfItsMonths
<1> SUFFICES ASSUME AnalyticsInv, NEW range \in Asked
             PROVE  LET churn == Churn(range)
                        alone == [m \in MonthSeries(range) |-> Churn(PartOf(range, m))]
                    IN  /\ churn.atStart = SumOver([m \in DOMAIN alone |-> alone[m].atStart])
                        /\ churn.lost = SumOver([m \in DOMAIN alone |-> alone[m].lost])
                        /\ NoMore(churn.overall, <<1, 1>>)
                        /\ \E m \in DOMAIN alone : NoMore(churn.byMonth[m], churn.overall)
                        /\ \E m \in DOMAIN alone : NoMore(churn.overall, churn.byMonth[m])
  BY DEF ChurnIsOfItsMonths
<1> DEFINE S == MonthSeries(range)
           at == AtStart(range)
           lost == Lost(range)
           alone == [m \in MonthSeries(range) |-> Churn(PartOf(range, m))]
           ats == [m \in DOMAIN alone |-> alone[m].atStart]
           losts == [m \in DOMAIN alone |-> alone[m].lost]
           mean == Churn(range).overall
<1>1. /\ IsFiniteSet(S) /\ \A m \in S : lost[m] \in Nat /\ at[m] \in Nat /\ lost[m] <= at[m]
      /\ SumOver(at) = Total(at, S) /\ SumOver(lost) = Total(lost, S)
  BY MonthsOfChurn
<1>2. S # {}
  BY MonthsOfRange
<1>3. /\ Churn(range).atStart = SumOver(at) /\ Churn(range).lost = SumOver(lost)
      /\ mean = Ratio(SumOver(lost), SumOver(at))
      /\ \A m \in S : Churn(range).byMonth[m] = Ratio(lost[m], at[m])
  BY ChurnIs
<1>4. /\ DOMAIN alone = S /\ DOMAIN ats = S /\ DOMAIN losts = S
      /\ \A m \in S : ats[m] = at[m] /\ losts[m] = lost[m]
  BY MonthAlone
<1> HIDE DEF S, at, lost, alone, ats, losts, mean
<1>5. SumOver(ats) = SumOver(at) /\ SumOver(losts) = SumOver(lost)
  <2>1. Total(ats, S) = Total(at, S) /\ Total(losts, S) = Total(lost, S)
    BY <1>1, <1>4, TotalAgrees
  <2> QED
    BY <1>1, <1>4, <2>1, SumOverIsTotal
<1>6. mean = Ratio(Total(lost, S), Total(at, S))
  BY <1>1, <1>3
<1>7. /\ NoMore(mean, <<1, 1>>)
      /\ \E m \in S : NoMore(Ratio(lost[m], at[m]), mean)
      /\ \E m \in S : NoMore(mean, Ratio(lost[m], at[m]))
  BY <1>1, <1>2, <1>6, MeanLies
<1>8. Churn(range).atStart = SumOver(ats) /\ Churn(range).lost = SumOver(losts)
  BY <1>3, <1>5
<1>9. /\ \E m \in DOMAIN alone : NoMore(Churn(range).byMonth[m], mean)
      /\ \E m \in DOMAIN alone : NoMore(mean, Churn(range).byMonth[m])
  BY <1>3, <1>4, <1>7
<1> QED
  BY <1>7, <1>8, <1>9 DEF ats, losts, alone, mean


(* The two months after a day of a range.                                  *)
LEMMA TwoMonthsAfter ==
  ASSUME NEW m PROVE MonthsAfter(m, 2)[1] = MonthAfter(m) /\ MonthsAfter(m, 2)[2] = MonthAfter(MonthAfter(m))
<1> DEFINE Holds(f) == f = [i \in 0..2 |-> IF i = 0 THEN m ELSE MonthAfter(f[i - 1])]
           w == [i \in 0..2 |-> IF i = 0 THEN m ELSE IF i = 1 THEN MonthAfter(m)
                                ELSE MonthAfter(MonthAfter(m))]
           after == MonthsAfter(m, 2)
<1>1. Holds(w)
  <2>1. \A i \in 0..2 : i = 0 \/ (i = 1 /\ i - 1 = 0) \/ (i = 2 /\ i - 1 = 1)
    OBVIOUS
  <2>2. 0 \in 0..2 /\ 1 \in 0..2
    OBVIOUS
  <2>3. w[0] = m /\ w[1] = MonthAfter(m)
    BY <2>2
  <2>4. \A i \in 0..2 : w[i] = IF i = 0 THEN m ELSE MonthAfter(w[i - 1])
    BY <2>1, <2>3
  <2> QED
    BY <2>4
<1>2. after = CHOOSE f : Holds(f)
  BY DEF MonthsAfter
<1> HIDE DEF Holds, w, after
<1>3. Holds(after)
  BY <1>1, <1>2
<1>4. \A i \in 0..2 : after[i] = IF i = 0 THEN m ELSE MonthAfter(after[i - 1])
  BY <1>3 DEF Holds
<1>5. 0 \in 0..2 /\ 1 \in 0..2 /\ 2 \in 0..2 /\ 1 - 1 = 0 /\ 2 - 1 = 1
  OBVIOUS
<1>6. after[0] = m /\ after[1] = MonthAfter(after[0]) /\ after[2] = MonthAfter(after[1])
  BY <1>4, <1>5
<1> QED
  BY <1>6 DEF after

LEMMA MonthsGoOn ==
  ASSUME NEW range \in Asked, NEW m \in Nat, m <= range[2]
  PROVE  m < MonthsAfter(m, 2)[1] /\ MonthsAfter(m, 2)[1] < MonthsAfter(m, 2)[2]
<1>1. PICK x, y \in FirstsOfMonths : range[2] < x /\ x < y
  BY RangeAsked
<1>2. x \in Nat /\ y \in Nat /\ range[2] \in Nat /\ m < x
  <2>1. x \in Nat /\ y \in Nat /\ range[2] \in Nat
    BY MonthsAreDays, RangeAsked
  <2> QED
    BY <1>1, <2>1
<1>3. /\ MonthAfter(m) \in Nat /\ MonthAfter(m) > m /\ MonthAfter(m) <= x
  BY <1>1, <1>2, MonthAfterAsked
<1>4. MonthAfter(m) < y
  BY <1>1, <1>2, <1>3
<1>5. MonthAfter(MonthAfter(m)) \in Nat /\ MonthAfter(MonthAfter(m)) > MonthAfter(m)
  <2> DEFINE n == MonthAfter(m)
  <2>1. n \in Int /\ \E z \in FirstsOfMonths : z > n
    BY <1>2, <1>3, <1>4
  <2> HIDE DEF n
  <2>2. MonthAfter(n) \in Nat /\ MonthAfter(n) > n
    BY <2>1, MonthEnds
  <2> QED
    BY <2>2 DEF n
<1> QED
  BY <1>3, <1>5, TwoMonthsAfter

(* The average of the last three values, in sixths.                        *)
LEMMA SixthsOfNaturals ==
  ASSUME NEW values, NEW n \in Nat, \A i \in 1..n : values[i] \in Nat, NEW i \in 1..n
  PROVE  SixthsOfAverage(values, i) =
             IF i = 1 THEN 6 * values[1]
             ELSE IF i = 2 THEN 3 * (values[1] + values[2])
             ELSE 2 * (values[i - 2] + values[i - 1] + values[i])
<1> DEFINE one == 1
           back == i - 2
           first == Max({one, back})
           f == [j \in first..i |-> values[j]]
<1>1. one \in Int /\ back \in Int
  OBVIOUS
<1>2. first = IF one >= back THEN one ELSE back
  <2> HIDE DEF one, back
  <2> QED
    BY <1>1, MaxOfTwo
<1>3. SixthsOfAverage(values, i) = (6 \div (i - first + 1)) * SumOver(f)
  BY DEF SixthsOfAverage
<1>4. SumOver(f) = Total(f, DOMAIN f)
  BY SumOverIsTotal
<1>5. CASE i = 1
  <2>1. first = 1 /\ DOMAIN f = {1} /\ f[1] = values[1] /\ values[1] \in Int
    BY <1>2, <1>5
  <2> HIDE DEF f, first
  <2>2. SumOver(f) = values[1]
    BY <1>4, <2>1, TotalOfOne
  <2>3. 6 \div (1 - 1 + 1) = 6
    OBVIOUS
  <2> QED
    BY <1>3, <1>5, <2>1, <2>2, <2>3
<1>6. CASE i = 2
  <2>1. first = 1 /\ DOMAIN f = {2} \cup {1} /\ f[1] = values[1] /\ f[2] = values[2]
    BY <1>2, <1>6
  <2>2. values[1] \in Int /\ values[2] \in Int
    BY <1>6
  <2> HIDE DEF f, first
  <2>3. Total(f, {2} \cup {1}) = f[1] + Total(f, {2})
    <3> DEFINE second == 2
    <3>1. IsFiniteSet({second})
      BY FS_Singleton
    <3>2. 1 \notin {second} /\ \A y \in {second} \cup {1} : f[y] \in Int
      BY <2>1, <2>2
    <3> HIDE DEF second
    <3>3. Total(f, {second} \cup {1}) = f[1] + Total(f, {second})
      BY <3>1, <3>2, TotalAdds
    <3> QED
      BY <3>3 DEF second
  <2>4. Total(f, {2}) = f[2]
    BY <2>1, <2>2, TotalOfOne
  <2>5. 6 \div (2 - 1 + 1) = 3
    OBVIOUS
  <2> QED
    BY <1>3, <1>4, <1>6, <2>1, <2>2, <2>3, <2>4, <2>5
<1>7. CASE i > 2
  <2> DEFINE a == i - 2
             b == i - 1
             two == {a} \cup {b}
  <2>1. /\ first = a /\ DOMAIN f = two \cup {i} /\ f[a] = values[a] /\ f[b] = values[b] /\ f[i] = values[i]
        /\ a # b /\ a # i /\ b # i
    <3>1. first = a
      BY <1>2, <1>7
    <3> HIDE DEF first
    <3>2. \A x : x \in first..i <=> x = a \/ x = b \/ x = i
      BY <1>7, <3>1
    <3>3. DOMAIN f = two \cup {i}
      BY <3>2
    <3> QED
      BY <1>7, <3>1, <3>2, <3>3
  <2>2. values[a] \in Int /\ values[b] \in Int /\ values[i] \in Int
    BY <1>7
  <2>3. i - a + 1 = 3
    BY <1>7
  <2> HIDE DEF f, first, a, b, two
  <2>4. Total(f, two \cup {i}) = f[i] + Total(f, two)
    <3>1. IsFiniteSet({a}) /\ IsFiniteSet({b})
      BY FS_Singleton
    <3>2. IsFiniteSet(two) /\ i \notin two /\ \A y \in two \cup {i} : f[y] \in Int
      BY <2>1, <2>2, <3>1, FS_Union DEF two
    <3> QED
      BY <3>2, TotalAdds
  <2>5. Total(f, {a} \cup {b}) = f[b] + Total(f, {a})
    <3>1. IsFiniteSet({a}) /\ b \notin {a} /\ \A y \in {a} \cup {b} : f[y] \in Int
      BY <2>1, <2>2, FS_Singleton
    <3> QED
      BY <3>1, TotalAdds
  <2>6. Total(f, {a}) = f[a]
    BY <2>1, <2>2, TotalOfOne
  <2>7. SumOver(f) = values[a] + values[b] + values[i]
    BY <1>4, <2>1, <2>2, <2>4, <2>5, <2>6 DEF two
  <2>8. 6 \div 3 = 2
    OBVIOUS
  <2>9. SixthsOfAverage(values, i) = 2 * (values[a] + values[b] + values[i])
    BY <1>3, <2>1, <2>3, <2>7, <2>8
  <2> QED
    BY <1>7, <2>9 DEF a, b
<1> QED
  BY <1>5, <1>6, <1>7

(* Values that never fall stay above the first.                            *)
LEMMA NeverFallen ==
  ASSUME NEW values, NEW n \in Nat, \A i \in 1..n : values[i] \in Nat,
         \A i \in 1..(n - 1) : values[i] <= values[i + 1], NEW i \in 1..n
  PROVE  values[1] <= values[i]
<1> DEFINE bad == {j \in 1..n : values[1] > values[j]}
<1>1. SUFFICES ASSUME bad # {} PROVE FALSE
  BY SMT
<1>2. bad \in SUBSET Nat
  OBVIOUS
<1>3. PICK j \in bad : \A k \in bad : j <= k
  <2> HIDE DEF bad
  <2> QED
    BY <1>1, <1>2, LeastOfNaturals
<1>4. j \in 1..n /\ values[1] > values[j] /\ j # 1
  BY <1>3
<1>5. j - 1 \in 1..(n - 1) /\ j - 1 \in 1..n /\ j - 1 + 1 = j
  BY <1>4
<1>6. values[j - 1] <= values[j]
  BY <1>5
<1>7. j - 1 \notin bad
  BY <1>3, <1>4
<1> QED
  BY <1>4, <1>5, <1>6, <1>7

(* What is forecast of n values: s is the last smoothed one, t the rise.   *)
Onward(s, t, n, i) == Max({0, s * (n - 1) + t * i})
LEMMA ForecastIs ==
  ASSUME NEW h, NEW n \in Nat, n >= 2, DOMAIN h = 1..n, Len(h) = n,
         NEW values, values = [i \in DOMAIN h |-> h[i].value],
         NEW s, s = SixthsOfAverage(values, n), NEW t, t = s - SixthsOfAverage(values, 1), NEW k \in 1..2
  PROVE  /\ ForecastRevenue(h, 2)[k].period = MonthsAfter(h[n].period, 2)[k]
         /\ ForecastRevenue(h, 2)[k].value = <<Onward(s, t, n, k), 6 * (n - 1)>>
<1> DEFINE smoothed == [i \in DOMAIN h |-> SixthsOfAverage(values, i)]
<1>1. 1 \in 1..n /\ n \in 1..n /\ n # 1 /\ h # <<>>
  OBVIOUS
<1>2. /\ smoothed[n] = s /\ smoothed[1] = SixthsOfAverage(values, 1)
      /\ Len(smoothed) = n /\ DOMAIN smoothed = 1..n
  BY <1>1
<1>3. ForecastRevenue(h, 2) =
          [i \in 1..2 |-> [period |-> MonthsAfter(h[Len(h)].period, 2)[i],
                           value |-> <<Max({0, smoothed[Len(h)] * Trend(smoothed)[2] + Trend(smoothed)[1] * i}),
                                       6 * Trend(smoothed)[2]>>]]
  BY <1>1 DEF ForecastRevenue
<1> HIDE DEF smoothed
<1>4. Trend(smoothed) = <<t, n - 1>>
  BY <1>1, <1>2 DEF Trend
<1>5. ForecastRevenue(h, 2)[k] =
          [period |-> MonthsAfter(h[Len(h)].period, 2)[k],
           value |-> <<Max({0, smoothed[Len(h)] * Trend(smoothed)[2] + Trend(smoothed)[1] * k}),
                       6 * Trend(smoothed)[2]>>]
  BY <1>3
<1>6. smoothed[Len(h)] = s /\ Trend(smoothed)[1] = t /\ Trend(smoothed)[2] = n - 1 /\ Len(h) = n
  BY <1>2, <1>4
<1>7. ForecastRevenue(h, 2)[k] =
          [period |-> MonthsAfter(h[n].period, 2)[k],
           value |-> <<Max({0, s * (n - 1) + t * k}), 6 * (n - 1)>>]
  BY <1>5, <1>6
<1> DEFINE r == ForecastRevenue(h, 2)[k]
           month == MonthsAfter(h[n].period, 2)[k]
           next == Max({0, s * (n - 1) + t * k})
           six == 6 * (n - 1)
<1>8. r = [period |-> month, value |-> <<next, six>>]
  BY <1>7
<1>9. next = Onward(s, t, n, k)
  BY DEF Onward
<1> HIDE DEF r, month, next, six
<1>10. r.period = month /\ r.value = <<next, six>>
  BY <1>8
<1> QED
  BY <1>9, <1>10 DEF r, month, six


(* The last smoothed value and the rise to it, of n values.                *)
LEMMA SmoothedGrow ==
  ASSUME NEW values, NEW n \in Nat, n >= 2, \A i \in 1..n : values[i] \in Nat,
         NEW s, s = SixthsOfAverage(values, n), NEW t, t = s - SixthsOfAverage(values, 1)
  PROVE  /\ s \in Nat /\ t \in Int
         /\ (\A i \in 1..(n - 1) : values[i] <= values[i + 1]) => t >= 0
         /\ (\A i \in 1..n : values[i] = values[1]) => t = 0 /\ s = 6 * values[1]
<1> DEFINE a == IF n = 2 THEN values[1] ELSE values[n - 2]
           b == IF n = 2 THEN values[1] ELSE values[n - 1]
           c == values[n]
           v == values[1]
<1>1. 1 \in 1..n /\ 2 \in 1..n /\ n \in 1..n /\ n - 1 \in 1..n /\ (n # 2 => n - 2 \in 1..n)
  OBVIOUS
<1>2. SixthsOfAverage(values, 1) = 6 * v
  BY <1>1, SixthsOfNaturals
<1>3. s = IF n = 2 THEN 3 * (values[1] + values[2]) ELSE 2 * (values[n - 2] + values[n - 1] + values[n])
  <2>1. n # 1
    OBVIOUS
  <2> QED
    BY <1>1, <2>1, SixthsOfNaturals
<1>4. a \in Nat /\ b \in Nat /\ c \in Nat /\ v \in Nat
  BY <1>1
<1>5. n = 2 => s = 3 * (v + c) /\ a = v /\ b = v
  BY <1>3
<1>6. n # 2 => s = 2 * (a + b + c)
  BY <1>3
<1>7. (\A i \in 1..(n - 1) : values[i] <= values[i + 1]) => v <= a /\ v <= b /\ v <= c
  BY <1>1, NeverFallen
<1>8. (\A i \in 1..n : values[i] = values[1]) => a = v /\ b = v /\ c = v
  BY <1>1
<1>9. t = s - 6 * v
  BY <1>2
<1> HIDE DEF a, b, c, v
<1>10. s \in Nat /\ t \in Int
  BY <1>4, <1>5, <1>6, <1>9
<1>11. v <= a /\ v <= b /\ v <= c => t >= 0
  BY <1>4, <1>5, <1>6, <1>9
<1>12. a = v /\ b = v /\ c = v => t = 0 /\ s = 6 * v
  BY <1>4, <1>5, <1>6, <1>9
<1> QED
  BY <1>7, <1>8, <1>10, <1>11, <1>12 DEF v

LEMMA OnwardIs ==
  ASSUME NEW s \in Nat, NEW t \in Int, NEW n \in Nat, n >= 2
  PROVE  /\ \A i \in 1..2 : Onward(s, t, n, i) \in Nat
         /\ t >= 0 => /\ s * (n - 1) <= Onward(s, t, n, 1)
                      /\ Onward(s, t, n, 1) <= Onward(s, t, n, 2)
         /\ t = 0 => Onward(s, t, n, 2) = s * (n - 1)
<1> DEFINE d == n - 1
           p == s * d
           none == 0
           x == p + t * 1
           y == p + t * 2
<1>1. d \in Nat
  OBVIOUS
<1> HIDE DEF d
<1>2. p \in Nat
  BY <1>1
<1>3. Onward(s, t, n, 1) = Max({none, x}) /\ Onward(s, t, n, 2) = Max({none, y})
  BY DEF Onward, d
<1> HIDE DEF p
<1>4. none \in Int /\ x \in Int /\ y \in Int /\ x = p + t /\ y = p + 2 * t
  BY <1>2
<1> HIDE DEF none, x, y
<1>5. /\ Onward(s, t, n, 1) = IF none >= x THEN none ELSE x
      /\ Onward(s, t, n, 2) = IF none >= y THEN none ELSE y
  BY <1>3, <1>4, MaxOfTwo
<1>6. Onward(s, t, n, 1) \in Nat /\ Onward(s, t, n, 2) \in Nat
  BY <1>4, <1>5 DEF none
<1>7. t >= 0 => p <= Onward(s, t, n, 1) /\ Onward(s, t, n, 1) <= Onward(s, t, n, 2)
  BY <1>2, <1>4, <1>5 DEF none
<1>8. t = 0 => Onward(s, t, n, 2) = p
  BY <1>2, <1>4, <1>5 DEF none
<1>9. p = s * (n - 1)
  BY DEF p, d
<1> HIDE DEF d
<1>10. \A i \in 1..2 : i = 1 \/ i = 2
  OBVIOUS
<1> QED
  BY <1>6, <1>7, <1>8, <1>9, <1>10

LEMMA ForecastContinues == AnalyticsInv => ForecastGoesOn
<1> SUFFICES ASSUME AnalyticsInv, NEW range \in Asked
             PROVE  LET history == Revenue(range).history
                        values == [i \in DOMAIN history |-> history[i].value]
                        rising == \A i \in 1..(Len(values) - 1) : values[i] <= values[i + 1]
                        forecast == ForecastRevenue(history, 2)
                    IN  Len(history) >= 2 =>
                            /\ history[Len(history)].period < forecast[1].period
                            /\ forecast[1].period < forecast[2].period
                            /\ \A i \in 1..2 : forecast[i].value[1] >= 0
                            /\ rising => NoMore(<<SixthsOfAverage(values, Len(values)), 6>>, forecast[1].value)
                            /\ rising => NoMore(forecast[1].value, forecast[2].value)
                            /\ Cardinality({values[i] : i \in DOMAIN values}) = 1 =>
                                   Same(forecast[2].value, <<values[1], 1>>)
  BY DEF ForecastGoesOn
<1> DEFINE h == Revenue(range).history
           n == Cardinality(MonthsWith(range))
           values == [i \in DOMAIN h |-> h[i].value]
           s == SixthsOfAverage(values, n)
           t == s - SixthsOfAverage(values, 1)
           last == h[n].period
           image == {values[i] : i \in DOMAIN values}
           forecast == ForecastRevenue(h, 2)
<1>1. HistoryOf(range, h)
  BY HistoryIs
<1>2. SUFFICES ASSUME n >= 2
               PROVE  /\ last < forecast[1].period
                      /\ forecast[1].period < forecast[2].period
                      /\ \A i \in 1..2 : forecast[i].value[1] >= 0
                      /\ (\A i \in 1..(n - 1) : values[i] <= values[i + 1]) =>
                             /\ NoMore(<<s, 6>>, forecast[1].value)
                             /\ NoMore(forecast[1].value, forecast[2].value)
                      /\ Cardinality(image) = 1 => Same(forecast[2].value, <<values[1], 1>>)
  <2> HIDE DEF h, n
  <2>1. Len(h) = n /\ Len(values) = n
    BY <1>1 DEF HistoryOf, n
  <2> QED
    BY <2>1, Zenon DEF h
<1> HIDE DEF h, n
<1>3. n \in Nat /\ DOMAIN h = 1..n /\ Len(h) = n /\ \A i \in 1..n : h[i].value \in Nat /\ h[i].period \in Nat
  BY <1>1 DEF HistoryOf, n
<1>4. n \in 1..n /\ 1 \in 1..n
  BY <1>2, <1>3
<1>5. last \in Nat /\ last <= range[2]
  <2>1. h[n].period \in MonthsWith(range)
    BY <1>1, <1>4 DEF HistoryOf, n
  <2> QED
    BY <1>3, <1>4, <2>1, MonthsOfRows
<1>6. \A i \in 1..n : values[i] \in Nat
  BY <1>3
<1>7. values = [i \in DOMAIN h |-> h[i].value] /\ DOMAIN values = 1..n
  BY <1>3
<1> HIDE DEF values, s, t
<1>8. /\ s \in Nat /\ t \in Int
      /\ (\A i \in 1..(n - 1) : values[i] <= values[i + 1]) => t >= 0
      /\ (\A i \in 1..n : values[i] = values[1]) => t = 0 /\ s = 6 * values[1]
  BY <1>2, <1>3, <1>6, SmoothedGrow DEF s, t
<1>9. \A k \in 1..2 : /\ forecast[k].period = MonthsAfter(last, 2)[k]
                      /\ forecast[k].value = <<Onward(s, t, n, k), 6 * (n - 1)>>
  BY <1>2, <1>3, <1>7, ForecastIs DEF s, t
<1>10. last < MonthsAfter(last, 2)[1] /\ MonthsAfter(last, 2)[1] < MonthsAfter(last, 2)[2]
  BY <1>5, MonthsGoOn
<1> DEFINE x == Onward(s, t, n, 1)
           y == Onward(s, t, n, 2)
           d == n - 1
           p == s * d
<1>11. /\ x \in Nat /\ y \in Nat /\ (t >= 0 => p <= x /\ x <= y) /\ (t = 0 => y = p)
  <2>1. 1 \in 1..2 /\ 2 \in 1..2
    OBVIOUS
  <2> QED
    BY <1>2, <1>3, <1>8, <2>1, OnwardIs
<1>12. forecast[1].value = <<x, 6 * d>> /\ forecast[2].value = <<y, 6 * d>> /\ d \in Nat
  BY <1>2, <1>3, <1>9
<1>13. forecast[1].period = MonthsAfter(last, 2)[1] /\ forecast[2].period = MonthsAfter(last, 2)[2]
  BY <1>9
<1> HIDE DEF forecast, last, x, y
<1>14. \A i \in 1..2 : forecast[i].value[1] >= 0
  <2>1. \A i \in 1..2 : i = 1 \/ i = 2
    OBVIOUS
  <2> QED
    BY <1>11, <1>12, <2>1
<1>15. ASSUME t >= 0 PROVE NoMore(<<s, 6>>, forecast[1].value) /\ NoMore(forecast[1].value, forecast[2].value)
  <2> HIDE DEF d, p
  <2>1. p \in Nat /\ s * (6 * d) = 6 * p
    BY <1>8, <1>12 DEF p
  <2>2. x <= y /\ p <= x
    BY <1>11, <1>15
  <2>3. x * (6 * d) <= y * (6 * d)
    BY <1>11, <1>12, <2>2
  <2>4. s * (6 * d) <= x * 6
    BY <1>11, <2>1, <2>2
  <2> QED
    BY <1>12, <2>3, <2>4 DEF NoMore
<1>16. ASSUME Cardinality(image) = 1 PROVE Same(forecast[2].value, <<values[1], 1>>)
  <2>1. IsFiniteSet(image)
    <3>1. IsFiniteSet(DOMAIN values)
      BY <1>3, <1>7, FS_Interval
    <3> QED
      BY <3>1, ImageIsFinite
  <2>2. PICK z : image = {z}
    <3> HIDE DEF image
    <3> QED
      BY <1>16, <2>1, FS_Singleton
  <2>3. \A i \in 1..n : values[i] \in image
    BY <1>7
  <2>4. \A i \in 1..n : values[i] = values[1]
    <3> HIDE DEF image
    <3> QED
      BY <1>4, <2>2, <2>3
  <2> DEFINE v == values[1]
  <2>5. y = p /\ s = 6 * v /\ v \in Nat
    BY <1>4, <1>6, <1>8, <1>11, <2>4
  <2> HIDE DEF v, d
  <2>6. y * 1 = v * (6 * d)
    BY <1>12, <2>5
  <2> QED
    BY <1>12, <2>6 DEF Same, v
<1> QED
  BY <1>8, <1>10, <1>13, <1>14, <1>15, <1>16


LEMMA TotalOfPair ==
  ASSUME NEW f, NEW a, NEW b, a # b, f[a] \in Int, f[b] \in Int
  PROVE  Total(f, {a, b}) = f[a] + f[b]
<1>1. IsFiniteSet({a}) /\ {a, b} = {a} \cup {b}
  BY FS_Singleton
<1>2. b \notin {a} /\ \A x \in {a} \cup {b} : f[x] \in Int
  OBVIOUS
<1>3. Total(f, {a} \cup {b}) = f[b] + Total(f, {a})
  BY <1>1, <1>2, TotalAdds
<1>4. Total(f, {a}) = f[a]
  BY TotalOfOne
<1>5. Total(f, {a, b}) = f[b] + Total(f, {a})
  BY <1>1, <1>3, Zenon
<1>6. Total(f, {a, b}) = f[b] + f[a]
  BY <1>4, <1>5, Zenon
<1> DEFINE t == Total(f, {a, b})
<1> HIDE DEF t
<1>7. t = f[b] + f[a] => t = f[a] + f[b]
  OBVIOUS
<1> QED
  BY <1>6, <1>7 DEF t

(* The day, the week and the month of an audit hold its day, and begin     *)
(* less than a week before the month of it.                                *)
LEMMA WeekOfDay ==
  ASSUME NEW day \in Nat
  PROVE  /\ WeeklyRange(day)[1] \in Int /\ WeeklyRange(day)[2] \in Int
         /\ day - 6 <= WeeklyRange(day)[1] /\ WeeklyRange(day)[1] <= day /\ day <= WeeklyRange(day)[2]
<1> DEFINE weekday == (FirstWeekday + day) % 7
           back == IF weekday = 0 THEN 6 ELSE weekday - 1
<1>1. FirstWeekday \in 0..6
  BY AnalyticsAssumption
<1>2. weekday \in 0..6
  BY <1>1
<1>3. WeeklyRange(day) = <<day - back, day - back + 6>>
  BY DEF WeeklyRange
<1>4. back \in 0..6
  <2> HIDE DEF weekday
  <2> QED
    BY <1>2
<1> HIDE DEF back
<1> QED
  BY <1>3, <1>4

LEMMA MonthOfAudit ==
  ASSUME NEW day \in AuditDays
  PROVE  /\ day \in Nat /\ MonthOf(day) \in Nat /\ MonthOf(day) \in FirstsOfMonths /\ MonthOf(day) <= day
         /\ \A m \in FirstsOfMonths : m <= day => m <= MonthOf(day)
         /\ MonthAfter(MonthOf(day)) \in FirstsOfMonths /\ MonthAfter(MonthOf(day)) \in Nat
         /\ day < MonthAfter(MonthOf(day))
<1> DEFINE month == MonthOf(day)
<1>1. /\ day \in Nat /\ \E m \in FirstsOfMonths : m <= day - 6
      /\ \E m \in FirstsOfMonths : day < m
  BY AnalyticsAssumption
<1>2. \E m \in FirstsOfMonths : m <= day
  <2>1. PICK m \in FirstsOfMonths : m <= day - 6
    BY <1>1
  <2>2. m \in Nat
    BY MonthsAreDays
  <2> QED
    BY <1>1, <2>1, <2>2
<1>3. /\ month \in Nat /\ month \in FirstsOfMonths /\ month <= day
      /\ \A m \in FirstsOfMonths : m <= day => m <= month
  BY <1>1, <1>2, MonthHasBegun
<1> HIDE DEF month
<1>4. \E m \in FirstsOfMonths : m > month
  <2>1. PICK m \in FirstsOfMonths : day < m
    BY <1>1
  <2>2. m \in Nat
    BY MonthsAreDays
  <2> QED
    BY <1>1, <1>3, <2>1, <2>2
<1>5. MonthAfter(month) \in FirstsOfMonths /\ MonthAfter(month) \in Nat /\ MonthAfter(month) > month
  BY <1>3, <1>4, MonthEnds
<1>6. day < MonthAfter(month)
  <2> SUFFICES ASSUME ~(day < MonthAfter(month)) PROVE FALSE
    OBVIOUS
  <2>1. MonthAfter(month) <= day
    BY <1>1, <1>5
  <2>2. MonthAfter(month) <= month
    BY <1>3, <1>5, <2>1
  <2> QED
    BY <1>3, <1>5, <2>2
<1> QED
  BY <1>1, <1>3, <1>5, <1>6 DEF month

LEMMA MonthRangeOfDay ==
  ASSUME NEW day \in AuditDays
  PROVE  /\ MonthlyRange(day)[1] = MonthOf(day) /\ MonthlyRange(day)[2] \in Int
         /\ day <= MonthlyRange(day)[2]
<1> DEFINE month == MonthOf(day)
           next == MonthAfter(month)
           landed == next + (day - month)
<1>1. /\ day \in Nat /\ month \in Nat /\ month <= day /\ next \in FirstsOfMonths /\ next \in Nat
      /\ day < next
  BY MonthOfAudit
<1>2. MonthlyRange(day) = <<month, MonthOf(landed) - 1>>
  BY DEF MonthlyRange
<1> HIDE DEF month, next
<1>3. landed \in Int /\ next <= landed
  BY <1>1
<1> HIDE DEF landed
<1>4. MonthOf(landed) \in Nat /\ next <= MonthOf(landed)
  BY <1>1, <1>3, MonthHasBegun
<1> QED
  BY <1>1, <1>2, <1>4 DEF month

LEMMA AuditRange ==
  ASSUME NEW day \in AuditDays, NEW range \in PeriodRangeOn(day)
  PROVE  /\ range[1] \in Int /\ range[2] \in Int
         /\ MonthOf(day) - 6 <= range[1] /\ range[1] <= day /\ day <= range[2]
         /\ day - 6 <= range[1] \/ range[1] = MonthOf(day)
<1>1. day \in Nat /\ MonthOf(day) \in Nat /\ MonthOf(day) <= day
  BY MonthOfAudit
<1>2. range = <<day, day>> \/ range = WeeklyRange(day) \/ range = MonthlyRange(day)
  BY DEF PeriodRangeOn
<1>3. CASE range = <<day, day>>
  BY <1>1, <1>3
<1>4. CASE range = WeeklyRange(day)
  BY <1>1, <1>4, WeekOfDay
<1>5. CASE range = MonthlyRange(day)
  BY <1>1, <1>5, MonthRangeOfDay
<1> QED
  BY <1>2, <1>3, <1>4, <1>5

(* A range within a month is within the month of the audit.                *)
LEMMA AuditMonth ==
  ASSUME NEW day \in AuditDays, NEW range \in PeriodRangeOn(day), MonthOf(range[1]) = MonthOf(range[2])
  PROVE  MonthSeries(range) = {MonthOf(day)}
<1> DEFINE a == range[1]
           b == range[2]
           month == MonthOf(day)
<1>1. /\ a \in Int /\ b \in Int /\ a <= day /\ day <= b /\ (day - 6 <= a \/ a = month)
  BY AuditRange
<1>2. /\ day \in Nat /\ month \in Nat /\ month \in FirstsOfMonths /\ month <= day
      /\ \A m \in FirstsOfMonths : m <= day => m <= month
  BY MonthOfAudit
<1>3. PICK first \in FirstsOfMonths : first <= day - 6
  BY AnalyticsAssumption
<1>4. first \in Nat
  BY MonthsAreDays
<1> HIDE DEF a, b, month
<1>5. \E m \in FirstsOfMonths : m <= a
  BY <1>1, <1>2, <1>3, <1>4
<1>6. \E m \in FirstsOfMonths : m <= b
  BY <1>1, <1>2
<1>7. /\ MonthOf(a) \in FirstsOfMonths /\ MonthOf(a) \in Nat /\ MonthOf(a) <= a
      /\ \A m \in FirstsOfMonths : m <= a => m <= MonthOf(a)
  BY <1>1, <1>5, MonthHasBegun
<1>8. /\ MonthOf(b) \in FirstsOfMonths /\ MonthOf(b) \in Nat /\ MonthOf(b) <= b
      /\ \A m \in FirstsOfMonths : m <= b => m <= MonthOf(b)
  BY <1>1, <1>6, MonthHasBegun
<1>9. MonthOf(a) = MonthOf(b)
  BY DEF a, b
<1>10. MonthOf(a) = month
  <2>1. month <= MonthOf(b)
    BY <1>1, <1>2, <1>8
  <2>2. MonthOf(a) <= month
    BY <1>1, <1>2, <1>7
  <2> QED
    BY <1>2, <1>7, <1>9, <2>1, <2>2
<1>11. \A m : m \in MonthSeries(range) <=> m \in FirstsOfMonths /\ month <= m /\ m <= b
  BY <1>10 DEF MonthSeries, a, b
<1>12. \A m \in FirstsOfMonths : month <= m /\ m <= b => m = month
  <2>1. \A m \in FirstsOfMonths : m \in Nat
    BY MonthsAreDays
  <2> QED
    BY <1>2, <1>8, <1>9, <1>10, <2>1
<1>13. \A m : m \in MonthSeries(range) <=> m = month
  <2>1. month <= month /\ month <= b
    BY <1>1, <1>2
  <2>2. month \in MonthSeries(range)
    BY <1>2, <1>11, <2>1
  <2>3. \A m \in MonthSeries(range) : m = month
    BY <1>11, <1>12
  <2> QED
    BY <2>2, <2>3
<1> QED
  BY <1>13 DEF month

(* A table of two rows, each recorded so many times.                       *)
PairIn(table, a, m, b, n) == Rows(table) = {a, b} /\ a # b /\ ledger[a] = m /\ ledger[b] = n

(* Both audits seed customers of before and of the day, and subscriptions, *)
(* some of them canceled on the day.                                       *)
SeededCustomers(day, channel, days, p, q) ==
    /\ channel # "audit" /\ days > 6
    /\ PairIn("customer", CustomerRow(channel, 2 * (MonthOf(day) - days)), p,
                          CustomerRow("audit", 2 * day + 1), q)
SeededSubscriptions(day, u, x, v, y) ==
    PairIn("subscription", SubscriptionRow("ACTIVE", 2 * (MonthOf(day) - u), 2 * (MonthOf(day) - 30)), x,
                           SubscriptionRow("CANCELED", 2 * (MonthOf(day) - v), 2 * day + 1), y)

LEMMA CountOfOne ==
  ASSUME AnalyticsInv, NEW r \in DOMAIN ledger PROVE CountOf({r}) = ledger[r] /\ ledger[r] \in Nat
<1>1. ledger[r] \in Nat /\ ledger[r] \in Int /\ {r} \in SUBSET DOMAIN ledger
  BY LedgerCounts
<1>2. CountOf({r}) = Total(ledger, {r})
  BY <1>1, CountOfRows
<1> QED
  BY <1>1, <1>2, TotalOfOne

LEMMA NewOfAudit ==
  ASSUME AnalyticsInv, NEW day \in AuditDays, NEW range \in PeriodRangeOn(day),
         NEW channel, NEW days \in Nat, NEW p, NEW q, SeededCustomers(day, channel, days, p, q)
  PROVE  CountOf(NewIn(range, {})) = q
<1> DEFINE a == CustomerRow(channel, 2 * (MonthOf(day) - days))
           b == CustomerRow("audit", 2 * day + 1)
<1>1. days > 6 /\ Rows("customer") = {a, b} /\ a # b /\ ledger[b] = q
  BY DEF SeededCustomers, PairIn
<1>2. /\ day \in Nat /\ MonthOf(day) \in Nat /\ range[1] \in Int /\ range[2] \in Int
      /\ MonthOf(day) - 6 <= range[1] /\ range[1] <= day /\ day <= range[2]
  BY AuditRange, MonthOfAudit
<1>3. a.at = 2 * (MonthOf(day) - days) /\ b.at = 2 * day + 1
  BY DEF CustomerRow
<1> HIDE DEF a, b
<1>4. ~(RangeStart(range) <= a.at) /\ RangeStart(range) <= b.at /\ b.at <= RangeEnd(range)
  BY <1>1, <1>2, <1>3 DEF RangeStart, RangeEnd
<1>5. NewIn(range, {}) = {b}
  BY <1>1, <1>4 DEF NewIn, During, Chosen
<1>6. b \in DOMAIN ledger
  BY <1>1 DEF Rows
<1> QED
  BY <1>1, <1>5, <1>6, CountOfOne

LEMMA ChurnOfAudit ==
  ASSUME AnalyticsInv, NEW day \in AuditDays, NEW range \in PeriodRangeOn(day),
         MonthOf(range[1]) = MonthOf(range[2]),
         NEW channel, NEW days \in Nat, NEW p, NEW q, SeededCustomers(day, channel, days, p, q),
         NEW u, NEW x, NEW v, NEW y, SeededSubscriptions(day, u, x, v, y)
  PROVE  Churn(range).overall = Ratio(Min({p, y}), p)
<1> DEFINE month == MonthOf(day)
           a == CustomerRow(channel, 2 * (month - days))
           b == CustomerRow("audit", 2 * day + 1)
           c == SubscriptionRow("ACTIVE", 2 * (month - u), 2 * (month - 30))
           d == SubscriptionRow("CANCELED", 2 * (month - v), 2 * day + 1)
           early == {r \in CustomersBefore(range) : r.at < 2 * month}
           gone == {s \in CanceledIn(range) : 2 * month <= s.end /\ s.end <= MonthEnd(month)}
<1>1. days > 6 /\ Rows("customer") = {a, b} /\ a # b /\ ledger[a] = p
  BY DEF SeededCustomers, PairIn
<1>2. Rows("subscription") = {c, d} /\ c # d /\ ledger[d] = y
  BY DEF SeededSubscriptions, PairIn
<1>3. /\ day \in Nat /\ month \in Nat /\ range[1] \in Int /\ range[2] \in Int /\ month <= day
      /\ range[1] <= day /\ day <= range[2] /\ MonthAfter(month) \in Nat /\ day < MonthAfter(month)
  BY AuditRange, MonthOfAudit
<1>4. a.at = 2 * (month - days) /\ b.at = 2 * day + 1
  BY DEF CustomerRow
<1>5. c.status = "ACTIVE" /\ d.status = "CANCELED" /\ d.end = 2 * day + 1
  BY DEF SubscriptionRow
<1>6. MonthSeries(range) = {month}
  BY AuditMonth
<1> HIDE DEF a, b, c, d, month
<1>7. a.at < 2 * month /\ ~(b.at < 2 * month) /\ a.at < RangeEnd(range)
  BY <1>1, <1>3, <1>4 DEF RangeEnd
<1>8. early = {a}
  BY <1>1, <1>7 DEF CustomersBefore
<1>9. /\ RangeStart(range) <= d.end /\ d.end <= RangeEnd(range)
      /\ 2 * month <= d.end /\ d.end <= MonthEnd(month)
  BY <1>3, <1>5 DEF RangeStart, RangeEnd, MonthEnd
<1>10. d.end # NoEnd
  <2>1. NoEnd \notin Int
    BY AnalyticsAssumption
  <2>2. d.end \in Int
    BY <1>3, <1>5
  <2> QED
    BY <2>1, <2>2
<1>11. gone = {d}
  BY <1>2, <1>5, <1>9, <1>10 DEF CanceledIn
<1>12. a \in DOMAIN ledger /\ d \in DOMAIN ledger
  BY <1>1, <1>2 DEF Rows
<1>13. AtStart(range)[month] = CountOf(early)
  BY <1>6 DEF AtStart
<1>14. Lost(range)[month] = Min({AtStart(range)[month], CountOf(gone)})
  BY <1>6 DEF Lost
<1> HIDE DEF early, gone
<1>15. AtStart(range)[month] = p
  BY <1>1, <1>8, <1>12, <1>13, CountOfOne
<1>16. CountOf(gone) = y
  BY <1>2, <1>11, <1>12, CountOfOne
<1>17. Lost(range)[month] = Min({p, y})
  BY <1>14, <1>15, <1>16
<1>18. /\ SumOver(AtStart(range)) = Total(AtStart(range), {month}) /\ AtStart(range)[month] \in Int
       /\ SumOver(Lost(range)) = Total(Lost(range), {month}) /\ Lost(range)[month] \in Int
  BY <1>6, MonthsOfChurn
<1>19. SumOver(AtStart(range)) = p /\ SumOver(Lost(range)) = Min({p, y})
  BY <1>15, <1>17, <1>18, TotalOfOne
<1> QED
  BY <1>19, ChurnIs

LEMMA LifetimesOfAudit ==
  ASSUME AnalyticsInv, NEW day \in AuditDays, NEW range,
         NEW u \in Nat, u >= 30, NEW x \in Nat, NEW v \in Nat, NEW y \in Nat,
         SeededSubscriptions(day, u, x, v, y)
  PROVE  LTV(range).months =
             Ratio(x * (2 * (u - 30)) + y * (2 * day + 1 - 2 * (MonthOf(day) - v)), 60 * (x + y))
<1> DEFINE month == MonthOf(day)
           c == SubscriptionRow("ACTIVE", 2 * (month - u), 2 * (month - 30))
           d == SubscriptionRow("CANCELED", 2 * (month - v), 2 * day + 1)
           subs == Rows("subscription")
           g == [s \in subs |-> ledger[s] * Max({0, (IF s.end = NoEnd THEN Present ELSE s.end) - s.start})]
           e == 2 * (u - 30)
           f == 2 * day + 1 - 2 * (month - v)
           none == 0
<1>1. subs = {c, d} /\ c # d /\ ledger[c] = x /\ ledger[d] = y
  BY DEF SeededSubscriptions, PairIn
<1>2. day \in Nat /\ month \in Nat /\ month <= day
  BY MonthOfAudit
<1>3. /\ c.start = 2 * (month - u) /\ c.end = 2 * (month - 30)
      /\ d.start = 2 * (month - v) /\ d.end = 2 * day + 1
  BY DEF SubscriptionRow
<1>4. LTV(range).months = Ratio(SumOver(g), 60 * CountOf(subs))
  BY DEF LTV, Weigh
<1>5. c \in DOMAIN ledger /\ d \in DOMAIN ledger /\ subs \in SUBSET DOMAIN ledger
  BY <1>1 DEF Rows
<1>6. g[c] = x * Max({none, (IF c.end = NoEnd THEN Present ELSE c.end) - c.start})
  BY <1>1
<1>7. g[d] = y * Max({none, (IF d.end = NoEnd THEN Present ELSE d.end) - d.start})
  BY <1>1
<1>8. DOMAIN g = subs
  OBVIOUS
<1> HIDE DEF c, d, month, subs, g, none
<1>9. NoEnd \notin Int
  BY AnalyticsAssumption
<1>10. /\ (IF c.end = NoEnd THEN Present ELSE c.end) - c.start = e
       /\ (IF d.end = NoEnd THEN Present ELSE d.end) - d.start = f
  BY <1>2, <1>3, <1>9
<1>11. e \in Nat /\ f \in Nat
  BY <1>2
<1> HIDE DEF e, f
<1>12. Max({none, e}) = e /\ Max({none, f}) = f
  <2>1. none \in Int /\ e \in Int /\ f \in Int
    BY <1>11 DEF none
  <2>2. Max({none, e}) = IF none >= e THEN none ELSE e
    BY <2>1, MaxOfTwo
  <2>3. Max({none, f}) = IF none >= f THEN none ELSE f
    BY <2>1, MaxOfTwo
  <2> QED
    BY <1>11, <2>2, <2>3 DEF none
<1>13. g[c] = x * e /\ g[d] = y * f
  BY <1>6, <1>7, <1>10, <1>12
<1>14. g[c] \in Int /\ g[d] \in Int
  BY <1>11, <1>13
<1>15. SumOver(g) = x * e + y * f
  BY <1>1, <1>8, <1>13, <1>14, SumOverIsTotal, TotalOfPair
<1>16. CountOf(subs) = x + y
  <2>1. CountOf(subs) = Total(ledger, subs)
    BY <1>5, CountOfRows
  <2>2. ledger[c] \in Int /\ ledger[d] \in Int
    BY <1>1
  <2> QED
    BY <1>1, <2>1, <2>2, TotalOfPair
<1> QED
  BY <1>4, <1>15, <1>16 DEF e, f, month


(* What is recorded during the day of an audit is recorded in its ranges.  *)
LEMMA DayIsDuring ==
  ASSUME NEW day \in AuditDays, NEW range \in PeriodRangeOn(day), NEW rows,
         \A r \in rows : r.at = 2 * day \/ r.at = 2 * day + 1
  PROVE  During(rows, range) = rows
<1>1. /\ day \in Nat /\ range[1] \in Int /\ range[2] \in Int
      /\ range[1] <= day /\ day <= range[2]
  BY AuditRange, MonthOfAudit
<1>2. \A r \in rows : RangeStart(range) <= r.at /\ r.at <= RangeEnd(range)
  BY <1>1 DEF RangeStart, RangeEnd
<1> QED
  BY <1>2 DEF During

(* The rows that a rich audit seeds, table by table.                       *)
RichSpend(day) == SpendRow(1, 150, 3, day)
FirstRevenue(day) == RevenueRow(1, 60, "SUBSCRIPTION_STARTED", day)
SecondRevenue(day) == RevenueRow(2, 30, "SUBSCRIPTION_RENEWED", day)
LEMMA RichTables ==
  ASSUME NEW day \in AuditDays, ledger = RichFixtures(day)
  PROVE  /\ SeededCustomers(day, "Referral", 20, 1, 3)
         /\ SeededSubscriptions(day, 90, 1, 150, 1)
         /\ PairIn("revenue", FirstRevenue(day), 1, SecondRevenue(day), 1)
         /\ Rows("spend") = {RichSpend(day)} /\ ledger[RichSpend(day)] = 1
<1> DEFINE month == MonthOf(day)
           noon == 2 * day + 1
           a == RichSpend(day)
           b == CustomerRow("Referral", 2 * (month - 20))
           c == SubscriptionRow("ACTIVE", 2 * (month - 90), 2 * (month - 30))
           d == SubscriptionRow("CANCELED", 2 * (month - 150), noon)
           e == FirstRevenue(day)
           f == SecondRevenue(day)
           g == EventRow(0, "PURCHASE", 2 * (month - 20))
           h == CustomerRow("audit", noon)
           all == {EventRow(i, kind, noon) : i \in 1..2, kind \in {"SIGNUP", "PURCHASE"}}
           one == {a, b, c, d, e, f, g} \cup all
           more == [r \in {h} |-> 3]
<1>1. ledger = Join(Once(one), more)
  BY DEF RichFixtures, RichSpend, FirstRevenue, SecondRevenue
<1>2. /\ a.table = "spend" /\ b.table = "customer" /\ c.table = "subscription"
      /\ d.table = "subscription" /\ e.table = "revenue" /\ f.table = "revenue"
      /\ g.table = "event" /\ h.table = "customer" /\ \A r \in all : r.table = "event"
  BY DEF RichSpend, CustomerRow, SubscriptionRow, FirstRevenue, SecondRevenue, EventRow, SpendRow, RevenueRow
<1>3. b.channel = "Referral" /\ h.channel = "audit" /\ c.status = "ACTIVE" /\ d.status = "CANCELED"
  BY DEF CustomerRow, SubscriptionRow
<1>4. e.amount = 60 /\ f.amount = 30
  BY DEF FirstRevenue, SecondRevenue, RevenueRow
<1> HIDE DEF a, b, c, d, e, f, g, h, all
<1>5. b # h /\ c # d /\ e # f
  BY <1>3, <1>4
<1>6. \A r : r \in DOMAIN ledger <=> r \in {a, b, c, d, e, f, g, h} \/ r \in all
  BY <1>1 DEF Join, Once
<1>7. \A r \in DOMAIN ledger : r # h => ledger[r] = 1
  BY <1>1 DEF Join, Once
<1>8. ledger[h] = 3
  <2>1. h \notin one
    BY <1>2, <1>5
  <2> QED
    BY <1>1, <2>1 DEF Join, Once
<1>9. Rows("customer") = {b, h}
  BY <1>2, <1>6 DEF Rows
<1>10. Rows("subscription") = {c, d}
  BY <1>2, <1>6 DEF Rows
<1>11. Rows("revenue") = {e, f}
  BY <1>2, <1>6 DEF Rows
<1>12. Rows("spend") = {a}
  BY <1>2, <1>6 DEF Rows
<1>13. ledger[a] = 1 /\ ledger[b] = 1 /\ ledger[c] = 1 /\ ledger[d] = 1 /\ ledger[e] = 1 /\ ledger[f] = 1
  BY <1>2, <1>5, <1>6, <1>7
<1>14. SeededCustomers(day, "Referral", 20, 1, 3)
  BY <1>5, <1>8, <1>9, <1>13 DEF SeededCustomers, PairIn, b, h
<1>15. SeededSubscriptions(day, 90, 1, 150, 1)
  BY <1>5, <1>10, <1>13 DEF SeededSubscriptions, PairIn, c, d
<1>16. PairIn("revenue", e, 1, f, 1)
  BY <1>5, <1>11, <1>13 DEF PairIn
<1> QED
  BY <1>12, <1>13, <1>14, <1>15, <1>16 DEF a, e, f

Joined(f, g, h) ==
    /\ DOMAIN h = DOMAIN f \cup DOMAIN g
    /\ \A r \in DOMAIN f : h[r] = f[r]
    /\ \A r \in DOMAIN g : r \notin DOMAIN f => h[r] = g[r]
LEMMA JoinIs == ASSUME NEW f, NEW g, NEW h, h = Join(f, g) PROVE Joined(f, g, h)
BY DEF Joined, Join

(* The rows of a stress audit, of which those of two tables vary.          *)
SpendsOf(day) == [k \in 1..5 |-> SpendRow(k, 100, 20, day)]
KindOf(i) == IF i % 2 = 0 THEN "SUBSCRIPTION_STARTED" ELSE "SUBSCRIPTION_RENEWED"
RevenuesOf(day) == [i \in 0..79 |-> RevenueRow(i, 10 + (i % 5) * 2, KindOf(i), day)]
LEMMA StressTables ==
  ASSUME NEW day \in AuditDays, ledger = StressFixtures(day)
  PROVE  /\ SeededCustomers(day, "Legacy", 10, 40, 100)
         /\ SeededSubscriptions(day, 120, 80, 120, 20)
         /\ Rows("spend") = {SpendsOf(day)[k] : k \in 1..5}
         /\ Rows("revenue") = {RevenuesOf(day)[i] : i \in 0..79}
         /\ \A r \in Rows("spend") \cup Rows("revenue") : ledger[r] = 1
<1> DEFINE month == MonthOf(day)
           noon == 2 * day + 1
           b == CustomerRow("Legacy", 2 * (month - 10))
           h == CustomerRow("audit", noon)
           c == SubscriptionRow("ACTIVE", 2 * (month - 120), 2 * (month - 30))
           d == SubscriptionRow("CANCELED", 2 * (month - 120), noon)
           spends == {SpendRow(k, 100, 20, day) : k \in 1..5}
           revenues == {RevenueRow(i, 10 + (i % 5) * 2, KindOf(i), day) : i \in 0..79}
           all == {EventRow(i, kind, noon) : i \in 0..79, kind \in {"SIGNUP", "PURCHASE"}}
           one == spends \cup revenues \cup all
           old == [r \in {b} |-> 40]
           new == [r \in {h} |-> 100]
           active == [r \in {c} |-> 80]
           gone == [r \in {d} |-> 20]
<1>1. ledger = Join(Once(one), Join(old, Join(new, Join(active, gone))))
  BY DEF StressFixtures, KindOf
<1>2. /\ b.table = "customer" /\ c.table = "subscription" /\ d.table = "subscription"
      /\ h.table = "customer" /\ \A r \in all : r.table = "event"
      /\ \A r \in spends : r.table = "spend"
      /\ \A r \in revenues : r.table = "revenue"
  BY DEF CustomerRow, SubscriptionRow, EventRow, SpendRow, RevenueRow
<1>3. b.channel = "Legacy" /\ h.channel = "audit" /\ c.status = "ACTIVE" /\ d.status = "CANCELED"
  BY DEF CustomerRow, SubscriptionRow
<1>4. spends = {SpendsOf(day)[k] : k \in 1..5}
  <2>1. \A k \in 1..5 : SpendsOf(day)[k] = SpendRow(k, 100, 20, day)
    BY DEF SpendsOf
  <2> QED
    BY <2>1
<1>5. revenues = {RevenuesOf(day)[i] : i \in 0..79}
  <2>1. \A i \in 0..79 : RevenuesOf(day)[i] = RevenueRow(i, 10 + (i % 5) * 2, KindOf(i), day)
    BY DEF RevenuesOf
  <2> QED
    BY <2>1
<1> HIDE DEF b, c, d, h, all, spends, revenues
<1>6. b # h /\ c # d /\ b # c /\ b # d /\ h # c /\ h # d
  BY <1>2, <1>3
<1>7. \A r \in one : r # b /\ r # c /\ r # d /\ r # h
  BY <1>2
<1>8. DOMAIN Once(one) = one /\ DOMAIN old = {b} /\ DOMAIN new = {h} /\ DOMAIN active = {c} /\ DOMAIN gone = {d}
  BY DEF Once
<1>9. \A r \in one : Once(one)[r] = 1
  BY DEF Once
<1>10. old[b] = 40 /\ new[h] = 100 /\ active[c] = 80 /\ gone[d] = 20
  OBVIOUS
<1> DEFINE last == Join(active, gone)
           later == Join(new, last)
           rest == Join(old, later)
<1>11. last = Join(active, gone) /\ later = Join(new, last) /\ rest = Join(old, later)
  OBVIOUS
<1>12. ledger = Join(Once(one), rest)
  BY <1>1
<1> HIDE DEF one, old, new, active, gone, last, later, rest
<1>13. DOMAIN last = {c, d} /\ last[c] = 80 /\ last[d] = 20
  <2>1. Joined(active, gone, last)
    BY <1>11, JoinIs
  <2> QED
    BY <1>6, <1>8, <1>10, <2>1 DEF Joined
<1>14. DOMAIN later = {h, c, d} /\ later[h] = 100 /\ later[c] = 80 /\ later[d] = 20
  <2>1. Joined(new, last, later)
    BY <1>11, JoinIs
  <2> QED
    BY <1>6, <1>8, <1>10, <1>13, <2>1 DEF Joined
<1>15. DOMAIN rest = {b, h, c, d} /\ rest[b] = 40 /\ rest[h] = 100 /\ rest[c] = 80 /\ rest[d] = 20
  <2>1. Joined(old, later, rest)
    BY <1>11, JoinIs
  <2> QED
    BY <1>6, <1>8, <1>10, <1>14, <2>1 DEF Joined
<1>16. /\ DOMAIN ledger = one \cup DOMAIN rest
       /\ \A r \in one : ledger[r] = Once(one)[r]
       /\ \A r \in DOMAIN rest : r \notin one => ledger[r] = rest[r]
  <2> DEFINE some == Once(one)
  <2>1. ledger = Join(some, rest) /\ DOMAIN some = one
    BY <1>8, <1>12
  <2> HIDE DEF some
  <2>2. Joined(some, rest, ledger)
    BY <2>1, JoinIs
  <2> QED
    BY <2>1, <2>2 DEF some, Joined
<1>17. /\ DOMAIN ledger = one \cup {b, h, c, d} /\ \A r \in one : ledger[r] = 1
       /\ ledger[b] = 40 /\ ledger[h] = 100 /\ ledger[c] = 80 /\ ledger[d] = 20
  BY <1>7, <1>9, <1>15, <1>16
<1>18. \A r : r \in DOMAIN ledger <=> r \in {b, h, c, d} \/ r \in all \/ r \in spends \/ r \in revenues
  BY <1>17 DEF one
<1>19. Rows("customer") = {b, h}
  BY <1>2, <1>18 DEF Rows
<1>20. Rows("subscription") = {c, d}
  BY <1>2, <1>18 DEF Rows
<1>21. Rows("revenue") = revenues
  BY <1>2, <1>18 DEF Rows
<1>22. Rows("spend") = spends
  BY <1>2, <1>18 DEF Rows
<1>23. \A r \in Rows("spend") \cup Rows("revenue") : ledger[r] = 1
  BY <1>17, <1>21, <1>22 DEF one
<1>24. SeededCustomers(day, "Legacy", 10, 40, 100)
  BY <1>6, <1>17, <1>19 DEF SeededCustomers, PairIn, b, h
<1>25. SeededSubscriptions(day, 120, 80, 120, 20)
  BY <1>6, <1>17, <1>20 DEF SeededSubscriptions, PairIn, c, d
<1> QED
  BY <1>4, <1>5, <1>21, <1>22, <1>23, <1>24, <1>25


(* A fraction with a denominator is what it says.                          *)
LEMMA RatioIs ==
  ASSUME NEW n \in Int, NEW d \in Nat, d # 0 PROVE Ratio(n, d) = <<n, d>> /\ Same(Ratio(n, d), <<n, d>>)
<1>1. Ratio(n, d) = <<n, d>>
  BY DEF Ratio
<1> QED
  BY <1>1 DEF Same

LEMMA LifetimesAgree ==
  ASSUME NEW x \in Nat, NEW y \in Nat, NEW w \in Nat, NEW z \in Int, NEW u \in Nat, u = w + 30,
         NEW n \in Nat, n = x + y, n # 0
  PROVE  Same(Ratio(x * (2 * (u - 30)) + y * z, 60 * (x + y)), <<x * 2 * w + y * z, 60 * n>>)
<1> DEFINE a == x * (2 * (u - 30)) + y * z
           b == x * 2 * w + y * z
           d == 60 * n
<1>1. u - 30 = w /\ x * (2 * w) = x * 2 * w
  OBVIOUS
<1>2. a = b
  BY <1>1
<1>3. a \in Int /\ d \in Nat /\ d # 0 /\ 60 * (x + y) = d
  BY <1>1
<1> HIDE DEF a, b, d
<1>4. Same(Ratio(a, d), <<a, d>>)
  BY <1>3, RatioIs
<1> QED
  BY <1>2, <1>3, <1>4 DEF a, b, d

(* The parts of what an audit expects.                                     *)
Agrees(range, expected) ==
    /\ Same(CAC(range, {}, {}).cac, expected.cac)
    /\ \A factor \in {"perCustomer", "months"} : Same(LTV(range)[factor], expected.ltv[factor])
    /\ Revenue(range).total = expected.revenue
    /\ MonthOf(range[1]) = MonthOf(range[2]) => Same(Churn(range).overall, expected.churn)

LEMMA AllAreChosen == ASSUME NEW range PROVE SpendIn(range, {}, {}) = During(Rows("spend"), range)
  BY DEF SpendIn, Chosen

LEMMA CostPerCustomer ==
  ASSUME NEW range, NEW rows, rows = During(Rows("spend"), range)
  PROVE  CAC(range, {}, {}).cac = Ratio(CostOf(rows), CountOf(NewIn(range, {})))
<1>1. rows = SpendIn(range, {}, {})
  BY AllAreChosen
<1> DEFINE none == {}
<1>2. rows = SpendIn(range, none, none)
  BY <1>1
<1> HIDE DEF none
<1>3. CACOf(range, none, none, rows)
  BY <1>2, CACIs
<1>4. CAC(range, none, none).cac = Ratio(CostOf(rows), CountOf(NewIn(range, none)))
  BY <1>3 DEF CACOf
<1> QED
  BY <1>4 DEF none

LEMMA RichPasses ==
  ASSUME AnalyticsInv, NEW day \in AuditDays, NEW range \in PeriodRangeOn(day), ledger = RichFixtures(day)
  PROVE  Agrees(range, RichExpected(day))
<1> DEFINE a == RichSpend(day)
           e == FirstRevenue(day)
           f == SecondRevenue(day)
           expected == RichExpected(day)
<1>1. /\ SeededCustomers(day, "Referral", 20, 1, 3)
      /\ SeededSubscriptions(day, 90, 1, 150, 1)
      /\ Rows("revenue") = {e, f} /\ e # f /\ ledger[e] = 1 /\ ledger[f] = 1
      /\ Rows("spend") = {a} /\ ledger[a] = 1
  BY RichTables DEF PairIn
<1>2. /\ e.customer = 1 /\ e.amount = 60 /\ e.at = 2 * day + 1
      /\ f.customer = 2 /\ f.amount = 30 /\ f.at = 2 * day + 1
      /\ a.cost = 150 /\ a.at = 2 * day
  BY DEF RichSpend, FirstRevenue, SecondRevenue, SpendRow, RevenueRow
<1> HIDE DEF a, e, f
<1>3. During(Rows("spend"), range) = {a} /\ During(Rows("revenue"), range) = {e, f}
  <2>1. /\ \A r \in Rows("spend") : r.at = 2 * day \/ r.at = 2 * day + 1
        /\ \A r \in Rows("revenue") : r.at = 2 * day \/ r.at = 2 * day + 1
    BY <1>1, <1>2
  <2> QED
    BY <1>1, <2>1, DayIsDuring
<1>4. CountOf(NewIn(range, {})) = 3
  <2>1. 20 \in Nat
    OBVIOUS
  <2> QED
    BY <1>1, <2>1, NewOfAudit
<1>5. CostOf({a}) = 150
  <2>1. Costs[a] = 150 /\ Costs[a] \in Int
    BY <1>1, <1>2 DEF Costs
  <2>2. CostOf({a}) = Total(Costs, {a})
    BY <1>1, CostOfRows
  <2> QED
    BY <2>1, <2>2, TotalOfOne
<1>6. AmountOf({e, f}) = 90
  <2>1. Amounts[e] = 60 /\ Amounts[f] = 30 /\ Amounts[e] \in Int /\ Amounts[f] \in Int
    BY <1>1, <1>2 DEF Amounts
  <2>2. AmountOf({e, f}) = Total(Amounts, {e, f})
    BY <1>1, AmountOfRows
  <2>3. Total(Amounts, {e, f}) = Amounts[e] + Amounts[f]
    BY <1>1, <2>1, TotalOfPair
  <2> QED
    BY <2>1, <2>2, <2>3
<1>7. Cardinality(BuyersIn(range)) = 2
  <2> DEFINE x == 1
             y == 2
  <2>1. NoCustomer \notin Nat
    BY AnalyticsAssumption
  <2>2. BuyersIn(range) = {x, y}
    BY <1>2, <1>3, <2>1 DEF BuyersIn
  <2>5. y \notin {x} /\ {x, y} = {x} \cup {y}
    OBVIOUS
  <2> HIDE DEF x, y
  <2>3. IsFiniteSet({x}) /\ Cardinality({x}) = 1
    BY FS_Singleton
  <2>4. Cardinality({x} \cup {y}) = Cardinality({x}) + 1
    BY <2>3, <2>5, FS_AddElement
  <2> QED
    BY <2>2, <2>3, <2>4, <2>5
<1>8. Same(CAC(range, {}, {}).cac, expected.cac)
  <2>1. CAC(range, {}, {}).cac = Ratio(150, 3)
    BY <1>3, <1>4, <1>5, CostPerCustomer
  <2>2. expected.cac = <<50, 1>>
    BY DEF RichExpected
  <2> QED
    BY <2>1, <2>2 DEF Ratio, Same
<1>9. Same(LTV(range).perCustomer, expected.ltv.perCustomer)
  <2>1. LTV(range).perCustomer = Ratio(90, 2)
    BY <1>3, <1>6, <1>7, LTVIs
  <2>2. expected.ltv.perCustomer = <<90, 2>>
    BY DEF RichExpected
  <2> QED
    BY <2>1, <2>2 DEF Ratio, Same
<1>10. Same(LTV(range).months, expected.ltv.months)
  <2> DEFINE month == MonthOf(day)
             z == 2 * day + 1 - 2 * (month - 150)
             x == 1
             u == 90
             v == 150
             w == 60
             n == 2
  <2>1. day \in Nat /\ month \in Nat
    BY MonthOfAudit
  <2>2. /\ z \in Int /\ x \in Nat /\ u \in Nat /\ v \in Nat /\ w \in Nat /\ n \in Nat
        /\ u >= 30 /\ u = w + 30 /\ n = x + x /\ n # 0
    BY <2>1
  <2>3. SeededSubscriptions(day, u, x, v, x)
    BY <1>1
  <2>4. LTV(range).months = Ratio(x * (2 * (u - 30)) + x * (2 * day + 1 - 2 * (MonthOf(day) - v)), 60 * (x + x))
    <3> HIDE DEF x, u, v
    <3> QED
      BY <2>2, <2>3, LifetimesOfAudit
  <2>5. expected.ltv.months = <<2 * 60 + (2 * day + 1) - 2 * (month - 150), 60 * 2>>
    BY DEF RichExpected
  <2>6. 2 * 60 + (2 * day + 1) - 2 * (month - 150) = x * 2 * w + x * z
    BY <2>1
  <2>7. expected.ltv.months = <<x * 2 * w + x * z, 60 * n>>
    BY <2>5, <2>6
  <2>8. LTV(range).months = Ratio(x * (2 * (u - 30)) + x * z, 60 * (x + x))
    BY <2>4
  <2> HIDE DEF expected, month, z, x, u, w, n
  <2>9. Same(Ratio(x * (2 * (u - 30)) + x * z, 60 * (x + x)), <<x * 2 * w + x * z, 60 * n>>)
    BY <2>2, LifetimesAgree
  <2> QED
    BY <2>7, <2>8, <2>9
<1>11. Revenue(range).total = expected.revenue
  <2>1. expected.revenue = 90
    BY DEF RichExpected
  <2>2. Revenue(range).total = AmountOf(During(Rows("revenue"), range))
    BY RevenueIs
  <2> HIDE DEF expected
  <2> QED
    BY <1>3, <1>6, <2>1, <2>2
<1>12. ASSUME MonthOf(range[1]) = MonthOf(range[2]) PROVE Same(Churn(range).overall, expected.churn)
  <2> DEFINE one == 1
             twenty == 20
  <2>1. twenty \in Nat /\ one \in Int /\ SeededCustomers(day, "Referral", twenty, one, 3)
        /\ SeededSubscriptions(day, 90, one, 150, one)
    BY <1>1
  <2> HIDE DEF one, twenty
  <2>2. Churn(range).overall = Ratio(Min({one, one}), one)
    BY <1>12, <2>1, ChurnOfAudit
  <2>3. Min({one, one}) = one
    BY <2>1, MinOfTwo
  <2>4. expected.churn = <<1, 1>>
    BY DEF RichExpected
  <2> QED
    BY <2>2, <2>3, <2>4 DEF one, Ratio, Same
<1> QED
  BY <1>8, <1>9, <1>10, <1>11, <1>12 DEF Agrees

LEMMA StressSpend ==
  ASSUME AnalyticsInv, NEW day \in AuditDays, Rows("spend") = {SpendsOf(day)[k] : k \in 1..5},
         \A r \in Rows("spend") : ledger[r] = 1
  PROVE  CostOf(Rows("spend")) = 100 * 5
<1> DEFINE five == 5
           one == 1
           S == one..five
           h == SpendsOf(day)
           f == [k \in S |-> 100]
<1>1. /\ DOMAIN h = S /\ \A k \in S : h[k] = SpendRow(k, 100, 20, day)
      /\ \A k \in S : h[k].cost = 100 /\ h[k].campaign = k
  BY DEF SpendsOf, SpendRow
<1>2. Rows("spend") = {h[k] : k \in S}
  OBVIOUS
<1>3. five \in Int /\ one \in Int /\ five - one + 1 = 5 /\ one <= five
  OBVIOUS
<1> HIDE DEF h
<1>4. \A k \in S : h[k] \in Rows("spend") /\ ledger[h[k]] = 1
  BY <1>2
<1>5. \A k \in S : Costs[h[k]] = 100
  BY <1>1, <1>4 DEF Costs
<1> HIDE DEF five, one
<1>6. IsFiniteSet(S) /\ Cardinality(S) = 5
  BY <1>3, FS_Interval
<1> HIDE DEF S
<1>7. \A k \in S : f[k] = 100 /\ f[k] \in Int
  OBVIOUS
<1>8. \A k, l \in S : h[k] = h[l] => k = l
  BY <1>1
<1>9. \A k \in S : Costs[h[k]] = f[k]
  BY <1>5, <1>7
<1> HIDE DEF f
<1>10. Total(Costs, {h[k] : k \in S}) = Total(f, S)
  BY <1>1, <1>6, <1>7, <1>8, <1>9, TotalRenamed
<1>11. Total(f, S) = 100 * Cardinality(S)
  <2>1. 100 \in Int
    OBVIOUS
  <2> QED
    BY <1>6, <1>7, <2>1, TotalOfSame
<1>12. CostOf(Rows("spend")) = Total(Costs, Rows("spend"))
  BY CostOfRows
<1> QED
  BY <1>2, <1>6, <1>10, <1>11, <1>12

LEMMA StressRevenue ==
  ASSUME AnalyticsInv, NEW day \in AuditDays, Rows("revenue") = {RevenuesOf(day)[i] : i \in 0..79},
         \A r \in Rows("revenue") : ledger[r] = 1
  PROVE  /\ AmountOf(Rows("revenue")) = SumOver([i \in 0..79 |-> 10 + (i % 5) * 2])
         /\ {r.customer : r \in Rows("revenue")} = 0..79
         /\ \A r \in Rows("revenue") : r.at = 2 * day + 1
<1> DEFINE S == 0..79
           h == RevenuesOf(day)
           f == [i \in S |-> 10 + (i % 5) * 2]
<1>1. /\ DOMAIN h = S /\ \A i \in S : h[i].customer = i /\ h[i].amount = f[i] /\ h[i].at = 2 * day + 1
  <2>1. DOMAIN h = S /\ \A i \in S : h[i] = RevenueRow(i, 10 + (i % 5) * 2, KindOf(i), day)
    BY DEF RevenuesOf
  <2> HIDE DEF h, S
  <2> QED
    BY <2>1 DEF RevenueRow
<1>2. Rows("revenue") = {h[i] : i \in S}
  OBVIOUS
<1>3. IsFiniteSet(S)
  <2>1. 5 \in {2, 5}
    OBVIOUS
  <2> QED
    BY <2>1, RangesAreFinite
<1>4. \A i \in S : f[i] \in Int
  OBVIOUS
<1> HIDE DEF h
<1>5. \A i \in S : h[i] \in Rows("revenue") /\ ledger[h[i]] = 1
  BY <1>2
<1>6. \A i \in S : Amounts[h[i]] = f[i]
  <2>1. \A i \in S : Amounts[h[i]] = 1 * h[i].amount
    BY <1>5 DEF Amounts
  <2> HIDE DEF f, S
  <2> QED
    BY <1>1, <1>4, <2>1
<1>7. DOMAIN f = S
  OBVIOUS
<1> HIDE DEF S, f
<1>8. \A i, j \in S : h[i] = h[j] => i = j
  BY <1>1
<1>9. Total(Amounts, {h[i] : i \in S}) = Total(f, S)
  BY <1>1, <1>3, <1>4, <1>6, <1>8, TotalRenamed
<1>10. AmountOf(Rows("revenue")) = Total(Amounts, Rows("revenue"))
  BY AmountOfRows
<1>11. SumOver(f) = Total(f, S)
  BY <1>7, SumOverIsTotal
<1>12. \A r \in Rows("revenue") : r.at = 2 * day + 1 /\ r.customer \in S
  BY <1>1, <1>2
<1>13. \A i \in S : \E r \in Rows("revenue") : r.customer = i
  BY <1>1, <1>5
<1>14. {r.customer : r \in Rows("revenue")} = S
  BY <1>12, <1>13
<1> QED
  BY <1>2, <1>9, <1>10, <1>11, <1>12, <1>14 DEF S, f

LEMMA StressPasses ==
  ASSUME AnalyticsInv, NEW day \in AuditDays, NEW range \in PeriodRangeOn(day), ledger = StressFixtures(day)
  PROVE  Agrees(range, StressExpected(day))
<1> DEFINE spends == Rows("spend")
           revenues == Rows("revenue")
           sum == SumOver([i \in 0..79 |-> 10 + (i % 5) * 2])
           expected == StressExpected(day)
           forty == 40
           hundred == 100
           eighty == 80
           twenty == 20
           ten == 10
           u == 120
           w == 90
           z == 2 * day + 1 - 2 * (MonthOf(day) - u)
<1>1. /\ SeededCustomers(day, "Legacy", ten, forty, hundred)
      /\ SeededSubscriptions(day, u, eighty, u, twenty)
      /\ spends = {SpendsOf(day)[k] : k \in 1..5}
      /\ revenues = {RevenuesOf(day)[i] : i \in 0..79}
      /\ \A r \in spends \cup revenues : ledger[r] = 1
  BY StressTables
<1>2. CostOf(spends) = hundred * 5
  BY <1>1, StressSpend
<1>3. /\ AmountOf(revenues) = sum /\ {r.customer : r \in revenues} = 0..79
      /\ \A r \in revenues : r.at = 2 * day + 1
  BY <1>1, StressRevenue
<1>4. \A r \in spends : r.at = 2 * day
  <2>1. \A k \in 1..5 : SpendsOf(day)[k].at = 2 * day
    BY DEF SpendsOf, SpendRow
  <2> QED
    BY <1>1, <2>1
<1>5. expected.cac = <<5 * hundred, hundred>> /\ expected.revenue = sum
  BY DEF StressExpected
<1>6. expected.churn = IF forty = 0 THEN <<0, 1>> ELSE <<Min({forty, twenty}), forty>>
  BY DEF StressExpected
<1>7. expected.ltv.perCustomer = <<sum, eighty>>
  BY DEF StressExpected
<1>8. expected.ltv.months = <<eighty * 2 * w + twenty * z, 60 * hundred>>
  <2>1. expected.ltv.months = <<eighty * 2 * 90 + twenty * ((2 * day + 1) - 2 * (MonthOf(day) - u)), 60 * hundred>>
    BY DEF StressExpected
  <2>2. w = 90 /\ z = (2 * day + 1) - 2 * (MonthOf(day) - u)
    BY MonthOfAudit
  <2> HIDE DEF w, z, expected, eighty, twenty, hundred, u
  <2> QED
    BY <2>1, <2>2
<1>9. /\ forty \in Nat /\ hundred \in Nat /\ eighty \in Nat /\ twenty \in Nat /\ ten \in Nat /\ u \in Nat
      /\ forty # 0 /\ hundred # 0 /\ eighty # 0 /\ u >= 30 /\ u = 90 + 30 /\ hundred = eighty + twenty
      /\ twenty < forty
  OBVIOUS
<1>10. sum \in Nat
  BY <1>3, AmountOfRows
<1> HIDE DEF spends, revenues, sum, expected, forty, hundred, twenty, ten, u
<1>11. During(spends, range) = spends /\ During(revenues, range) = revenues
  BY <1>3, <1>4, DayIsDuring
<1>12. Cardinality(BuyersIn(range)) = eighty
  <2> DEFINE none == 0
             last == 79
  <2>1. NoCustomer \notin Nat
    BY AnalyticsAssumption
  <2>2. \A i \in 0..79 : i # NoCustomer
    BY <2>1
  <2>3. BuyersIn(range) = none..last
    BY <1>3, <1>11, <2>2 DEF BuyersIn, revenues
  <2>4. none \in Int /\ last \in Int /\ last - none + 1 = eighty /\ none <= last
    OBVIOUS
  <2> HIDE DEF none, last, eighty
  <2> QED
    BY <2>3, <2>4, FS_Interval
<1> HIDE DEF eighty
<1>13. Same(CAC(range, {}, {}).cac, expected.cac)
  <2>1. CountOf(NewIn(range, {})) = hundred
    BY <1>1, <1>9, NewOfAudit
  <2>2. CAC(range, {}, {}).cac = Ratio(hundred * 5, hundred)
    BY <1>2, <1>11, <2>1, CostPerCustomer DEF spends
  <2> QED
    BY <1>5, <1>9, <2>2 DEF Ratio, Same
<1>14. Same(LTV(range).perCustomer, expected.ltv.perCustomer)
  <2>1. LTV(range).perCustomer = Ratio(sum, eighty)
    BY <1>3, <1>11, <1>12, LTVIs DEF revenues
  <2> QED
    BY <1>7, <1>9, <1>10, <2>1, RatioIs
<1>15. Same(LTV(range).months, expected.ltv.months)
  <2>1. LTV(range).months = Ratio(eighty * (2 * (u - 30)) + twenty * z, 60 * (eighty + twenty))
    <3>1. LTV(range).months =
              Ratio(eighty * (2 * (u - 30)) + twenty * (2 * day + 1 - 2 * (MonthOf(day) - u)),
                    60 * (eighty + twenty))
      <4>1. /\ u \in Nat /\ u >= 30 /\ eighty \in Nat /\ twenty \in Nat
            /\ SeededSubscriptions(day, u, eighty, u, twenty)
        BY <1>1, <1>9
      <4> HIDE DEF z, w
      <4> QED
        BY <4>1, LifetimesOfAudit
    <3>2. z = 2 * day + 1 - 2 * (MonthOf(day) - u)
      OBVIOUS
    <3> HIDE DEF z
    <3> QED
      BY <3>1, <3>2
  <2>2. z \in Int /\ w \in Nat /\ u = w + 30
    BY <1>9, MonthOfAudit
  <2> HIDE DEF z, w
  <2>4. Same(Ratio(eighty * (2 * (u - 30)) + twenty * z, 60 * (eighty + twenty)),
             <<eighty * 2 * w + twenty * z, 60 * hundred>>)
    BY <1>9, <2>2, LifetimesAgree
  <2> QED
    BY <1>8, <2>1, <2>4
<1>16. Revenue(range).total = expected.revenue
  BY <1>3, <1>5, <1>11, RevenueIs DEF revenues
<1>17. ASSUME MonthOf(range[1]) = MonthOf(range[2]) PROVE Same(Churn(range).overall, expected.churn)
  <2>1. Churn(range).overall = Ratio(Min({forty, twenty}), forty)
    BY <1>1, <1>9, <1>17, ChurnOfAudit
  <2>2. Min({forty, twenty}) \in Int
    BY <1>9, MinOfTwo
  <2>3. expected.churn = <<Min({forty, twenty}), forty>>
    BY <1>6, <1>9
  <2> DEFINE m == Min({forty, twenty})
  <2> HIDE DEF m
  <2> QED
    BY <1>9, <2>1, <2>2, <2>3, RatioIs DEF m
<1> QED
  BY <1>13, <1>14, <1>15, <1>16, <1>17 DEF Agrees, expected

LEMMA AuditsPass == AnalyticsInv => AuditPasses
<1> SUFFICES ASSUME AnalyticsInv, audit # NoAudit, NEW range \in PeriodRangeOn(audit.day)
             PROVE  Agrees(range, IF audit.mode = "rich" THEN RichExpected(audit.day)
                                  ELSE StressExpected(audit.day))
  BY DEF AuditPasses, Agrees
<1>1. audit.day \in AuditDays /\ audit.mode \in {"rich", "stress"} /\ ledger = Seeded(audit.mode, audit.day)
  BY DEF AnalyticsInv, AnalyticsTypeOK
<1>2. CASE audit.mode = "rich"
  BY <1>1, <1>2, RichPasses DEF Seeded
<1>3. CASE audit.mode # "rich"
  BY <1>1, <1>3, StressPasses DEF Seeded
<1> QED
  BY <1>2, <1>3

(* The metrics add up whatever was recorded.                               *)
LEMMA MetricsHold == AnalyticsInv => MetricsAddUp
  BY ChurnAddsUp, SegmentsAgree, GrowthIsSound, ForecastContinues, AnalyticsInvActivates,
     VelocityIsBounded, FiguresAreFounded, AuditsPass DEF MetricsAddUp
===============================================================================

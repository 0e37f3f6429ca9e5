-------------------------------- MODULE Agents --------------------------------
(***************************************************************************)
(* AgentsService.run, POST /agents/run.  A run makes up to maxRetries      *)
(* attempts; each asks for the executive summary, which persists a         *)
(* recommendation of its own, then persists the agent's recommendation and *)
(* marks the run.  An attempt that throws anywhere is followed by the next *)
(* one, until none is left.                                                *)
(*                                                                         *)
(* The operators named Bug... are faulty variants of definitions after     *)
(* them; no specification uses them.                                       *)
(***************************************************************************)
EXTENDS Recommendations

CONSTANTS
    Runners,        \* requests that run an agent, at the same time
    MaxRetries,     \* what they may ask for; NaN stands for a query that is no number
    NaN,
    SummaryTraces,  \* the traces of executive summaries
    AgentTraces     \* the traces of agents' recommendations

ASSUME AgentsAssumption ==
    /\ Runners \subseteq Persisters
    /\ MaxRetries \subseteq Int \cup {NaN} /\ NaN \notin Int
    /\ SummaryTraces \cup AgentTraces \subseteq Traces

VARIABLES
    runs,       \* where each run is
    runlog      \* the row of agent_execution_log of the newest run

agentVars == <<recVars, runs, runlog>>

RunPc == {"idle", "summary", "summarizing", "advising", "succeed", "fail"}
Run == [pc : RunPc, attempt : Nat, max : Nat, trace : Traces \cup {NoTrace}]
IdleRun == [pc |-> "idle", attempt |-> 0, max |-> 0, trace |-> NoTrace]

AgentsTypeOK ==
    /\ RecsTypeOK
    /\ runs \in [Runners -> Run]
    /\ runlog \in [Runners -> ExecutionStatus]

AgentsInit ==
    /\ RecsInit
    /\ runs = [r \in Runners |-> IdleRun]
    /\ runlog = [r \in Runners |-> "none"]

-----------------------------------------------------------------------------

(* Math.min(Math.max(n, 1), 5); no attempt is made for NaN. *)
Attempts(n) == IF n = NaN THEN 0 ELSE IF n < 1 THEN 1 ELSE IF n > 5 THEN 5 ELSE n

RunGoes(r, pc) == runs' = [runs EXCEPT ![r].pc = pc]

BugOneAttemptLess(r, run) ==
    runs' = [runs EXCEPT ![r] = IF run.attempt + 1 < run.max
                                THEN [run EXCEPT !.pc = "summary", !.attempt = @ + 1]
                                ELSE [run EXCEPT !.pc = "fail"]]
BugAttemptNotCounted(r, run) ==
    runs' = [runs EXCEPT ![r].pc = IF run.attempt < run.max THEN "summary" ELSE "fail",
                         ![r].max = run.max]

NextAttempt(r, run) ==
    runs' = [runs EXCEPT ![r] = IF run.attempt < run.max
                                THEN [run EXCEPT !.pc = "summary", !.attempt = @ + 1]
                                ELSE [run EXCEPT !.pc = "fail"]]

AskRun(r) ==
    /\ runs[r].pc = "idle"
    /\ HasFeature(OrgTier, "ai.full", 0)
    /\ \E n \in MaxRetries : NextAttempt(r, [IdleRun EXCEPT !.max = Attempts(n)])
    /\ runlog' = [runlog EXCEPT ![r] = "RUNNING"]
    /\ UNCHANGED recVars

(* getExecutiveSummary, which ends with its own recommendation. *)
Summarize(r) ==
    /\ runs[r].pc = "summary"
    /\ \E trace \in SummaryTraces : PersistStarts(r, trace)
    /\ RunGoes(r, "summarizing")
    /\ UNCHANGED <<recs, logs, decider, runlog>>
(* buildRecommendation; what it says depends on the summary. *)
Advise(r) ==
    /\ runs[r].pc = "summarizing" /\ persist[r].pc = "persisted"
    /\ \E trace \in AgentTraces :
           /\ PersistStarts(r, trace)
           /\ runs' = [runs EXCEPT ![r].pc = "advising", ![r].trace = trace]
    /\ UNCHANGED <<recs, logs, decider, runlog>>
Advised(r) ==
    /\ runs[r].pc = "advising" /\ persist[r].pc = "persisted"
    /\ PersistEnds(r)
    /\ RunGoes(r, "succeed")
    /\ UNCHANGED <<recs, logs, decider, runlog>>
Succeed(r) ==
    /\ runs[r].pc = "succeed"
    /\ runlog' = [runlog EXCEPT ![r] = "SUCCESS"]
    /\ RunGoes(r, "idle")
    /\ UNCHANGED recVars

(* An attempt ends with an exception, wherever it was thrown. *)
AttemptThrows(r) ==
    /\ \/ runs[r].pc \in {"summary", "succeed"} /\ UNCHANGED persist
       \/ persist[r].pc = "threw" /\ PersistEnds(r)
    /\ NextAttempt(r, runs[r])
    /\ UNCHANGED <<recs, logs, decider, runlog>>
(* The attempts are used up; the row stays RUNNING if this call throws. *)
Fail(r) ==
    /\ runs[r].pc = "fail"
    /\ \/ runlog' = [runlog EXCEPT ![r] = "FAILED"]
       \/ UNCHANGED runlog
    /\ RunGoes(r, "idle")
    /\ UNCHANGED recVars

RunStep(r) ==
    \/ Summarize(r) \/ Advise(r) \/ Advised(r) \/ Succeed(r)
    \/ AttemptThrows(r) \/ Fail(r)
    \/ PersistStep(r) /\ UNCHANGED <<runs, runlog>>

AgentsNext ==
    \/ \E r \in Runners : AskRun(r) \/ RunStep(r)
    \/ \E d \in Deciders : DecideStep(d) /\ UNCHANGED <<runs, runlog>>

AgentsFairness == \A r \in Runners : WF_agentVars(RunStep(r))
AgentsSpec == AgentsInit /\ [][AgentsNext]_agentVars /\ AgentsFairness

-----------------------------------------------------------------------------
(* Properties *)

(* The log of a run is right about it: SUCCESS means that the agent's      *)
(* recommendation is there, whichever attempt wrote it, and FAILED that    *)
(* every attempt was made (agents.service.ts:52-130).                      *)
RunLogIsTrue ==
    \A r \in Runners : runs[r].pc = "idle" =>
        /\ runlog[r] = "SUCCESS" => Recommended(runs[r].trace)
        /\ runlog[r] = "FAILED" => runs[r].attempt >= runs[r].max

(* Every run ends, even if every call of it throws (agents.service.ts:52). *)
RunsEnd == \A r \in Runners : runs[r].pc # "idle" ~> runs[r].pc = "idle"
===============================================================================

---------------------------- MODULE Recommendations ----------------------------
(***************************************************************************)
(* RecommendationsService.  persistAuditableRecommendation is called by    *)
(* the executive summary, by agent runs and by experiments that complete:  *)
(* it looks for a recommendation with the same trace, and otherwise writes *)
(* an execution log, an insight and the recommendation, one call after the *)
(* other and outside of any transaction.  Any call may throw.              *)
(*                                                                         *)
(* "persist" is what each caller is doing in it; the modules that extend   *)
(* this one start it with PersistStarts and go on when it is "persisted"   *)
(* or "threw".  A decider is a PATCH of a recommendation's status.         *)
(*                                                                         *)
(* The operators named Bug... are faulty variants of definitions after     *)
(* them; no specification uses them.                                       *)
(***************************************************************************)
EXTENDS BillingAccess, Integers, Sequences, FiniteSets

CONSTANTS
    Persisters,     \* callers of persistAuditableRecommendation
    Deciders,       \* requests that decide about a recommendation
    Verdicts,       \* what they decide
    Traces, NoTrace,
    MaxDecisions    \* bound: decisions about a recommendation

RecommendationStatus == {"PENDING", "ACCEPTED", "REJECTED", "APPLIED"}

ASSUME RecommendationsAssumption ==
    /\ IsFiniteSet(Persisters) /\ NoTrace \notin Traces /\ MaxDecisions \in Nat
    /\ Verdicts \subseteq RecommendationStatus

VARIABLES
    recs,       \* the rows of recommendations
    logs,       \* the newest row of agent_execution_log that each caller wrote here
    persist,    \* where each caller of persistAuditableRecommendation is
    decider     \* the decision that each decider is writing

recVars == <<recs, logs, persist, decider>>

ExecutionStatus == {"none", "RUNNING", "SUCCESS", "FAILED"}
Recommendation == [trace : Traces, status : RecommendationStatus,
                   history : Seq(RecommendationStatus), by : Persisters]
PersistPc == {"idle", "find", "log", "insight", "recommend", "succeed", "fail",
              "persisted", "threw"}
NoDecision == [rec |-> 0, history |-> <<>>]

RecsTypeOK ==
    /\ recs \in Seq(Recommendation)
    /\ logs \in [Persisters -> ExecutionStatus]
    /\ persist \in [Persisters -> [pc : PersistPc, trace : Traces \cup {NoTrace}]]
    /\ decider \in [Deciders -> [rec : Nat, history : Seq(RecommendationStatus)]]

RecsInit ==
    /\ recs = <<>>
    /\ logs = [p \in Persisters |-> "none"]
    /\ persist = [p \in Persisters |-> [pc |-> "idle", trace |-> NoTrace]]
    /\ decider = [d \in Deciders |-> NoDecision]

-----------------------------------------------------------------------------
(* persistAuditableRecommendation, one action for each of its calls.  "by" *)
(* is a ghost: the caller that wrote the row.                              *)

PersistStarts(p, trace) == persist' = [persist EXCEPT ![p] = [pc |-> "find", trace |-> trace]]
PersistEnds(p) == persist' = [persist EXCEPT ![p] = [pc |-> "idle", trace |-> NoTrace]]
PersistGoes(p, from, to) ==
    /\ persist[p].pc = from
    /\ persist' = [persist EXCEPT ![p].pc = to]

Recommended(trace) == \E i \in DOMAIN recs : recs[i].trace = trace

BugNoLook(p) ==
    /\ PersistGoes(p, "find", "log")
    /\ UNCHANGED <<recs, logs, decider>>

FindExisting(p) ==
    /\ PersistGoes(p, "find", IF Recommended(persist[p].trace) THEN "persisted" ELSE "log")
    /\ UNCHANGED <<recs, logs, decider>>
LogExecution(p) ==
    /\ PersistGoes(p, "log", "insight")
    /\ logs' = [logs EXCEPT ![p] = "RUNNING"]
    /\ UNCHANGED <<recs, decider>>
CreateInsight(p) ==
    /\ PersistGoes(p, "insight", "recommend")
    /\ UNCHANGED <<recs, logs, decider>>
CreateRecommendation(p) ==
    /\ PersistGoes(p, "recommend", "succeed")
    /\ recs' = Append(recs, [trace |-> persist[p].trace, status |-> "PENDING",
                             history |-> <<>>, by |-> p])
    /\ UNCHANGED <<logs, decider>>
LogSuccess(p) ==
    /\ PersistGoes(p, "succeed", "persisted")
    /\ logs' = [logs EXCEPT ![p] = "SUCCESS"]
    /\ UNCHANGED <<recs, decider>>

(* Outside of the try nothing is cleaned up; inside of it the log is       *)
(* marked FAILED, if that call does not throw as well.                     *)
PersistThrows(p) ==
    /\ \/ \E pc \in {"find", "log", "fail"} : PersistGoes(p, pc, "threw")
       \/ \E pc \in {"insight", "recommend", "succeed"} : PersistGoes(p, pc, "fail")
    /\ UNCHANGED <<recs, logs, decider>>

BugErrorSwallowed(p) ==
    /\ PersistGoes(p, "fail", "persisted")
    /\ logs' = [logs EXCEPT ![p] = "FAILED"]
    /\ UNCHANGED <<recs, decider>>

LogFailure(p) ==
    /\ PersistGoes(p, "fail", "threw")
    /\ logs' = [logs EXCEPT ![p] = "FAILED"]
    /\ UNCHANGED <<recs, decider>>

PersistStep(p) ==
    \/ FindExisting(p) \/ LogExecution(p) \/ CreateInsight(p) \/ CreateRecommendation(p)
    \/ LogSuccess(p) \/ PersistThrows(p) \/ LogFailure(p)

-----------------------------------------------------------------------------
(* transitionRecommendationStatus: the history is read, extended and       *)
(* written back with the status; every status may follow every other.      *)

DecisionsOf(i) == Len(recs[i].history)

ReadDecisions(d) ==
    /\ HasFeature(OrgTier, "analytics.full", 0)
    /\ decider[d] = NoDecision
    /\ \E i \in DOMAIN recs :
           /\ DecisionsOf(i) < MaxDecisions
           /\ decider' = [decider EXCEPT ![d] = [rec |-> i, history |-> recs[i].history]]
    /\ UNCHANGED <<recs, logs, persist>>

BugHistoryReplaced(d) ==
    /\ decider[d] # NoDecision
    /\ \E status \in Verdicts :
           recs' = [recs EXCEPT ![decider[d].rec] =
                       [@ EXCEPT !.status = status, !.history = <<status>>]]
    /\ decider' = [decider EXCEPT ![d] = NoDecision]
    /\ UNCHANGED <<logs, persist>>

WriteDecision(d) ==
    /\ decider[d] # NoDecision
    /\ \E status \in Verdicts :
           recs' = [recs EXCEPT ![decider[d].rec] =
                       [@ EXCEPT !.status = status, !.history = Append(decider[d].history, status)]]
    /\ decider' = [decider EXCEPT ![d] = NoDecision]
    /\ UNCHANGED <<logs, persist>>
DecisionThrows(d) ==
    /\ decider[d] # NoDecision
    /\ decider' = [decider EXCEPT ![d] = NoDecision]
    /\ UNCHANGED <<recs, logs, persist>>

DecideStep(d) == ReadDecisions(d) \/ WriteDecision(d) \/ DecisionThrows(d)

-----------------------------------------------------------------------------
(* Properties *)

(* However often a caller retries, and whatever call of the last attempt   *)
(* threw, it writes a trace once: two recommendations of one trace come    *)
(* from callers that overlapped (recommendations.service.ts:161-173).      *)
OnceForEachCaller ==
    \A i, j \in DOMAIN recs :
        i # j /\ recs[i].trace = recs[j].trace => recs[i].by # recs[j].by

(* A caller is told "persisted" only when the recommendation is there,     *)
(* and so is it when its log says SUCCESS: never an answer without a row   *)
(* (recommendations.service.ts:171-173, 222-242).                          *)
PersistedIsThere ==
    \A p \in Persisters :
        /\ persist[p].pc = "persisted" => Recommended(persist[p].trace)
        /\ logs[p] = "SUCCESS" => \E i \in DOMAIN recs : recs[i].by = p

(* A decision disappears from the history of a recommendation only when    *)
(* another one was written after it was read                               *)
(* (recommendations.service.ts:70-115).                                    *)
NoDecisionLostUnlessStale ==
    [][\A d \in Deciders : decider[d].rec # 0 /\ decider'[d].rec = 0 =>
          LET i == decider[d].rec
          IN  \/ recs'[i].history = recs[i].history
              \/ decider[d].history # recs[i].history
              \/ SubSeq(recs'[i].history, 1, DecisionsOf(i)) = recs[i].history]_recVars
===============================================================================

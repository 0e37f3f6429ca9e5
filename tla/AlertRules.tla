------------------------------ MODULE AlertRules ------------------------------
(***************************************************************************)
(* AlertRulesService, AlertEvaluationScheduler and the deliveries of       *)
(* NotificationsService.  An evaluation (the cron job every 15 minutes, or *)
(* POST /alerts/evaluate) evaluates all active rules at once; evaluations  *)
(* may overlap, and one rule that throws does not stop the others.         *)
(*                                                                         *)
(* Of the alert events only the newest SENT one of a rule is ever read by  *)
(* the service; the model keeps that one, and counts time since it in      *)
(* quarters of an hour.                                                    *)
(*                                                                         *)
(* The operators named Bug... are faulty variants of definitions after     *)
(* them; no specification uses them.                                       *)
(***************************************************************************)
EXTENDS BillingAccess, Integers, FiniteSets

CONSTANTS
    Evaluations,    \* evaluations in progress at the same time
    Rules,          \* alert rules that may be created
    RuleTerms,      \* [metric, operator, threshold, channels] of each of them
    Readings,       \* the values a metric may take
    NoEvent         \* there is no SENT event yet

AlertMetric == {"CAC", "LTV", "CHURN", "REVENUE"}
AlertOperator == {"GT", "LT", "CHANGE_PCT"}
Channel == {"email", "sms", "sms:number", "other"}
Window == 2

ASSUME AlertsAssumption ==
    /\ RuleTerms \in [Rules -> [metric : AlertMetric, operator : AlertOperator,
                                threshold : Int, channels : SUBSET Channel]]
    /\ Readings \subseteq Int
    /\ IsFiniteSet(Evaluations)
    /\ NoEvent \notin [value : Readings, age : 0..Window + 1, dup : BOOLEAN]

VARIABLES
    rules,      \* the rows of alert_rules
    sent,       \* the newest SENT event of a rule
    reading,    \* what the analytics say of each metric
    services,   \* the parts of the delivery that work
    eval,       \* the evaluation of each rule in each evaluation
    told,       \* ghost: the values of a rule that were delivered
    burst       \* ghost: deliveries of sent[r].value in the current window

alertVars == <<rules, sent, reading, services, eval, told, burst>>

UsedMetrics == {RuleTerms[r].metric : r \in Rules}

SentEvent == [value : Readings, age : 0..Window + 1, dup : BOOLEAN]

(* dispatchChannel: what a channel needs to be delivered, access to its    *)
(* provider, an owner, the owner's number; without them it is "skipped" or *)
(* "failed".                                                               *)
Needs(channel) ==
    CASE channel = "email" -> {"owner", "SENDGRID"}
      [] channel = "sms" -> {"owner", "phone", "TERMII"}
      [] channel = "sms:number" -> {"TERMII"}
      [] channel = "other" -> {"unknown channel"}

(* What the rules depend on; "calls" are the tables and the analytics. *)
Service == {"calls"} \cup UNION {Needs(c) : c \in UNION {RuleTerms[r].channels : r \in Rules}}

EvalPc == {"idle", "metric", "recent", "suppress", "dispatch", "record", "touch"}
Eval == [pc : EvalPc, value : Readings \cup {0}, ok : BOOLEAN]
IdleEval == [pc |-> "idle", value |-> 0, ok |-> FALSE]

AlertsTypeOK ==
    /\ rules \subseteq Rules
    /\ sent \in [Rules -> SentEvent \cup {NoEvent}]
    /\ reading \in [UsedMetrics -> Readings]
    /\ services \subseteq Service
    /\ eval \in [Evaluations -> [Rules -> Eval]]
    /\ told \in [Rules -> SUBSET Readings]
    /\ burst \in [Rules -> Nat]

AlertsInit ==
    /\ rules = {}
    /\ sent = [r \in Rules |-> NoEvent]
    /\ reading \in [UsedMetrics -> Readings]
    /\ services = Service \ {"unknown channel"}
    /\ eval = [e \in Evaluations |-> [r \in Rules |-> IdleEval]]
    /\ told = [r \in Rules |-> {}]
    /\ burst = [r \in Rules |-> 0]

-----------------------------------------------------------------------------

EvalGoes(e, r, pc) == eval' = [eval EXCEPT ![e][r].pc = pc]
EvalEnds(e, r) == eval' = [eval EXCEPT ![e][r] = IdleEval]
EvalOnly == UNCHANGED <<rules, sent, reading, services, told, burst>>

(* assertAccessForRule *)
RequiredFeature(r) ==
    IF RuleTerms[r].metric \in {"CAC", "LTV"} \/ RuleTerms[r].operator = "CHANGE_PCT"
    THEN "analytics.full" ELSE "analytics.basic"

CreateRule(r) ==
    /\ r \notin rules /\ \A e \in Evaluations : eval[e][r].pc = "idle"
    /\ HasFeature(OrgTier, RequiredFeature(r), 0)
    /\ rules' = rules \cup {r}
    /\ told' = [told EXCEPT ![r] = {}]
    /\ burst' = [burst EXCEPT ![r] = 0]
    /\ UNCHANGED <<sent, reading, services, eval>>

(* deleteRule; the events of the rule are deleted with it. *)
DeleteRule(r) ==
    /\ r \in rules
    /\ HasFeature(OrgTier, "analytics.basic", 0)
    /\ rules' = rules \ {r}
    /\ sent' = [sent EXCEPT ![r] = NoEvent]
    /\ UNCHANGED <<reading, services, eval, told, burst>>

(* evaluateAll reads the active rules and starts on all of them. *)
StartEvaluation(e) ==
    /\ rules # {}
    /\ \A r \in Rules : eval[e][r].pc = "idle"
    /\ eval' = [eval EXCEPT ![e] =
                   [r \in Rules |-> IF r \in rules THEN [IdleEval EXCEPT !.pc = "metric"]
                                    ELSE IdleEval]]
    /\ EvalOnly

Unsigned(n) == IF n < 0 THEN -n ELSE n

(* compareMetric; a CHANGE_PCT is of the value itself, not of a change. *)
CompareMetric(value, terms) ==
    CASE terms.operator = "GT" -> value > terms.threshold
      [] terms.operator = "LT" -> value < terms.threshold
      [] terms.operator = "CHANGE_PCT" -> Unsigned(value) >= Unsigned(terms.threshold)

(* fetchMetricValue, and on to the newest event if the rule is triggered.  *)
FetchMetric(e, r) ==
    LET value == reading[RuleTerms[r].metric]
    IN  /\ eval[e][r].pc = "metric"
        /\ eval' = [eval EXCEPT ![e][r] =
               IF CompareMetric(value, RuleTerms[r])
               THEN [@ EXCEPT !.pc = "recent", !.value = value]
               ELSE [@ EXCEPT !.pc = "touch"]]
        /\ EvalOnly

(* The newest SENT event of the last 30 minutes, if it has this value,     *)
(* makes the alert a duplicate.                                            *)
IsDuplicate(event, value) ==
    event # NoEvent /\ event.age <= Window /\ event.value = value

BugNotLookedFor(e, r) ==
    /\ eval[e][r].pc = "recent"
    /\ EvalGoes(e, r, "dispatch")
    /\ EvalOnly

FindRecent(e, r) ==
    /\ eval[e][r].pc = "recent"
    /\ EvalGoes(e, r, IF IsDuplicate(sent[r], eval[e][r].value) THEN "suppress" ELSE "dispatch")
    /\ EvalOnly

(* A duplicate is stored as a SENT event of its own, although by now an    *)
(* event of another value may be the newest one.                           *)
Suppress(e, r) ==
    /\ eval[e][r].pc = "suppress"
    /\ r \in rules
    /\ sent' = [sent EXCEPT ![r] = [value |-> eval[e][r].value, age |-> 0, dup |-> TRUE]]
    /\ burst' = [burst EXCEPT ![r] = IF IsDuplicate(sent[r], eval[e][r].value) THEN @ ELSE 0]
    /\ EvalGoes(e, r, "touch")
    /\ UNCHANGED <<rules, reading, services, told>>

Delivered(r) == \E c \in RuleTerms[r].channels : Needs(c) \subseteq services

Dispatch(e, r) ==
    /\ eval[e][r].pc = "dispatch"
    /\ eval' = [eval EXCEPT ![e][r].pc = "record", ![e][r].ok = Delivered(r)]
    /\ told' = IF Delivered(r) THEN [told EXCEPT ![r] = @ \cup {eval[e][r].value}] ELSE told
    /\ UNCHANGED <<rules, sent, reading, services, burst>>

BugAlwaysSent(e, r) ==
    /\ eval[e][r].pc = "record" /\ r \in rules
    /\ sent' = [sent EXCEPT ![r] = [value |-> eval[e][r].value, age |-> 0, dup |-> FALSE]]
    /\ EvalGoes(e, r, "touch")
    /\ UNCHANGED <<rules, reading, services, told, burst>>
BugNotStored(e, r) ==
    /\ eval[e][r].pc = "record"
    /\ EvalGoes(e, r, "touch")
    /\ EvalOnly

(* The event of a delivery is SENT if some channel was; a FAILED one is    *)
(* not looked at again.                                                    *)
RecordEvent(e, r) ==
    LET x == eval[e][r]
    IN  /\ x.pc = "record"
        /\ r \in rules
        /\ IF x.ok
           THEN /\ sent' = [sent EXCEPT ![r] = [value |-> x.value, age |-> 0, dup |-> FALSE]]
                /\ burst' = [burst EXCEPT ![r] = IF IsDuplicate(sent[r], x.value) THEN @ + 1 ELSE 1]
           ELSE UNCHANGED <<sent, burst>>
        /\ EvalGoes(e, r, "touch")
        /\ UNCHANGED <<rules, reading, services, told>>

(* lastCheckedAt of the rule, which nothing reads back. *)
Touch(e, r) ==
    /\ eval[e][r].pc = "touch"
    /\ EvalEnds(e, r)
    /\ EvalOnly

(* A call throws: the analytics, the table, or a row whose rule is deleted *)
(* by now.  The other rules of the evaluation go on.                       *)
RuleIsGone(r, pc) == r \notin rules /\ pc \in {"suppress", "record", "touch"}
EvalThrows(e, r) ==
    /\ eval[e][r].pc # "idle"
    /\ "calls" \notin services \/ RuleIsGone(r, eval[e][r].pc)
    /\ EvalEnds(e, r)
    /\ EvalOnly

(* The metrics move, a provider fails or recovers, time passes. *)
ReadingChanges ==
    /\ \E m \in UsedMetrics, v \in Readings : reading' = [reading EXCEPT ![m] = v]
    /\ UNCHANGED <<rules, sent, services, eval, told, burst>>
ServiceChanges ==
    /\ \E s \in Service \ {"unknown channel"} :
           services' = IF s \in services THEN services \ {s} ELSE services \cup {s}
    /\ UNCHANGED <<rules, sent, reading, eval, told, burst>>
QuarterPasses ==
    /\ sent' = [r \in Rules |-> IF sent[r] = NoEvent \/ sent[r].age > Window THEN sent[r]
                                ELSE [sent[r] EXCEPT !.age = @ + 1]]
    /\ sent' # sent
    /\ burst' = [r \in Rules |-> IF sent'[r] # NoEvent /\ sent'[r].age > Window THEN 0 ELSE burst[r]]
    /\ UNCHANGED <<rules, reading, services, eval, told>>

EvalStep(e, r) ==
    \/ FetchMetric(e, r) \/ FindRecent(e, r) \/ Suppress(e, r)
    \/ Dispatch(e, r) \/ RecordEvent(e, r) \/ Touch(e, r) \/ EvalThrows(e, r)

EvaluationWorks(e) == StartEvaluation(e) \/ \E r \in Rules : EvalStep(e, r)

AlertsEnvironment ==
    \/ \E r \in Rules : CreateRule(r) \/ DeleteRule(r)
    \/ ReadingChanges \/ ServiceChanges \/ QuarterPasses

AlertsNext == (\E e \in Evaluations : EvaluationWorks(e)) \/ AlertsEnvironment

(* The cron job fires again and again and evaluations go on; an evaluation *)
(* starts again once it is through with every rule.                        *)
AlertsFairness == \A e \in Evaluations : WF_alertVars(EvaluationWorks(e))

AlertsSpec == AlertsInit /\ [][AlertsNext]_alertVars
AlertsFairSpec == AlertsSpec /\ AlertsFairness

-----------------------------------------------------------------------------
(* Properties *)

(* An alert is suppressed only in favour of a delivery of the same value:  *)
(* the chain of suppressed events, each of which renews the window, starts *)
(* with one that was delivered, never with a FAILED one                    *)
(* (alert-rules.service.ts:184-207).                                       *)
SuppressedWasDelivered ==
    \A r \in Rules : sent[r] # NoEvent => sent[r].value \in told[r]

(* Overlapping evaluations that found no recent event each deliver: within *)
(* a window an alert of one value is delivered at most once for each of    *)
(* them (alert-rules.service.ts:184-224).                                  *)
OncePerEvaluation ==
    \A r \in Rules : burst[r] <= Cardinality(Evaluations)

(* A rule that stays triggered is delivered in the end, once the providers *)
(* and the calls work: neither a delivery that failed nor another rule     *)
(* that throws stops it (alert-rules.service.ts:156-167, 216-232).         *)
Steady(r) == /\ r \in rules /\ "calls" \in services /\ Delivered(r)
             /\ CompareMetric(reading[RuleTerms[r].metric], RuleTerms[r])
DeliveredInTheEnd ==
    \A r \in Rules : <>[]Steady(r) => <>[](sent[r] # NoEvent)

(* Alerts are told once for a value and evaluation, and none is withheld   *)
(* that was not told before (alert-rules.service.ts:161-246).              *)
AlertsAreTold == SuppressedWasDelivered /\ OncePerEvaluation
===============================================================================

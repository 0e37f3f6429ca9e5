------------------------------ MODULE Governance ------------------------------
(***************************************************************************)
(* The success metrics of GovernanceService: rates of rows that other      *)
(* services write, held against targets.  Each rate is of two counts, and  *)
(* all counts are queries of their own that are issued at once, so that    *)
(* they run in any order and rows are written between them.  The figures   *)
(* of an answer share nothing, so that a request here is for one of them;  *)
(* what is counted alone is judged in the same way and left out.           *)
(* Who may ask and who may set a target is in Members.                     *)
(*                                                                         *)
(* Rates and targets are in hundredths of a percent, time in weeks.        *)
(*                                                                         *)
(* The operators named Bug... are faulty variants of definitions after     *)
(* them; no specification uses them.                                       *)
(***************************************************************************)
EXTENDS Integers, FiniteSets

CONSTANTS
    Overseers,      \* requests for the success metrics
    TargetKeys,     \* the metric keys that a target is set for
    TargetTerms,    \* what a target may be set to: [operator, value] records
    MaxSubjects,    \* bound: rows
    LastReviewWeek, \* bound: weeks
    NoTarget, NotCounted

RateKey == {"activeIntegrationRatePct", "syncFailureRatePct", "recommendationAdoptionRatePct"}
(* Any key may have a target; the snapshot has a number for some of them.  *)
TargetKey == RateKey \cup {"noFigure"}

ASSUME GovernanceAssumption ==
    /\ TargetKeys \subseteq TargetKey
    /\ \A t \in TargetTerms : t.operator \in {"gte", "lte"} /\ t.value \in Nat
    /\ NoTarget \notin TargetTerms /\ NotCounted \notin Nat
    /\ MaxSubjects \in Nat /\ LastReviewWeek \in Nat

VARIABLES
    reviewWeek,
    subjects,   \* integrations, sync logs, recommendations: ids from 1 on
    targets,    \* governance_success_metric_targets, by metric_key
    oversight   \* the request of each overseer

governanceVars == <<reviewWeek, subjects, targets, oversight>>

Subject == [key : RateKey, such : BOOLEAN, on : 0..LastReviewWeek]
Tally == Nat \cup {NotCounted}
Oversight == [pc : {"idle", "count", "judge", "answered"}, key : TargetKey,
              since : 0..LastReviewWeek, such : Tally, all : Tally, figure : Tally,
              target : TargetTerms \cup {NoTarget}, verdict : {"none", "null", "met", "missed"},
              first : {"none", "such", "all"}, overtaken : BOOLEAN]
NoOversight == [pc |-> "idle", key |-> "noFigure", since |-> 0, such |-> NotCounted,
                all |-> NotCounted, figure |-> NotCounted, target |-> NoTarget,
                verdict |-> "none", first |-> "none", overtaken |-> FALSE]

GovernanceTypeOK ==
    /\ reviewWeek \in 0..LastReviewWeek
    /\ DOMAIN subjects = 1..Cardinality(DOMAIN subjects)
    /\ \A i \in DOMAIN subjects : subjects[i] \in Subject
    /\ targets \in [TargetKey -> TargetTerms \cup {NoTarget}]
    /\ oversight \in [Overseers -> Oversight]

GovernanceInit ==
    /\ reviewWeek = 0 /\ subjects = <<>>
    /\ targets = [k \in TargetKey |-> NoTarget]
    /\ oversight = [o \in Overseers |-> NoOversight]

-----------------------------------------------------------------------------
(* What others do: integrations connect and change their status, logs of   *)
(* syncs are written, recommendations are made and decided on.  Nothing    *)
(* deletes a row.  overtaken is a ghost: a row was written since the first *)
(* count of the request.                                                   *)

Overtake(key) ==
    oversight' = [o \in Overseers |->
        [oversight[o] EXCEPT !.overtaken = @ \/ (oversight[o].key = key
                                                 /\ oversight[o].first # "none")]]

AddSubject(key) ==
    /\ Cardinality(DOMAIN subjects) < MaxSubjects
    /\ \E such \in (CASE key = "activeIntegrationRatePct" -> {TRUE}
                      [] key = "recommendationAdoptionRatePct" -> {FALSE}
                      [] OTHER -> BOOLEAN) :
           subjects' = [i \in 1..(Cardinality(DOMAIN subjects) + 1) |->
                           IF i \in DOMAIN subjects THEN subjects[i]
                           ELSE [key |-> key, such |-> such, on |-> reviewWeek]]
    /\ Overtake(key)
    /\ UNCHANGED <<reviewWeek, targets>>

(* A log stays as it was written. *)
ChangeSubject(key) ==
    /\ key # "syncFailureRatePct"
    /\ \E i \in DOMAIN subjects :
           /\ subjects[i].key = key
           /\ subjects' = [subjects EXCEPT ![i].such = ~@]
    /\ Overtake(key)
    /\ UNCHANGED <<reviewWeek, targets>>

NextReviewWeek ==
    /\ reviewWeek < LastReviewWeek
    /\ reviewWeek' = reviewWeek + 1
    /\ UNCHANGED <<subjects, targets, oversight>>

(* upsertSuccessMetricTarget *)
SetTarget(key) ==
    /\ \E t \in TargetTerms : targets' = [targets EXCEPT ![key] = t]
    /\ UNCHANGED <<reviewWeek, subjects, oversight>>

-----------------------------------------------------------------------------
(* getSuccessMetrics *)

OversightGoes(o, request) ==
    /\ oversight' = [oversight EXCEPT ![o] = request]
    /\ UNCHANGED <<reviewWeek, subjects, targets>>

AskSuccessMetrics(o) ==
    /\ oversight[o].pc \in {"idle", "answered"}
    /\ \E k \in TargetKey :
           OversightGoes(o, [NoOversight EXCEPT !.pc = IF k \in RateKey THEN "count" ELSE "judge",
                                                !.key = k, !.since = reviewWeek])

(* Logs count for seven days, integrations and recommendations always.     *)
InWindow(i, since) == subjects[i].key = "syncFailureRatePct" => subjects[i].on >= since

BugFailuresOfAllTime(key, since) ==
    Cardinality({i \in DOMAIN subjects : subjects[i].key = key /\ subjects[i].such})

CountSuch(key, since) ==
    Cardinality({i \in DOMAIN subjects : /\ subjects[i].key = key /\ subjects[i].such
                                         /\ InWindow(i, since)})
CountAll(key, since) ==
    Cardinality({i \in DOMAIN subjects : subjects[i].key = key /\ InWindow(i, since)})

First(o, side) == IF oversight[o].first = "none" THEN side ELSE oversight[o].first
QuerySuch(o) ==
    LET r == oversight[o] IN
    /\ r.pc = "count" /\ r.such = NotCounted
    /\ OversightGoes(o, [r EXCEPT !.such = CountSuch(r.key, r.since), !.first = First(o, "such")])
QueryAll(o) ==
    LET r == oversight[o] IN
    /\ r.pc = "count" /\ r.all = NotCounted
    /\ OversightGoes(o, [r EXCEPT !.all = CountAll(r.key, r.since), !.first = First(o, "all")])

(* Both counts are there: a rate in percent, rounded to two places.        *)
BugRoundedToWhole(such, all) ==
    IF all > 0 THEN 100 * ((200 * such + all) \div (2 * all)) ELSE 0

RatePct(such, all) ==
    IF all > 0 THEN (20000 * such + all) \div (2 * all) ELSE 0
Compute(o) ==
    LET r == oversight[o] IN
    /\ r.pc = "count" /\ r.such # NotCounted /\ r.all # NotCounted
    /\ OversightGoes(o, [r EXCEPT !.pc = "judge", !.figure = RatePct(r.such, r.all)])

(* listSuccessMetricTargets is a call after the counts; what is not a      *)
(* number is neither met nor missed.                                       *)
Verdict(figure, target) ==
    IF figure = NotCounted THEN "null"
    ELSE IF (IF target.operator = "gte" THEN figure >= target.value ELSE figure <= target.value)
         THEN "met" ELSE "missed"
ReadTargets(o) ==
    LET r == oversight[o]
        target == targets[r.key]
    IN  /\ r.pc = "judge"
        /\ OversightGoes(o, [r EXCEPT
               !.pc = "answered", !.target = target,
               !.verdict = IF target = NoTarget THEN "none" ELSE Verdict(r.figure, target)])

(* A query fails, which rejects the request. *)
OversightFails(o) ==
    /\ oversight[o].pc \in {"count", "judge"}
    /\ OversightGoes(o, NoOversight)

GovernanceStep(what) ==
    \/ what \in RateKey /\ (AddSubject(what) \/ ChangeSubject(what))
    \/ what = "weeks" /\ NextReviewWeek
    \/ what = "targets" /\ \E k \in TargetKeys : SetTarget(k)
    \/ what \in Overseers /\ (\/ AskSuccessMetrics(what) \/ QuerySuch(what) \/ QueryAll(what)
                              \/ Compute(what) \/ ReadTargets(what) \/ OversightFails(what))

-----------------------------------------------------------------------------
(* Properties *)

RowsAsked(r) ==
    {i \in DOMAIN subjects : /\ subjects[i].key = r.key
                             /\ r.key = "syncFailureRatePct" => subjects[i].on >= r.since}

(* A rate is over 100 % only if all rows were counted before those that it *)
(* is about, and more were added since; in the other order it never is     *)
(* (governance.service.ts:197-285).                                        *)
OverHundredOnlyIfOvertaken ==
    \A o \in Overseers :
        LET r == oversight[o] IN
        r.figure # NotCounted /\ r.figure > 10000 =>
            r.first = "all" /\ Cardinality(RowsAsked(r)) > r.all

(* While no row is written, a target is met or missed as the rows have it, *)
(* to half a hundredth of a percent: the windows of the two counts, the    *)
(* rounding and the comparison fit each other                              *)
(* (governance.service.ts:215-227, 283-285, 314-342, 577-579).             *)
VerdictsFitTheRows ==
    \A o \in Overseers :
        LET r == oversight[o]
            rows == RowsAsked(r)
            such == Cardinality({i \in rows : subjects[i].such})
            margin == 20000 * such - 2 * r.target.value * Cardinality(rows)
            least == IF r.target.operator = "gte" THEN margin ELSE -margin
        IN  r.verdict \in {"met", "missed"} /\ ~r.overtaken /\ rows # {} =>
                IF r.verdict = "met" THEN least >= -Cardinality(rows)
                ELSE least <= Cardinality(rows)

SuccessMetricsAreRates == OverHundredOnlyIfOvertaken /\ VerdictsFitTheRows
===============================================================================

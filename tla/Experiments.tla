------------------------------ MODULE Experiments ------------------------------
(***************************************************************************)
(* ExperimentsService: every request reads the experiment with its         *)
(* variants and their results, checks them, and then writes one row.       *)
(* Completing one reads it again, for its attribution, and persists a      *)
(* recommendation for a winner.  Nothing locks an experiment.              *)
(*                                                                         *)
(* The operators named Bug... are faulty variants of definitions after     *)
(* them; no specification uses them.                                       *)
(***************************************************************************)
EXTENDS Recommendations

CONSTANTS
    Experimenters,      \* requests in progress at the same time
    Variants,           \* variants that may be added, in the order of their ids
    Weeks,              \* periods that results are recorded for
    MetricValues,       \* the values of a result
    WinnerTrace,        \* the trace of the recommendation of each variant
    NoResult

ASSUME ExperimentsAssumption ==
    /\ Experimenters \subseteq Persisters
    /\ IsFiniteSet(Variants) /\ IsFiniteSet(Weeks)
    /\ MetricValues \subseteq Nat /\ NoResult \notin Nat
    /\ WinnerTrace \in [Variants -> Traces]
    /\ \A v, w \in Variants : WinnerTrace[v] = WinnerTrace[w] => v = w

VARIABLES
    experiment,     \* the experiment
    req             \* the request of each experimenter, with what it read

expVars == <<recVars, experiment, req>>

ExperimentStatus == {"none", "DRAFT", "RUNNING", "PAUSED", "COMPLETED"}
VariantKind == {"none", "control", "arm"}
Experiment == [status : ExperimentStatus, variants : [Variants -> VariantKind],
               results : [Variants -> [Weeks -> MetricValues \cup {NoResult}]]]
ExpOp == {"launch", "complete", "archive", "control", "arm", "record"}
ReqPc == {"idle", "write", "attribute", "persist"}
Req == [pc : ReqPc, op : ExpOp, seen : Experiment]

NewExperiment == [status |-> "none", variants |-> [v \in Variants |-> "none"],
                  results |-> [v \in Variants |-> [t \in Weeks |-> NoResult]]]
IdleReq == [pc |-> "idle", op |-> "launch", seen |-> NewExperiment]

ExperimentsTypeOK ==
    /\ RecsTypeOK
    /\ experiment \in Experiment
    /\ req \in [Experimenters -> Req]

ExperimentsInit ==
    /\ RecsInit
    /\ experiment = NewExperiment
    /\ req = [x \in Experimenters |-> IdleReq]

-----------------------------------------------------------------------------
(* The statistics, over results that are fractions sum/count.              *)

Added(e) == {v \in Variants : e.variants[v] # "none"}
Controls(e) == {v \in Variants : e.variants[v] = "control"}

ResultPeriods(e, v) == {t \in Weeks : e.results[v][t] # NoResult}
(* A sum of naturals is the size of a disjoint union of sets of that size. *)
ResultSum(e, v) == Cardinality(UNION {{t} \X (1..e.results[v][t]) : t \in ResultPeriods(e, v)})
ResultCount(e, v) == Cardinality(ResultPeriods(e, v))

(* v's average exceeds that of control by more than percent %.             *)
UpliftOver(e, v, control, percent) ==
    100 * ResultSum(e, v) * ResultCount(e, control) >
        (100 + percent) * ResultSum(e, control) * (IF ResultCount(e, v) = 0 THEN 1 ELSE ResultCount(e, v))
(* v's average is at least w's. *)
AtLeastAsGood(e, v, w) ==
    \/ ResultCount(e, w) = 0
    \/ ResultCount(e, v) # 0
       /\ ResultSum(e, v) * ResultCount(e, w) >= ResultSum(e, w) * ResultCount(e, v)

BugNoUplift(e) == Added(e) \ Controls(e)

(* getAttributionSummary: the arm with the best uplift over the control;   *)
(* there is none when the control's average is zero.  Of two controls or   *)
(* of equal arms the order of the rows decides.                            *)
Winners(e) ==
    {v \in Added(e) \ Controls(e) :
        /\ \E c \in Controls(e) : ResultSum(e, c) # 0 /\ UpliftOver(e, v, c, 5)
        /\ \A w \in Added(e) \ Controls(e) : AtLeastAsGood(e, v, w)}
SureWinners(e) ==
    {v \in Winners(e) : \A c \in Controls(e) : ResultSum(e, c) # 0 /\ UpliftOver(e, v, c, 5)}

-----------------------------------------------------------------------------

CreateExperiment ==
    /\ HasFeature(OrgTier, "analytics.full", 0)
    /\ experiment.status = "none"
    /\ experiment' = [NewExperiment EXCEPT !.status = "DRAFT"]
    /\ UNCHANGED <<recVars, req>>

BugNoControlCheck(op, e) ==
    \/ op = "launch" /\ e.status = "DRAFT"
    \/ op = "archive" /\ e.status # "PAUSED"
    \/ op \in {"control", "arm"} /\ e.status = "DRAFT"
BugDraftNotChecked(op, e) ==
    \/ op = "launch" /\ e.status = "DRAFT" /\ Cardinality(Controls(e)) = 1
    \/ op \in {"control", "arm"} /\ (op = "control" => Controls(e) = {})

(* getExperiment, which every request begins with, and what it checks      *)
(* before its write; a request whose checks fail ends without a trace.     *)
(* updateExperiment changes only texts, which nothing here depends on.     *)
Passes(op, e) ==
    \/ op = "launch" /\ e.status = "DRAFT" /\ Cardinality(Controls(e)) = 1
    \/ op = "complete" /\ e.status = "RUNNING"
    \/ op = "archive" /\ e.status # "PAUSED"
    \/ op \in {"control", "arm"} /\ e.status = "DRAFT" /\ (op = "control" => Controls(e) = {})
    \/ op = "record" /\ e.status = "RUNNING" /\ Added(e) # {}
GetExperiment(x) ==
    /\ req[x].pc = "idle" /\ experiment.status # "none"
    /\ \E op \in {o \in ExpOp : Passes(o, experiment)} :
           req' = [req EXCEPT ![x] = [pc |-> "write", op |-> op, seen |-> experiment]]
    /\ UNCHANGED <<recVars, experiment>>

Writes(x, op) == req[x].pc = "write" /\ req[x].op = op
ReqEnds(x) == req' = [req EXCEPT ![x] = IdleReq]

LaunchExperiment(x) ==
    /\ Writes(x, "launch")
    /\ experiment' = [experiment EXCEPT !.status = "RUNNING"]
    /\ ReqEnds(x)
    /\ UNCHANGED recVars
ArchiveExperiment(x) ==
    /\ Writes(x, "archive")
    /\ experiment' = [experiment EXCEPT !.status = "PAUSED"]
    /\ ReqEnds(x)
    /\ UNCHANGED recVars
(* addVariant; the ids of variants are made in increasing order. *)
NextVariant == CHOOSE v \in Variants \ Added(experiment) : TRUE
AddVariant(x) ==
    /\ Writes(x, "control") \/ Writes(x, "arm")
    /\ Added(experiment) # Variants
    /\ experiment' = [experiment EXCEPT !.variants[NextVariant] = req[x].op]
    /\ ReqEnds(x)
    /\ UNCHANGED recVars
(* The variant is looked for among those that were read. *)
RecordResult(x) ==
    /\ Writes(x, "record")
    /\ \E v \in Added(req[x].seen), t \in Weeks, value \in MetricValues :
           experiment' = [experiment EXCEPT !.results[v][t] = value]
    /\ ReqEnds(x)
    /\ UNCHANGED recVars
CompleteExperiment(x) ==
    /\ Writes(x, "complete")
    /\ experiment' = [experiment EXCEPT !.status = "COMPLETED"]
    /\ req' = [req EXCEPT ![x] = [IdleReq EXCEPT !.pc = "attribute"]]
    /\ UNCHANGED recVars

(* The experiment is read again for its attribution. *)
Attribute(x) ==
    /\ req[x].pc = "attribute"
    /\ \/ /\ \E v \in Winners(experiment) : PersistStarts(x, WinnerTrace[v])
          /\ req' = [req EXCEPT ![x].pc = "persist"]
       \/ /\ SureWinners(experiment) = {}
          /\ ReqEnds(x)
          /\ UNCHANGED persist
    /\ UNCHANGED <<recs, logs, decider, experiment>>
CompletionEnds(x) ==
    /\ req[x].pc = "persist" /\ persist[x].pc \in {"persisted", "threw"}
    /\ PersistEnds(x)
    /\ ReqEnds(x)
    /\ UNCHANGED <<recs, logs, decider, experiment>>

(* A call of the database fails. *)
ReqStops(x) ==
    /\ req[x].pc \in {"write", "attribute"}
    /\ ReqEnds(x)
    /\ UNCHANGED <<recVars, experiment>>

ExperimentStep(x) ==
    \/ GetExperiment(x) \/ LaunchExperiment(x) \/ ArchiveExperiment(x) \/ AddVariant(x)
    \/ RecordResult(x) \/ CompleteExperiment(x) \/ Attribute(x) \/ CompletionEnds(x) \/ ReqStops(x)
    \/ PersistStep(x) /\ UNCHANGED <<experiment, req>>

ExperimentsNext == CreateExperiment \/ \E x \in Experimenters : ExperimentStep(x)

ExperimentsSpec == ExperimentsInit /\ [][ExperimentsNext]_expVars

-----------------------------------------------------------------------------
(* Properties *)

(* The request that makes this step had read the experiment as it is.      *)
UpToDate(x) == req[x].seen = experiment
Overtaken == \E x \in Experimenters : req[x].pc = "write" /\ req'[x] # req[x] /\ ~UpToDate(x)

(* Requests that read the experiment as it was when they wrote keep its    *)
(* life cycle: it starts to run with one control, completes from RUNNING,  *)
(* and stays paused (experiments.service.ts:112-195, 428-442).             *)
LifeCycleUnlessOvertaken ==
    [][experiment'.status # experiment.status /\ ~Overtaken =>
          \/ <<experiment.status, experiment'.status>> \in {<<"none", "DRAFT">>, <<"RUNNING", "COMPLETED">>}
          \/ /\ <<experiment.status, experiment'.status>> = <<"DRAFT", "RUNNING">>
             /\ Cardinality(Controls(experiment)) = 1
          \/ experiment'.status = "PAUSED"]_expVars

(* An identity is assigned the variant at hash % count, so that it keeps   *)
(* its variant as long as the variants stay what they are: from its launch *)
(* on they do, unless a request was overtaken; and results come only to a  *)
(* running experiment (experiments.service.ts:198-217, 255, 293).          *)
AssignmentSticks ==
    [][experiment.status # "DRAFT" /\ ~Overtaken =>
          /\ experiment'.variants = experiment.variants
          /\ experiment'.results # experiment.results => experiment.status = "RUNNING"]_expVars

(* A winner is recommended only once its experiment was completed, and a   *)
(* variant that has no result or was never added is not recommended        *)
(* (experiments.service.ts:161-192).                                       *)
WinnersAreReal ==
    \A v \in Variants : Recommended(WinnerTrace[v]) =>
        /\ experiment.status \notin {"none", "DRAFT"}
        /\ experiment.variants[v] = "arm"
        /\ ResultPeriods(experiment, v) # {}
===============================================================================

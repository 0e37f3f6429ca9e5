------------------------------- MODULE Records --------------------------------
(***************************************************************************)
(* What IntegrationSyncProcessor does with the records of a sync: it       *)
(* rejects those that are invalid or come twice, and files the others in   *)
(* one transaction: a metric under a campaign of a channel, a deal under a *)
(* stage of a pipeline, an event under a customer.  The calls that say what*)
(* became of the sync follow the transaction, each of its own.  Syncs of   *)
(* several integrations of one organization run at once, in several workers*)
(* (a job that is done again is IntegrationSync's).                        *)
(*                                                                         *)
(* The database is external: Read Committed, row locks held to the end of  *)
(* the transaction, unique indexes, and a victim for every deadlock.       *)
(*                                                                         *)
(* The operators named Bug... are faulty variants of definitions after     *)
(* them; no specification uses them.                                       *)
(***************************************************************************)
EXTENDS Integers, Sequences, FiniteSets

CONSTANTS
    Importers,  \* syncs, each of its own integration and so of its own provider
    Batches,    \* what a connector may return
    RecordNames,    \* of channels, campaigns, customers, pipelines and stages
    CustomerId, \* what buildIntegrationCustomerEmail makes of a customer's id
    UpperCase,  \* a name in capitals
    Now         \* the day of the syncs

RecordType == {"marketingMetric", "revenueEvent", "customerEvent", "salesPipelineEvent"}
StageType == {"LEAD", "QUALIFIED", "PROPOSAL", "NEGOTIATION", "WON", "LOST"}

(* parent: channelName, customerExternalId, pipelineName; child:           *)
(* campaignName, eventType, stageName; numbers: <<impressions, clicks,     *)
(* conversions>>, <<amount>>, <<>>, <<value, probability in %>>; day: a    *)
(* deal that has no closeDate has the day Now.                             *)
Record == [recordType : RecordType, parent : RecordNames, child : RecordNames,
           numbers : Seq(Int), day : Int]

ASSUME RecordsAssumption ==
    /\ Now \in Int
    /\ StageType \cup {""} \subseteq RecordNames
    /\ CustomerId \in [RecordNames -> RecordNames \ {""}]
    /\ UpperCase \in [RecordNames -> RecordNames]
    /\ \A b \in Batches : b \in Seq(Record)

VARIABLES
    parents,    \* rows of channels, customers and pipelines
    children,   \* rows of campaigns and stages, and which sync inserted them
    facts,      \* rows of metrics, revenue and customer events, and deals
    import      \* each sync: its transaction, and what was logged of it

recordVars == <<parents, children, facts, import>>

-----------------------------------------------------------------------------
(* validateRecords *)

NonNegative(n) == n >= 0
ValidTimestamp(day) == day <= Now + 1

Valid(r) ==
    CASE r.recordType = "marketingMetric" ->
            /\ r.parent # "" /\ r.child # ""
            /\ \A n \in DOMAIN r.numbers : NonNegative(r.numbers[n])
            /\ \A n \in DOMAIN r.numbers \ {1} : r.numbers[n] <= r.numbers[n - 1]
            /\ ValidTimestamp(r.day)
      [] r.recordType = "revenueEvent" ->
            /\ r.child # "" /\ r.numbers[1] > 0
            /\ ValidTimestamp(r.day)
      [] r.recordType = "customerEvent" ->
            /\ r.parent # "" /\ r.child # ""
            /\ ValidTimestamp(r.day)
      [] r.recordType = "salesPipelineEvent" ->
            /\ r.parent # "" /\ r.child # ""
            /\ NonNegative(r.numbers[1]) /\ r.numbers[2] \in 0..100
            /\ ValidTimestamp(r.day)

BugNoDuplicates(batch, n) == FALSE

(* getDuplicateKey joins all the fields of a record. *)
Duplicate(batch, n) == \E k \in 1..n-1 : batch[k] = batch[n]
Accepted(batch) == {n \in DOMAIN batch : ~Duplicate(batch, n) /\ Valid(batch[n])}

SyncStatus(batch) ==
    IF batch = <<>> THEN "PARTIAL"
    ELSE IF Accepted(batch) = {} THEN "FAILED"
    ELSE IF Accepted(batch) # DOMAIN batch THEN "PARTIAL" ELSE "SUCCESS"

-----------------------------------------------------------------------------
(* The rows of a record *)

(* mapDealStageType: a name that is no type is QUALIFIED. *)
ChildName(r) ==
    IF r.recordType # "salesPipelineEvent" THEN r.child
    ELSE IF UpperCase[r.child] \in StageType THEN UpperCase[r.child] ELSE "QUALIFIED"

(* Channels and pipelines are the organization's, by their names; customers*)
(* are the provider's, and several ids may be one customer.                *)
TableOf(r) ==
    CASE r.recordType = "marketingMetric" -> "channel"
      [] r.recordType = "salesPipelineEvent" -> "pipeline"
      [] OTHER -> "customer"
ParentRow(i, r) ==
    IF TableOf(r) = "customer" THEN [table |-> "customer", of |-> i, name |-> CustomerId[r.parent]]
    ELSE [table |-> TableOf(r), of |-> "all", name |-> r.parent]
HasParent(r) == r.parent # ""
HasChild(r) == r.recordType \in {"marketingMetric", "salesPipelineEvent"}
Unique(r) == r.recordType = "salesPipelineEvent"    \* of the children of a parent
NoChild == [of |-> <<>>, name |-> "", by |-> "nobody"]

ParentKey == [table : {"channel", "pipeline", "customer"}, of : Importers \cup {"all"},
              name : RecordNames]
Child == [of : {<<>>} \cup ParentKey, name : RecordNames,
          by : Importers \cup {"nobody"}]
Fact == [by : Importers, index : Nat, under : Child]
AtRecord == {"upsert", "find", "create", "insert"}
InTransaction == AtRecord \cup {"commit"}
Telling == {"status", "log", "issue"}       \* of a sync that got that far
TellingFailure == {"error", "errorlog"}     \* of one with a failed call
ImportPc == {"idle", "ended"} \cup InTransaction \cup Telling \cup TellingFailure
Import == [pc : ImportPc, batch : Batches \cup {<<>>}, at : Nat, child : Child,
           locks : SUBSET ParentKey, made : SUBSET Child,
           filed : SUBSET Fact, logs : SUBSET {"SUCCESS", "PARTIAL", "FAILED"},
           late : BOOLEAN]      \* a call that follows the transaction failed
NoImport == [pc |-> "idle", batch |-> <<>>, at |-> 0, child |-> NoChild, locks |-> {},
             made |-> {}, filed |-> {}, logs |-> {}, late |-> FALSE]

RecordsTypeOK ==
    /\ parents \subseteq ParentKey
    /\ children \subseteq Child
    /\ facts \subseteq Fact
    /\ import \in [Importers -> Import]

RecordsInit ==
    /\ parents = {} /\ children = {} /\ facts = {}
    /\ import = [i \in Importers |-> NoImport]

Current(i) == import[i].batch[import[i].at]
ImportGoes(i, pc) == import' = [import EXCEPT ![i].pc = pc]

BugSameRecordAgain(t) ==
    LET rest == {n \in Accepted(t.batch) : n >= t.at}
        next == CHOOSE n \in rest : \A k \in rest : n <= k
    IN  IF rest = {} THEN [t EXCEPT !.pc = "commit"]
        ELSE [t EXCEPT !.at = next, !.child = NoChild,
                       !.pc = IF HasParent(t.batch[next]) THEN "upsert" ELSE "insert"]

(* The next accepted record, or the end of the transaction. *)
NextRecord(t) ==
    LET rest == {n \in Accepted(t.batch) : n > t.at}
        next == CHOOSE n \in rest : \A k \in rest : n <= k
    IN  IF rest = {} THEN [t EXCEPT !.pc = "commit"]
        ELSE [t EXCEPT !.at = next, !.child = NoChild,
                       !.pc = IF HasParent(t.batch[next]) THEN "upsert" ELSE "insert"]

-----------------------------------------------------------------------------

(* connector.sync() returned the batch; nothing is filed of a FAILED one.  *)
ReceiveBatch(i) ==
    /\ import[i].pc = "idle"
    /\ \E b \in Batches :
           import' = [import EXCEPT ![i] =
               IF SyncStatus(b) = "FAILED"
               THEN [NoImport EXCEPT !.pc = "status", !.batch = b]
               ELSE NextRecord([NoImport EXCEPT !.batch = b])]
    /\ UNCHANGED <<parents, children, facts>>

LockedByOther(i, row) == \E j \in Importers \ {i} : row \in import[j].locks

BugEmptyUpdate(r) == FALSE

(* The upsert writes the row, and so locks it; only where there is nothing *)
(* to update (pipelines, customers) may it be a mere read of a row.        *)
Updates(r) == r.recordType = "marketingMetric"
AfterParent(r) == IF HasChild(r) THEN "find" ELSE "insert"
UpsertParent(i) ==
    LET row == ParentRow(i, Current(i))
    IN  /\ import[i].pc = "upsert"
        /\ \/ /\ ~LockedByOther(i, row)
              /\ import' = [import EXCEPT ![i].pc = AfterParent(Current(i)),
                                          ![i].locks = @ \cup {row}]
           \/ /\ ~Updates(Current(i)) /\ row \in parents
              /\ ImportGoes(i, AfterParent(Current(i)))
        /\ UNCHANGED <<parents, children, facts>>

(* findFirst sees what is committed and what the transaction itself made.  *)
SameChild(i, row, r) == row.of = ParentRow(i, r) /\ row.name = ChildName(r)

BugAnyParent(i) ==
    {row \in children \cup import[i].made : row.name = ChildName(Current(i))}

Found(i) == {row \in children \cup import[i].made : SameChild(i, row, Current(i))}
FindChild(i) ==
    /\ import[i].pc = "find"
    /\ \/ /\ Found(i) = {}
          /\ ImportGoes(i, "create")
       \/ \E row \in Found(i) :
              import' = [import EXCEPT ![i].pc = "insert", ![i].child = row]
    /\ UNCHANGED <<parents, children, facts>>

(* A stage is unique in its pipeline: the INSERT waits for a transaction   *)
(* that has inserted the same one, and violates the index if that commits. *)
NewChild(i) == [of |-> ParentRow(i, Current(i)), name |-> ChildName(Current(i)), by |-> i]
MadeByOther(i) ==
    \E j \in Importers \ {i}, row \in UNION {import[k].made : k \in Importers} :
        row \in import[j].made /\ SameChild(i, row, Current(i))
CreateChild(i) ==
    /\ import[i].pc = "create"
    /\ Unique(Current(i)) => ~MadeByOther(i) /\ Found(i) = {}
    /\ import' = [import EXCEPT ![i].pc = "insert", ![i].child = NewChild(i),
                                ![i].made = @ \cup {NewChild(i)}]
    /\ UNCHANGED <<parents, children, facts>>

BugOutsideTransaction(i) ==
    LET fact == [by |-> i, index |-> import[i].at, under |-> import[i].child]
    IN  /\ import[i].pc = "insert"
        /\ import' = [import EXCEPT ![i] = NextRecord([@ EXCEPT !.filed = @ \cup {fact}])]
        /\ facts' = facts \cup {fact}
        /\ UNCHANGED <<parents, children>>

InsertFact(i) ==
    /\ import[i].pc = "insert"
    /\ import' = [import EXCEPT ![i] = NextRecord([import[i] EXCEPT !.filed =
           @ \cup {[by |-> i, index |-> import[i].at, under |-> import[i].child]}])]
    /\ UNCHANGED <<parents, children, facts>>

Commit(i) ==
    /\ import[i].pc = "commit"
    /\ parents' = parents \cup import[i].locks
    /\ children' = children \cup import[i].made
    /\ facts' = facts \cup import[i].filed
    /\ import' = [import EXCEPT ![i] = [NoImport EXCEPT !.pc = "status", !.batch = import[i].batch]]

(* The integration gets its status, the sync its log, and the organization *)
(* an issue of the records that were rejected.                             *)
Rejects(batch) == Accepted(batch) # DOMAIN batch
UpdateIntegration(i) == import[i].pc = "status" /\ ImportGoes(i, "log")
WriteSyncLog(i) ==
    /\ import[i].pc = "log"
    /\ import' = [import EXCEPT ![i].pc = IF Rejects(import[i].batch) THEN "issue" ELSE "ended",
                                ![i].logs = {SyncStatus(import[i].batch)}]
LogIssues(i) == import[i].pc = "issue" /\ ImportGoes(i, "ended")
Tell(i) ==
    (UpdateIntegration(i) \/ WriteSyncLog(i) \/ LogIssues(i)) /\ UNCHANGED <<parents, children, facts>>

(* The handler of a failed call: status ERROR and a log, whatever is stored*)
(* and logged already.                                                     *)
LogFailedSync(i) ==
    /\ import[i].pc = "errorlog"
    /\ import' = [import EXCEPT ![i].pc = "ended", ![i].logs = @ \cup {"FAILED"}]
TellFailure(i) ==
    /\ (import[i].pc = "error" /\ ImportGoes(i, "errorlog")) \/ LogFailedSync(i)
    /\ UNCHANGED <<parents, children, facts>>

(* The transaction is rolled back: a call failed, an index was violated or *)
(* the transaction is the victim of a deadlock.                            *)
RollBack(i) ==
    /\ import' = [import EXCEPT ![i] = [NoImport EXCEPT !.pc = "error", !.batch = import[i].batch]]
    /\ UNCHANGED <<parents, children, facts>>
CallFails(i) == import[i].pc \in InTransaction /\ RollBack(i)
(* A call after the transaction fails, then maybe one of its handler's.    *)
TellingFails(i) ==
    /\ \/ /\ import[i].pc \in Telling
          /\ import' = [import EXCEPT ![i].pc = "error", ![i].late = TRUE]
       \/ import[i].pc \in TellingFailure /\ ImportGoes(i, "ended")
    /\ UNCHANGED <<parents, children, facts>>
WorkerDies(i) ==
    /\ import[i].pc \notin {"idle", "ended"}
    /\ import' = [import EXCEPT ![i] = [NoImport EXCEPT
           !.pc = "ended", !.batch = import[i].batch, !.logs = import[i].logs,
           !.late = import[i].late]]
    /\ UNCHANGED <<parents, children, facts>>
IndexViolated(i) ==
    import[i].pc = "create" /\ Unique(Current(i)) /\ Found(i) # {} /\ RollBack(i)

WaitsFor(i) ==
    CASE import[i].pc = "upsert" ->
            {j \in Importers \ {i} : ParentRow(i, Current(i)) \in import[j].locks}
      [] import[i].pc = "create" /\ Unique(Current(i)) ->
            {j \in Importers \ {i} : \E row \in import[j].made : SameChild(i, row, Current(i))}
      [] OTHER -> {}
DeadlockVictim(i) ==
    /\ \E ring \in SUBSET Importers :
           i \in ring /\ \A j \in ring : WaitsFor(j) \cap ring # {}
    /\ RollBack(i)

ImportGoesOn(i) ==
    \/ UpsertParent(i) \/ FindChild(i) \/ CreateChild(i) \/ InsertFact(i)
    \/ Commit(i) \/ IndexViolated(i) \/ DeadlockVictim(i) \/ Tell(i) \/ TellFailure(i)
ImportFails(i) == CallFails(i) \/ TellingFails(i) \/ WorkerDies(i)
ImportStep(i) == ReceiveBatch(i) \/ ImportGoesOn(i) \/ ImportFails(i)
RecordsNext == \E i \in Importers : ImportStep(i)
RecordsSpec == RecordsInit /\ [][RecordsNext]_recordVars
(* A worker goes on with its job, and the database finds the deadlocks.    *)
RecordsFairSpec == RecordsSpec /\ \A i \in Importers : WF_recordVars(ImportGoesOn(i))

-----------------------------------------------------------------------------
(* Safety *)

(* A channel has no two campaigns of one name and a pipeline no two stages *)
(* of one type, although campaigns have no unique index and are looked up  *)
(* before they are inserted: the upsert of the channel has locked it       *)
(* (integration-sync.processor.ts:478-513, 593-610).                       *)
NoChildTwice ==
    \A a, b \in children : a.of = b.of /\ a.name = b.name => a = b

(* What is stored is under rows that are stored, and under the channel and *)
(* the campaign, the pipeline and the type of stage, or the customer of    *)
(* that provider and normalised id, of its record                          *)
(* (integration-sync.processor.ts:472-657).                                *)
FactsAreFiled ==
    \A f \in facts :
        LET r == import[f.by].batch[f.index]
        IN  /\ HasParent(r) => ParentRow(f.by, r) \in parents
            /\ HasChild(r) => f.under \in children /\ SameChild(f.by, f.under, r)

(* All the accepted records of a sync are stored or none: all where one of *)
(* its logs says SUCCESS or PARTIAL, and none where it is logged as FAILED,*)
(* unless the call that failed came after the transaction: then the same   *)
(* handler logs FAILED of records that are stored                          *)
(* (integration-sync.processor.ts:117-127, 156-214, 252-276).              *)
StoredOf(i) == {f.index : f \in {g \in facts : g.by = i}}
AllOrNothing ==
    \A i \in Importers :
        LET t == import[i]
        IN  /\ StoredOf(i) \in {{}, Accepted(t.batch)}
            /\ t.logs \cap {"SUCCESS", "PARTIAL"} # {} => StoredOf(i) = Accepted(t.batch)
            /\ "FAILED" \in t.logs => StoredOf(i) = {} \/ t.late

(* No record is stored twice of one sync, whether its first copy was valid *)
(* or not (integration-sync.processor.ts:278-310).                         *)
StoredOnce ==
    \A f, g \in facts :
        f.by = g.by /\ import[f.by].batch[f.index] = import[g.by].batch[g.index] => f = g

(* Every sync that has its records ends, whichever locks the syncs wait for*)
(* and whichever calls fail (integration-sync.processor.ts:156-216,        *)
(* 258-275).                                                               *)
ImportsEnd == \A i \in Importers : import[i].pc # "idle" ~> import[i].pc = "ended"

(* What a sync files of its batch is whole, filed once and under the right *)
(* row, whatever transactions overlap with it and whichever call fails     *)
(* (integration-sync.processor.ts:252-623).                                *)
ImportsAreWhole == NoChildTwice /\ FactsAreFiled /\ AllOrNothing /\ StoredOnce
===============================================================================

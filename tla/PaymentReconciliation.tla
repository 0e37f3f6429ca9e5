------------------------ MODULE PaymentReconciliation ------------------------
(***************************************************************************)
(* PaymentService.verifyPayment and PaymentService.processWebhook.  The    *)
(* provider settles a charge, tells the API in a webhook, which it sends   *)
(* again until it is answered with a 200 and may send more often than      *)
(* that; a user may ask for a verification at any time.  A worker is one   *)
(* such request.  Any awaited call may fail and the process may restart;   *)
(* between two awaited calls of a worker every other worker may run.       *)
(*                                                                         *)
(* The provider is external: charge is its own record, which only Settle   *)
(* changes here, and verifyPayment of the adapter answers what it says.    *)
(* (The adapters in the repository are sandboxes whose charges succeed as  *)
(* soon as they are opened: one of the behaviours below.)                  *)
(***************************************************************************)
EXTENDS BillingTables

CONSTANTS
    Workers,    \* verify and webhook requests in progress at the same time
    Events,     \* webhook events: the event id is the kind and the reference
    References, \* the references a user may ask to verify
    Outcomes,   \* how the provider may settle a charge
    OpenPayments, \* how many payments there are to settle
    MaxFaults   \* bound: failing calls and restarts

Kinds == {"payment.success", "payment.failed", "subscription.renewed",
          "subscription.canceled"}

ASSUME ReconciliationAssumption ==
    /\ Orgs # {} /\ Tiers # {} /\ Intervals # {}
    /\ Events \subseteq [kind : Kinds, ref : Nat]
    /\ References \subseteq Nat
    /\ Outcomes \subseteq {"success", "failed"}
    /\ OpenPayments \in Nat
    /\ MaxFaults \in Nat

VARIABLES
    hook,       \* WebhookEvent rows, by (provider, eventId)
    acked,      \* the events whose delivery was answered with a 200
    work,       \* what each worker is doing
    faults      \* failed calls and restarts so far

vars == <<subs, invoices, payments, charge, now, hook, acked, work, faults>>

HookStatus == {"absent", "PROCESSING", "PROCESSED", "FAILED"}
Answer == {"pending", "success", "failed"}
Pc == {"idle", "mark", "ask", "find", "settle", "paid", "activate", "refuse",
       "pastdue", "cancel", "processed", "failed"}

(* kind is "verify" for POST /billing/:provider/verify. *)
Work == [pc : Pc, kind : Kinds \cup {"verify"}, ref : Nat,
         seen : HookStatus, answer : Answer]
Idle == [pc |-> "idle", kind |-> "verify", ref |-> 0, seen |-> "absent",
         answer |-> "pending"]

TypeOK ==
    /\ TablesOK
    /\ hook \in [Events -> HookStatus]
    /\ acked \subseteq Events
    /\ work \in [Workers -> Work]
    /\ faults \in Nat

EventOf(w) == [kind |-> work[w].kind, ref |-> work[w].ref]
IsWebhook(w) == work[w].kind # "verify"

(* One organization that subscribed and upgraded, its payments all open:   *)
(* the tables SubscriptionLifecycle leaves (Billing composes the two).     *)
Subscribed ==
    LET o == CHOOSE o \in Orgs : TRUE
        t == CHOOSE t \in Tiers : TRUE
        i == CHOOSE i \in Intervals : TRUE
    IN  /\ subs = <<[org |-> o, tier |-> t, interval |-> i,
                     status |-> "ACTIVE", end |-> 1]>>
        /\ invoices = [k \in 1..OpenPayments |-> [org |-> o, sub |-> 1, due |-> 0,
               number |-> [month |-> 0, count |-> k], status |-> "ISSUED"]]
        /\ payments = [k \in 1..OpenPayments |-> [invoice |-> k, sub |-> 1, status |-> "PENDING"]]
        /\ charge = [k \in 1..OpenPayments |-> "open"]
        /\ now = 0

InitWork ==
    /\ hook = [e \in Events |-> "absent"]
    /\ acked = {}
    /\ work = [w \in Workers |-> Idle]
    /\ faults = 0

Init == Subscribed /\ InitWork

(***************************************************************************)
(* The provider                                                            *)
(***************************************************************************)

Settle(p, outcome) ==
    /\ charge[p] = "open"
    /\ charge' = [charge EXCEPT ![p] = outcome]
    /\ UNCHANGED <<subs, invoices, payments, now, hook, acked, work, faults>>

(* The events the provider has to tell. *)
Emitted(e) ==
    /\ e.ref \in DOMAIN charge
    /\ charge[e.ref] # "none"
    /\ e.kind = "payment.success" => charge[e.ref] = "success"
    /\ e.kind = "payment.failed" => charge[e.ref] = "failed"

(* What verifyPayment of a provider answers.  The adapters of the          *)
(* repository stand in for the providers and never answer "pending"; the   *)
(* type of their answer has it, and a provider has charges that are open.  *)
Said(ref) ==
    IF ref \in DOMAIN charge /\ charge[ref] \in {"success", "failed"}
    THEN charge[ref] ELSE "pending"

(***************************************************************************)
(* Faulty variants of the definitions below: see SubscriptionLifecycle.    *)
(***************************************************************************)
BugNotRefusedIsCollected(answer) == answer # "failed"
BugNotCollectedIsRefused(answer) == answer # "success"
BugInvoiceForgotten == "activate"
BugReceived == "RECEIVED"
BugAlwaysCreate(w) == hook[EventOf(w)] # "absent"

(***************************************************************************)
(* Steps of a worker                                                       *)
(***************************************************************************)

(* verifyPayment's early return, and its tests of the provider's answer. *)
AlreadySettled(ref) == payments[ref].status = "SUCCESS"
Collected(answer) == answer = "success"
Refused(answer) == answer = "failed"

(* What follows the update of the payment: every payment has an invoice. *)
AfterSettle == "paid"

(* The status of an event that is being processed. *)
Processing == "PROCESSING"

(* The lookup found no row and a create breaks the unique constraint. *)
CreateClash(w) == work[w].seen = "absent" /\ hook[EventOf(w)] # "absent"

Goto(w, pc) == work' = [work EXCEPT ![w].pc = pc]
Finish(w) == work' = [work EXCEPT ![w] = Idle]

(* verifyPayment returns: to its caller, or to processWebhook. *)
Return(w) == IF IsWebhook(w) THEN Goto(w, "processed") ELSE Finish(w)

Verify(w, ref) ==
    /\ work[w].pc = "idle"
    /\ work' = [work EXCEPT ![w] = [Idle EXCEPT !.pc = "ask", !.ref = ref]]
    /\ UNCHANGED <<tables, hook, acked, faults>>

(* processWebhook looks the event up and answers at once if it was         *)
(* processed.                                                              *)
Deliver(w, e) ==
    /\ work[w].pc = "idle"
    /\ Emitted(e)
    /\ IF hook[e] = "PROCESSED"
       THEN /\ acked' = acked \cup {e}
            /\ UNCHANGED work
       ELSE /\ work' = [work EXCEPT ![w] = [Idle EXCEPT !.pc = "mark",
                            !.kind = e.kind, !.ref = e.ref, !.seen = hook[e]]]
            /\ UNCHANGED acked
    /\ UNCHANGED <<tables, hook, faults>>

(* create, or update when the lookup found a row.  The create of a second  *)
(* delivery breaks the unique constraint, outside the try.                 *)
MarkProcessing(w) ==
    /\ work[w].pc = "mark"
    /\ IF CreateClash(w)
       THEN Finish(w) /\ UNCHANGED hook
       ELSE /\ hook' = [hook EXCEPT ![EventOf(w)] = Processing]
            /\ Goto(w, CASE work[w].kind = "subscription.renewed"  -> "processed"
                         [] work[w].kind = "subscription.canceled" -> "cancel"
                         [] OTHER                                  -> "ask")
    /\ UNCHANGED <<tables, acked, faults>>

AskProvider(w) ==
    /\ work[w].pc = "ask"
    /\ work' = [work EXCEPT ![w] = [@ EXCEPT !.pc = "find", !.answer = Said(work[w].ref)]]
    /\ UNCHANGED <<tables, hook, acked, faults>>

(* payment.findUnique.  No row: 'Payment reference not found', caught by   *)
(* processWebhook only.                                                    *)
FindPayment(w) ==
    /\ work[w].pc = "find"
    /\ IF work[w].ref \notin DOMAIN payments
       THEN IF IsWebhook(w) THEN Goto(w, "failed") ELSE Finish(w)
       ELSE IF AlreadySettled(work[w].ref)
       THEN Return(w)
       ELSE Goto(w, IF Collected(work[w].answer) THEN "settle" ELSE "refuse")
    /\ UNCHANGED <<tables, hook, acked, faults>>

SettlePayment(w) ==
    /\ work[w].pc = "settle"
    /\ payments' = [payments EXCEPT ![work[w].ref].status = "SUCCESS"]
    /\ Goto(w, AfterSettle)
    /\ UNCHANGED <<subs, invoices, charge, now, hook, acked, faults>>

MarkInvoicePaid(w) ==
    /\ work[w].pc = "paid"
    /\ invoices' = [invoices EXCEPT ![payments[work[w].ref].invoice].status = "PAID"]
    /\ Goto(w, "activate")
    /\ UNCHANGED <<subs, payments, charge, now, hook, acked, faults>>

SetStatus(w, status) ==
    subs' = [subs EXCEPT ![payments[work[w].ref].sub].status = status]

Activate(w) ==
    /\ work[w].pc = "activate"
    /\ SetStatus(w, "ACTIVE")
    /\ Return(w)
    /\ UNCHANGED <<invoices, payments, charge, now, hook, acked, faults>>

RefusePayment(w) ==
    /\ work[w].pc = "refuse"
    /\ payments' = [payments EXCEPT ![work[w].ref].status =
                       IF Refused(work[w].answer) THEN "FAILED" ELSE "PENDING"]
    /\ IF Refused(work[w].answer) THEN Goto(w, "pastdue") ELSE Return(w)
    /\ UNCHANGED <<subs, invoices, charge, now, hook, acked, faults>>

MarkPastDue(w) ==
    /\ work[w].pc = "pastdue"
    /\ SetStatus(w, "PAST_DUE")
    /\ Return(w)
    /\ UNCHANGED <<invoices, payments, charge, now, hook, acked, faults>>

(* The subscription whose payment has the event's reference. *)
CancelByProvider(w) ==
    /\ work[w].pc = "cancel"
    /\ subs' = [subs EXCEPT ![payments[work[w].ref].sub] =
                   [@ EXCEPT !.status = "CANCELED", !.end = now]]
    /\ Goto(w, "processed")
    /\ UNCHANGED <<invoices, payments, charge, now, hook, acked, faults>>

MarkProcessed(w) ==
    /\ work[w].pc = "processed"
    /\ hook' = [hook EXCEPT ![EventOf(w)] = "PROCESSED"]
    /\ acked' = acked \cup {EventOf(w)}
    /\ Finish(w)
    /\ UNCHANGED <<tables, faults>>

(* The catch block; the rethrown error is answered with a 4xx or 5xx. *)
MarkFailed(w) ==
    /\ work[w].pc = "failed"
    /\ hook' = [hook EXCEPT ![EventOf(w)] = "FAILED"]
    /\ Finish(w)
    /\ UNCHANGED <<tables, acked, faults>>

(* An awaited call throws: in the try block the catch runs next. *)
CallFails(w) ==
    /\ faults < MaxFaults
    /\ work[w].pc # "idle"
    /\ faults' = faults + 1
    /\ IF IsWebhook(w) /\ work[w].pc \notin {"mark", "failed"}
       THEN Goto(w, "failed") ELSE Finish(w)
    /\ UNCHANGED <<tables, hook, acked>>

(* The process restarts and forgets every request. *)
Restart ==
    /\ faults < MaxFaults
    /\ \E w \in Workers : work[w].pc # "idle"
    /\ faults' = faults + 1
    /\ work' = [w \in Workers |-> Idle]
    /\ UNCHANGED <<tables, hook, acked>>

Step(w) ==
    \/ MarkProcessing(w) \/ AskProvider(w) \/ FindPayment(w)
    \/ SettlePayment(w) \/ MarkInvoicePaid(w) \/ Activate(w)
    \/ RefusePayment(w) \/ MarkPastDue(w) \/ CancelByProvider(w)
    \/ MarkProcessed(w) \/ MarkFailed(w)

Receive(w) ==
    \/ \E r \in References : Verify(w, r)
    \/ \E e \in Events : Deliver(w, e)

Next ==
    \/ \E p \in DOMAIN charge, outcome \in Outcomes : Settle(p, outcome)
    \/ \E w \in Workers : Receive(w) \/ Step(w) \/ CallFails(w)
    \/ Restart

(* A started request goes on (weak fairness of the event loop), and the    *)
(* provider delivers an event again and again until it is answered with a  *)
(* 200: it finds a free worker infinitely often, not continuously.         *)
Redeliver(e) == e \notin acked /\ \E w \in Workers : Deliver(w, e)

Fairness ==
    /\ \A w \in Workers : WF_vars(Step(w))
    /\ \A e \in Events : SF_vars(Redeliver(e))

Spec == Init /\ [][Next]_vars
FairSpec == Spec /\ Fairness

(***************************************************************************)
(* Properties                                                              *)
(***************************************************************************)

(* Money is never taken for received: an invoice is PAID and a payment     *)
(* SUCCESS only if the provider collected the charge, and a payment FAILED *)
(* only if it refused it, whatever is replayed, delayed or repeated.       *)
PaidOnlyIfCollected ==
    /\ \A p \in DOMAIN payments :
           /\ payments[p].status = "SUCCESS" => charge[p] = "success"
           /\ payments[p].status = "FAILED" => charge[p] = "failed"
    /\ \A k \in DOMAIN invoices : invoices[k].status = "PAID" =>
           \E p \in DOMAIN payments :
               payments[p].invoice = k /\ charge[p] = "success"

(* The events of a payment, and whether a request about it is in progress. *)
InFlight(ref) == \E w \in Workers : work[w].pc # "idle" /\ work[w].ref = ref

(* docs/deployment.md, 'Failure recovery': once the provider has its 200   *)
(* for a successful charge and no request about it is still in progress,   *)
(* the payment's invoice is PAID.                                          *)
AckedMeansPaid ==
    \A e \in acked :
        (e.kind = "payment.success" /\ ~InFlight(e.ref)) =>
            invoices[payments[e.ref].invoice].status = "PAID"

(* The same as long as no call failed and the process did not restart.     *)
AckedMeansPaidWithoutFaults == faults = 0 => AckedMeansPaid

(* docs/deployment.md, 'Webhook Idempotency': a PROCESSED event is not     *)
(* processed again.                                                        *)
ProcessedIsFinal ==
    [][\A e \in Events : hook[e] = "PROCESSED" => hook'[e] = "PROCESSED"]_vars

(* Every event the provider has to tell is in the end answered with a 200, *)
(* although calls fail, the process restarts and deliveries of the event   *)
(* overlap and break each other's create.  With AckedMeansPaid: without    *)
(* faults the invoice of every collected charge is in the end PAID.        *)
EventuallyAcked == \A e \in Events : Emitted(e) ~> (e \in acked)

(* The books as Settlement sees them.                                      *)
Books == INSTANCE Settlement WITH
    bill <- [p \in DOMAIN payments |->
                [invoice |-> payments[p].invoice, sub |-> payments[p].sub]],
    booked <- [p \in DOMAIN payments |-> payments[p].status],
    received <- {k \in DOMAIN invoices : invoices[k].status = "PAID"},
    standing <- [s \in DOMAIN subs |-> subs[s].status]

(* Verifications and webhooks implement Settlement: whichever of them are  *)
(* repeated, overlap, fail or are forgotten, the books only ever follow    *)
(* the provider, and an invoice that is paid stays paid                    *)
(* (payment.service.ts:61-215).                                            *)
BooksFollowTheProvider == Books!SettlementSpec
==============================================================================

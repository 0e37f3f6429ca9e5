------------------------ MODULE SubscriptionLifecycle ------------------------
(***************************************************************************)
(* SubscriptionService with the InvoiceService and                         *)
(* PaymentService.createPayment calls it makes: subscribe, renew, upgrade  *)
(* or downgrade, and cancel.  A handler is one HTTP request; between two   *)
(* awaited calls of one handler every other handler may run, and a call    *)
(* that fails ends its handler with everything it already wrote left done  *)
(* (there is no try, no transaction and no compensation), which is also    *)
(* what a restart of the process leaves.                                   *)
(***************************************************************************)
EXTENDS BillingTables, FiniteSetsExt

CONSTANTS
    Handlers,   \* requests that can be in progress at the same time
    Price,      \* Price[tier][interval], in naira
    Months,     \* Months[interval], how far computeEndDate moves a date
    CallsFail,  \* whether awaited calls may fail
    MaxSubs,    \* bound: Subscription rows
    MaxInvoices, \* bound: Invoice rows
    MaxEvents,  \* bound: RevenueEvent rows
    MaxNow,     \* bound: the last month
    MaxEnd      \* bound: a subscription that ends later is not renewed

ASSUME LifecycleAssumption ==
    /\ Price \in [Tiers -> [Intervals -> Nat]]
    /\ Months \in [Intervals -> Nat \ {0}]
    /\ CallsFail \in BOOLEAN
    /\ None \notin Orgs \cup Tiers \cup Intervals

VARIABLES
    revenue,    \* RevenueEvent rows
    req         \* what each handler is doing

vars == <<subs, invoices, payments, charge, now, revenue, req>>

RevenueType == {"SUBSCRIPTION_STARTED", "SUBSCRIPTION_RENEWED", "UPGRADE",
                "DOWNGRADE", "REFUND"}
RevenueEvent == [sub : Nat, invoice : Nat, type : RevenueType, amount : Nat]

(* A handler between two awaited calls: the call it makes next, what the   *)
(* request asked for, and what its earlier calls returned.  0 is no row.   *)
Pc == {"idle", "create", "update", "number", "insert", "pay", "checkout",
       "recognise"}
Op == {None, "subscribe", "renew", "change", "cancel"}
Request == [pc : Pc, op : Op, org : Orgs \cup {None},
            tier : Tiers \cup {None}, interval : Intervals \cup {None},
            sub : Nat, due : Nat, amount : Int, number : InvoiceNumber,
            invoice : Nat, payment : Nat]

Idle == [pc |-> "idle", op |-> None, org |-> None, tier |-> None,
         interval |-> None, sub |-> 0, due |-> 0, amount |-> 0,
         number |-> [month |-> 0, count |-> 0], invoice |-> 0, payment |-> 0]

TypeOK ==
    /\ TablesOK
    /\ revenue \in Seq(RevenueEvent)
    /\ req \in [Handlers -> Request]

Busy == {h \in Handlers : req[h].pc # "idle"}

Init ==
    /\ EmptyTables
    /\ revenue = <<>>
    /\ req = [h \in Handlers |-> Idle]

(***************************************************************************)
(* Faulty variants of definitions below: each has a bug the code could     *)
(* have had, and no specification uses it.  A property is worth its run if *)
(* it tells the variant from the definition.                               *)
(***************************************************************************)
BugCurrentIgnored(o) == FALSE
BugPeriodNotMoved(start, interval) == start
BugNoUniqueConstraint(o, n) == FALSE
BugDeltaReversed(amount) == amount < 0
BugOldPlanAtNewInterval(s, t, i) == Price[t][i] - Price[subs[s].tier][i]
BugOnlySubscribePays(op) == IF op = "subscribe" THEN "pay" ELSE "recognise"
BugLatestInvoice(r) == [invoice |-> Len(invoices), sub |-> r.sub, status |-> "PENDING"]
BugSigned(amount) == amount

HasCurrent(o) == Current(o) # {}

(* computeEndDate. *)
PeriodEnd(start, interval) == start + Months[interval]

(* generateInvoiceNumber: one more than the invoices it counts. *)
NextCount(o, m) == Cardinality(Numbered(o, m)) + 1

(* The unique constraint on (organizationId, invoiceNumber). *)
NumberTaken(o, n) ==
    \E k \in DOMAIN invoices : invoices[k].org = o /\ invoices[k].number = n

(* changePlan: the new plan's price less that of the plan it read; only an *)
(* increase is billed.                                                     *)
PriceDifference(s, t, i) == Price[t][i] - Price[subs[s].tier][subs[s].interval]
Billable(amount) == amount > 0

(* Math.abs. *)
Magnitude(amount) == IF amount < 0 THEN -amount ELSE amount

(* A renewal makes no payment. *)
AfterInvoice(op) == IF op = "renew" THEN "recognise" ELSE "pay"

(* What createPayment writes for request r. *)
NewPayment(r) == [invoice |-> r.invoice, sub |-> r.sub, status |-> "PENDING"]

(* SUBSCRIPTION_STARTED, ..., as createRevenueEvent is called. *)
EventType(r) ==
    CASE r.op = "subscribe" -> "SUBSCRIPTION_STARTED"
      [] r.op = "renew"     -> "SUBSCRIPTION_RENEWED"
      [] r.op = "change"    -> IF r.amount >= 0 THEN "UPGRADE" ELSE "DOWNGRADE"
      [] r.op = "cancel"    -> "REFUND"

(***************************************************************************)
(* The first calls of the handlers: read the current subscription (and the *)
(* plan, which is always found: BillingService seeds every tier).          *)
(***************************************************************************)

(* A free handler, and room for the rows that it and the others add. *)
Accepts(h) ==
    /\ req[h].pc = "idle"
    /\ Len(invoices) + Cardinality(Busy) < MaxInvoices
    /\ Len(revenue) + Cardinality(Busy) < MaxEvents

Subscribe(h, o, t, i) ==
    /\ Accepts(h)
    /\ Len(subs) + Cardinality(Busy) < MaxSubs
    /\ ~HasCurrent(o)
    /\ req' = [req EXCEPT ![h] = [Idle EXCEPT !.pc = "create", !.op = "subscribe",
                  !.org = o, !.tier = t, !.interval = i, !.amount = Price[t][i]]]
    /\ UNCHANGED <<tables, revenue>>

(* The period starts where the last one ended; its length is the           *)
(* interval's as read here.                                                *)
Renew(h, o) ==
    /\ Accepts(h)
    /\ HasCurrent(o)
    /\ subs[Newest(o)].end < MaxEnd
    /\ LET s == Newest(o)
       IN  req' = [req EXCEPT ![h] = [Idle EXCEPT !.pc = "update", !.op = "renew",
                      !.org = o, !.sub = s, !.interval = subs[s].interval,
                      !.due = subs[s].end,
                      !.amount = Price[subs[s].tier][subs[s].interval]]]
    /\ UNCHANGED <<tables, revenue>>

(* The amount is the signed difference of the two prices. *)
ChangePlan(h, o, t, i) ==
    /\ Accepts(h)
    /\ HasCurrent(o)
    /\ LET s == Newest(o)
       IN  req' = [req EXCEPT ![h] = [Idle EXCEPT !.pc = "update", !.op = "change",
                      !.org = o, !.sub = s, !.tier = t, !.interval = i,
                      !.amount = PriceDifference(s, t, i)]]
    /\ UNCHANGED <<tables, revenue>>

Cancel(h, o) ==
    /\ Accepts(h)
    /\ HasCurrent(o)
    /\ req' = [req EXCEPT ![h] = [Idle EXCEPT !.pc = "update", !.op = "cancel",
                  !.org = o, !.sub = Newest(o)]]
    /\ UNCHANGED <<tables, revenue>>

(***************************************************************************)
(* subscription.create and the three subscription.update calls.  The       *)
(* updates are by id: none looks at the status it replaces.                *)
(***************************************************************************)

CreateSubscription(h) ==
    /\ req[h].pc = "create"
    /\ subs' = Append(subs, [org |-> req[h].org, tier |-> req[h].tier,
                   interval |-> req[h].interval, status |-> "ACTIVE",
                   end |-> PeriodEnd(now, req[h].interval)])
    /\ req' = [req EXCEPT ![h] = [@ EXCEPT !.pc = "number",
                  !.sub = Len(subs) + 1, !.due = now]]
    /\ UNCHANGED <<invoices, payments, charge, now, revenue>>

ExtendPeriod(h) ==
    /\ req[h].pc = "update" /\ req[h].op = "renew"
    /\ subs' = [subs EXCEPT ![req[h].sub] = [@ EXCEPT !.status = "ACTIVE",
                   !.end = PeriodEnd(req[h].due, req[h].interval)]]
    /\ req' = [req EXCEPT ![h].pc = "number"]
    /\ UNCHANGED <<invoices, payments, charge, now, revenue>>

SwitchPlan(h) ==
    /\ req[h].pc = "update" /\ req[h].op = "change"
    /\ subs' = [subs EXCEPT ![req[h].sub] = [@ EXCEPT !.status = "ACTIVE",
                   !.tier = req[h].tier, !.interval = req[h].interval]]
    /\ req' = [req EXCEPT ![h] = [@ EXCEPT !.due = now,
                  !.pc = IF Billable(req[h].amount) THEN "number" ELSE "recognise"]]
    /\ UNCHANGED <<invoices, payments, charge, now, revenue>>

EndSubscription(h) ==
    /\ req[h].pc = "update" /\ req[h].op = "cancel"
    /\ subs' = [subs EXCEPT ![req[h].sub] = [@ EXCEPT !.status = "CANCELED",
                   !.end = now]]
    /\ req' = [req EXCEPT ![h].pc = "recognise"]
    /\ UNCHANGED <<invoices, payments, charge, now, revenue>>

(***************************************************************************)
(* InvoiceService.createInvoiceForSubscription: count, then create.        *)
(***************************************************************************)

NumberInvoice(h) ==
    /\ req[h].pc = "number"
    /\ req' = [req EXCEPT ![h] = [@ EXCEPT !.pc = "insert",
                  !.number = [month |-> now, count |-> NextCount(req[h].org, now)]]]
    /\ UNCHANGED <<tables, revenue>>

InsertInvoice(h) ==
    /\ req[h].pc = "insert"
    /\ ~NumberTaken(req[h].org, req[h].number)
    /\ invoices' = Append(invoices, [org |-> req[h].org, sub |-> req[h].sub,
                       number |-> req[h].number, due |-> req[h].due,
                       status |-> "ISSUED"])
    /\ req' = [req EXCEPT ![h] = [@ EXCEPT !.invoice = Len(invoices) + 1,
                  !.pc = AfterInvoice(req[h].op)]]
    /\ UNCHANGED <<subs, payments, charge, now, revenue>>

(* The constraint rejects a number that another handler used meanwhile;    *)
(* the error ends the request, whose subscription row stays as written.    *)
RejectInvoice(h) ==
    /\ req[h].pc = "insert"
    /\ NumberTaken(req[h].org, req[h].number)
    /\ req' = [req EXCEPT ![h] = Idle]
    /\ UNCHANGED <<tables, revenue>>

(***************************************************************************)
(* PaymentService.createPayment: the row, then the provider's checkout.    *)
(***************************************************************************)

CreatePayment(h) ==
    /\ req[h].pc = "pay"
    /\ payments' = Append(payments, NewPayment(req[h]))
    /\ charge' = Append(charge, "none")
    /\ req' = [req EXCEPT ![h] = [@ EXCEPT !.pc = "checkout",
                  !.payment = Len(payments) + 1]]
    /\ UNCHANGED <<subs, invoices, now, revenue>>

Checkout(h) ==
    /\ req[h].pc = "checkout"
    /\ charge' = [charge EXCEPT ![req[h].payment] = "open"]
    /\ req' = [req EXCEPT ![h].pc = "recognise"]
    /\ UNCHANGED <<subs, invoices, payments, now, revenue>>

(* createRevenueEvent, and the event cancelSubscription writes: amount 0.  *)
Recognise(h) ==
    /\ req[h].pc = "recognise"
    /\ revenue' = Append(revenue, [sub |-> req[h].sub, invoice |-> req[h].invoice,
                      type |-> EventType(req[h]), amount |-> Magnitude(req[h].amount)])
    /\ req' = [req EXCEPT ![h] = Idle]
    /\ UNCHANGED tables

(* An awaited call throws. *)
CallFails(h) ==
    /\ CallsFail
    /\ req[h].pc # "idle"
    /\ req' = [req EXCEPT ![h] = Idle]
    /\ UNCHANGED <<tables, revenue>>

MonthPasses ==
    /\ now < MaxNow
    /\ now' = now + 1
    /\ UNCHANGED <<subs, invoices, payments, charge, revenue, req>>

Start(h) ==
    \E o \in Orgs :
        \/ Renew(h, o)
        \/ Cancel(h, o)
        \/ \E t \in Tiers, i \in Intervals : Subscribe(h, o, t, i) \/ ChangePlan(h, o, t, i)

Continue(h) ==
    \/ CreateSubscription(h) \/ ExtendPeriod(h) \/ SwitchPlan(h) \/ EndSubscription(h)
    \/ NumberInvoice(h) \/ InsertInvoice(h) \/ RejectInvoice(h)
    \/ CreatePayment(h) \/ Checkout(h) \/ Recognise(h)

Next ==
    \/ MonthPasses
    \/ \E h \in Handlers : Start(h) \/ Continue(h) \/ CallFails(h)

Spec == Init /\ [][Next]_vars

(***************************************************************************)
(* Properties                                                              *)
(***************************************************************************)

Periodic == {"SUBSCRIPTION_STARTED", "SUBSCRIPTION_RENEWED"}

(* Recognised revenue is backed: a started or renewed subscription and a   *)
(* plan change that costs more have an invoice of that subscription, and   *)
(* no invoice is recognised twice, whatever fails or overlaps.  It is what *)
(* createRevenueEvent after createInvoiceForSubscription is for.           *)
RevenueBacked ==
    \A e \in DOMAIN revenue :
        LET r == revenue[e]
        IN  /\ r.sub \in DOMAIN subs
            /\ (r.type \in Periodic \/ (r.type = "UPGRADE" /\ r.amount > 0))
                   => r.invoice # 0
            /\ r.invoice # 0 =>
                   /\ r.invoice \in DOMAIN invoices
                   /\ invoices[r.invoice].sub = r.sub
                   /\ \A f \in DOMAIN revenue :
                          revenue[f].invoice = r.invoice => e = f

(* No period is billed twice: the invoices recognised as the start or a    *)
(* renewal of one subscription have different due dates, each the end of   *)
(* the period before (renewSubscription's nextStart).                      *)
NoPeriodBilledTwice ==
    \A e, f \in DOMAIN revenue :
        (/\ e # f
         /\ revenue[e].sub = revenue[f].sub
         /\ {revenue[e].type, revenue[f].type} \subseteq Periodic)
            => invoices[revenue[e].invoice].due # invoices[revenue[f].invoice].due

(* A canceled subscription is never current again: no renewal, plan change *)
(* or second cancellation reaches it (updates are by id, and only the read *)
(* before them looks at the status).                                       *)
CanceledStaysCanceled ==
    [][\A s \in DOMAIN subs :
           subs[s].status = "CANCELED" => subs'[s].status = "CANCELED"]_vars

(* A request that has been answered left nothing half done: every          *)
(* subscription has its SUBSCRIPTION_STARTED event, every invoice its      *)
(* event, and every invoice but a renewal's its open payment.              *)
NothingHalfDone ==
    Busy = {} =>
        /\ \A s \in DOMAIN subs : \E e \in DOMAIN revenue :
               revenue[e].sub = s /\ revenue[e].type = "SUBSCRIPTION_STARTED"
        /\ \A k \in DOMAIN invoices : \E e \in DOMAIN revenue :
               /\ revenue[e].invoice = k
               /\ revenue[e].type # "SUBSCRIPTION_RENEWED" =>
                      \E p \in DOMAIN payments :
                          payments[p].invoice = k /\ charge[p] # "none"

SumOf(s, type) ==
    MapThenSumSet(LAMBDA e : revenue[e].amount,
        {e \in DOMAIN revenue : revenue[e].sub = s /\ revenue[e].type = type})

(* The revenue events of a subscription add up: what it started at, plus   *)
(* the upgrades, minus the downgrades, is the price of the plan it has.    *)
(* Each event records a difference with the plan that changePlan read, so  *)
(* any update that is based on another plan breaks the sum.                *)
LedgerAddsUp ==
    Busy = {} =>
        \A s \in DOMAIN subs :
            SumOf(s, "SUBSCRIPTION_STARTED") + SumOf(s, "UPGRADE")
                - SumOf(s, "DOWNGRADE") = Price[subs[s].tier][subs[s].interval]

(* The requests of one organization do not overlap: what a lock on the     *)
(* organization's row would give, and what one user with one browser tab   *)
(* does.  The code does not enforce it; the properties above that hold of  *)
(* one request at a time are proved of any behaviour that keeps to it.     *)
Serialized ==
    \A g, h \in Busy : g # h => req[g].org # req[h].org
==============================================================================

---------------------------- MODULE BillingTables ----------------------------
(***************************************************************************)
(* The rows of the billing database that subscription.service.ts,          *)
(* invoice.service.ts and payment.service.ts share, and the time and the   *)
(* payment provider they look at.  Rows are only ever added, so a table is *)
(* a sequence and a row's id is its position: position order is createdAt  *)
(* order.  One step of a handler is one awaited call: a single Prisma call *)
(* is atomic, and nothing in the billing services opens a transaction.     *)
(***************************************************************************)
EXTENDS Integers, Sequences, FiniteSets

CONSTANTS
    Orgs,       \* organizations
    Tiers,      \* plan tiers
    Intervals   \* billing intervals

VARIABLES
    subs,       \* Subscription rows
    invoices,   \* Invoice rows
    payments,   \* Payment rows; a row's position stands for its reference
    charge,     \* the provider's own record of each payment (external)
    now         \* the current month

tables == <<subs, invoices, payments, charge, now>>

None == "none"

SubscriptionStatus == {"TRIAL", "ACTIVE", "PAST_DUE", "CANCELED"}
InvoiceStatus == {"ISSUED", "PAID"}
PaymentStatus == {"PENDING", "SUCCESS", "FAILED"}
ChargeStatus == {"none", "open", "success", "failed"}

(* `INV-${yyyymm}-${count}` is the pair of its month and its count. *)
InvoiceNumber == [month : Nat, count : Nat]

Subscription == [org : Orgs, tier : Tiers, interval : Intervals,
                 status : SubscriptionStatus, end : Nat]
Invoice == [org : Orgs, sub : Nat, number : InvoiceNumber, due : Nat,
            status : InvoiceStatus]
Payment == [invoice : Nat, sub : Nat, status : PaymentStatus]

TablesOK ==
    /\ subs \in Seq(Subscription)
    /\ invoices \in Seq(Invoice)
    /\ payments \in Seq(Payment)
    /\ charge \in Seq(ChargeStatus)
    /\ Len(charge) = Len(payments)
    /\ now \in Nat

EmptyTables ==
    /\ subs = <<>>
    /\ invoices = <<>>
    /\ payments = <<>>
    /\ charge = <<>>
    /\ now = 0

(* A faulty variant of the definition below it: see SubscriptionLifecycle. *)
BugCanceledIsCurrent == SubscriptionStatus

(* What getCurrentSubscription takes for a current subscription. *)
CurrentStatuses == {"ACTIVE", "PAST_DUE", "TRIAL"}

Current(o) ==
    {s \in DOMAIN subs : subs[s].org = o /\ subs[s].status \in CurrentStatuses}

(* Its findFirst, newest createdAt first. *)
Newest(o) == CHOOSE s \in Current(o) : \A t \in Current(o) : t <= s

(* The invoices that generateInvoiceNumber counts. *)
Numbered(o, m) ==
    {k \in DOMAIN invoices : invoices[k].org = o /\ invoices[k].number.month = m}

(***************************************************************************)
(* Properties of the tables that more than one run checks.                 *)
(***************************************************************************)

(* createSubscription: 'Organization already has an active subscription'.  *)
(* An organization never has two current subscriptions, although           *)
(* createSubscription only looks before it writes and payment results      *)
(* rewrite the status later.                                               *)
OneCurrent == \A o \in Orgs : Cardinality(Current(o)) <= 1

(* The numbers of an organization's invoices of a month are exactly 1..n:  *)
(* no gap and no repetition, although generateInvoiceNumber counts in one  *)
(* call and the row is created in another, with anything in between.       *)
InvoiceNumbersGapFree ==
    \A o \in Orgs, m \in 0..now :
        {invoices[k].number.count : k \in Numbered(o, m)}
            = 1..Cardinality(Numbered(o, m))

(* A payment settles exactly one invoice, of its own subscription and that *)
(* subscription's organization: what markInvoicePaid and the status update *)
(* of verifyPayment rely on when they follow the row's two ids.            *)
PaymentsLinked ==
    \A p \in DOMAIN payments :
        /\ payments[p].invoice \in DOMAIN invoices
        /\ payments[p].sub \in DOMAIN subs
        /\ invoices[payments[p].invoice].sub = payments[p].sub
        /\ invoices[payments[p].invoice].org = subs[payments[p].sub].org
        /\ \A q \in DOMAIN payments :
               payments[q].invoice = payments[p].invoice => p = q
==============================================================================

---------------------------- MODULE BillingProofs ----------------------------
(***************************************************************************)
(* Proofs about Billing, the handlers and the workers over one set of      *)
(* tables.  Both components have been proved about on their own, each with *)
(* an inductive invariant: these are used here as they stand.  What is     *)
(* left to show is that a step of one component keeps the invariant of the *)
(* other, and the two halves of that are the lemmas TablesWritten (of the  *)
(* handlers) and WorkersWritten (of the workers), proved beside them: each *)
(* says what a step of the component may do to the tables they share.      *)
(*                                                                         *)
(* Billing instantiates the components as Lifecycle and Reconciliation;    *)
(* the modules of proofs extend the same components and are instantiated   *)
(* below as L and R.  A definition therefore comes in two copies, equal    *)
(* word for word but with two names for the prover: the lemmas Same... say *)
(* of each of them that the copies are equal.                              *)
(***************************************************************************)
EXTENDS Billing, FiniteSetTheorems, SequenceTheorems, TLAPS

L == INSTANCE SubscriptionLifecycleProofs
R == INSTANCE PaymentReconciliationProofs

(***************************************************************************)
(* The two copies of a definition are equal                                *)
(***************************************************************************)

(* The variables, the tables and a request that is not there.              *)
LEMMA SameWords ==
  /\ Lifecycle!tables = L!tables
  /\ Lifecycle!None = L!None
  /\ Lifecycle!Idle = L!Idle
BY DEF Lifecycle!tables, L!tables, Lifecycle!None, L!None, Lifecycle!Idle, L!Idle

LEMMA SameWorkWords ==
  /\ Reconciliation!tables = R!tables
  /\ Reconciliation!Idle = R!Idle
BY DEF Reconciliation!tables, R!tables, Reconciliation!Idle, R!Idle

LEMMA SameVars ==
  /\ L!None = None
  /\ Lifecycle!vars = L!vars
  /\ Reconciliation!vars = R!vars
BY DEF Lifecycle!vars, L!vars, Reconciliation!vars, R!vars, L!None, None

(* The types of the rows.                                                  *)
LEMMA SameTables ==
  /\ Lifecycle!TablesOK <=> TablesOK
  /\ Reconciliation!TablesOK <=> TablesOK
  /\ L!TablesOK <=> TablesOK
  /\ R!TablesOK <=> TablesOK
BY DEF
  TablesOK, L!TablesOK, R!TablesOK, Lifecycle!TablesOK, Reconciliation!TablesOK,
  Subscription, L!Subscription, R!Subscription,
  Lifecycle!Subscription, Reconciliation!Subscription,
  Invoice, L!Invoice, R!Invoice, Lifecycle!Invoice, Reconciliation!Invoice,
  Payment, L!Payment, R!Payment, Lifecycle!Payment, Reconciliation!Payment,
  InvoiceNumber, L!InvoiceNumber, R!InvoiceNumber,
  Lifecycle!InvoiceNumber, Reconciliation!InvoiceNumber,
  SubscriptionStatus, L!SubscriptionStatus, R!SubscriptionStatus,
  Lifecycle!SubscriptionStatus, Reconciliation!SubscriptionStatus,
  InvoiceStatus, L!InvoiceStatus, R!InvoiceStatus,
  Lifecycle!InvoiceStatus, Reconciliation!InvoiceStatus,
  PaymentStatus, L!PaymentStatus, R!PaymentStatus,
  Lifecycle!PaymentStatus, Reconciliation!PaymentStatus,
  ChargeStatus, L!ChargeStatus, R!ChargeStatus,
  Lifecycle!ChargeStatus, Reconciliation!ChargeStatus

(* The subscription a request acts on.                                     *)
LEMMA SameCurrent ==
  ASSUME NEW o
  PROVE  Lifecycle!Current(o) = L!Current(o)
BY DEF Lifecycle!Current, L!Current, Lifecycle!CurrentStatuses, L!CurrentStatuses

LEMMA SameHas ==
  ASSUME NEW o
  PROVE  Lifecycle!HasCurrent(o) <=> L!HasCurrent(o)
BY SameCurrent DEF Lifecycle!HasCurrent, L!HasCurrent

LEMMA SameNewest ==
  ASSUME NEW o
  PROVE  Lifecycle!Newest(o) = L!Newest(o)
BY SameCurrent, Zenon DEF Lifecycle!Newest, L!Newest

LEMMA SameCard ==
  ASSUME NEW S
  PROVE  Lifecycle!Cardinality(S) = L!Cardinality(S)
BY Zenon DEF Lifecycle!Cardinality, L!Cardinality, Lifecycle!IsFiniteSet, L!IsFiniteSet

LEMMA SameAccepts ==
  ASSUME NEW h
  PROVE  (Lifecycle!Accepts(h) <=> L!Accepts(h)) /\ Lifecycle!Busy = L!Busy
BY SameCard DEF Lifecycle!Accepts, L!Accepts, Lifecycle!Busy, L!Busy

(* The requests.                                                           *)
LEMMA SameRenew ==
  ASSUME NEW h, NEW o
  PROVE  Lifecycle!Renew(h, o) <=> L!Renew(h, o)
BY SameWords, SameHas, SameNewest, SameAccepts
DEF Lifecycle!Renew, L!Renew, Lifecycle!tables, L!tables

LEMMA SameCancel ==
  ASSUME NEW h, NEW o
  PROVE  Lifecycle!Cancel(h, o) <=> L!Cancel(h, o)
BY SameWords, SameHas, SameNewest, SameAccepts
DEF Lifecycle!Cancel, L!Cancel, Lifecycle!tables, L!tables

LEMMA SameChange ==
  ASSUME NEW h, NEW o, NEW t, NEW i
  PROVE  Lifecycle!ChangePlan(h, o, t, i) <=> L!ChangePlan(h, o, t, i)
BY SameWords, SameHas, SameNewest, SameAccepts
DEF Lifecycle!ChangePlan, L!ChangePlan, Lifecycle!tables, L!tables,
    Lifecycle!PriceDifference, L!PriceDifference

LEMMA SameSubscribe ==
  ASSUME NEW h, NEW o, NEW t, NEW i
  PROVE  Lifecycle!Subscribe(h, o, t, i) <=> L!Subscribe(h, o, t, i)
BY SameWords, SameHas, SameCard, SameAccepts
DEF Lifecycle!Subscribe, L!Subscribe, Lifecycle!tables, L!tables

LEMMA SameStart ==
  ASSUME NEW h
  PROVE  Lifecycle!Start(h) <=> L!Start(h)
BY SameRenew, SameCancel, SameChange, SameSubscribe DEF Lifecycle!Start, L!Start

(* Their further steps.                                                    *)
LEMMA SameNumber ==
  ASSUME NEW h
  PROVE  Lifecycle!NumberInvoice(h) <=> L!NumberInvoice(h)
<1>1. ASSUME NEW o, NEW m PROVE Lifecycle!Numbered(o, m) = L!Numbered(o, m)
  BY DEF Lifecycle!Numbered, L!Numbered
<1>2. ASSUME NEW o, NEW m PROVE Lifecycle!NextCount(o, m) = L!NextCount(o, m)
  BY <1>1, SameCard DEF Lifecycle!NextCount, L!NextCount
<1> QED
  BY SameWords, <1>2
  DEF Lifecycle!NumberInvoice, L!NumberInvoice, Lifecycle!tables, L!tables

LEMMA SameContinue ==
  ASSUME NEW h
  PROVE  Lifecycle!Continue(h) <=> L!Continue(h)
<1>1. Lifecycle!CreateSubscription(h) <=> L!CreateSubscription(h)
  BY DEF Lifecycle!CreateSubscription, L!CreateSubscription,
         Lifecycle!PeriodEnd, L!PeriodEnd
<1>2. Lifecycle!ExtendPeriod(h) <=> L!ExtendPeriod(h)
  BY DEF Lifecycle!ExtendPeriod, L!ExtendPeriod, Lifecycle!PeriodEnd, L!PeriodEnd
<1>3. Lifecycle!SwitchPlan(h) <=> L!SwitchPlan(h)
  BY DEF Lifecycle!SwitchPlan, L!SwitchPlan, Lifecycle!Billable, L!Billable
<1>4. Lifecycle!EndSubscription(h) <=> L!EndSubscription(h)
  BY DEF Lifecycle!EndSubscription, L!EndSubscription
<1>5. Lifecycle!InsertInvoice(h) <=> L!InsertInvoice(h)
  BY DEF Lifecycle!InsertInvoice, L!InsertInvoice, Lifecycle!NumberTaken, L!NumberTaken,
         Lifecycle!AfterInvoice, L!AfterInvoice
<1>6. Lifecycle!RejectInvoice(h) <=> L!RejectInvoice(h)
  BY SameWords
  DEF Lifecycle!RejectInvoice, L!RejectInvoice, Lifecycle!tables, L!tables,
      Lifecycle!NumberTaken, L!NumberTaken
<1>7. Lifecycle!CreatePayment(h) <=> L!CreatePayment(h)
  BY DEF Lifecycle!CreatePayment, L!CreatePayment, Lifecycle!NewPayment, L!NewPayment
<1>8. Lifecycle!Checkout(h) <=> L!Checkout(h)
  BY DEF Lifecycle!Checkout, L!Checkout
<1>9. Lifecycle!Recognise(h) <=> L!Recognise(h)
  BY SameWords
  DEF Lifecycle!Recognise, L!Recognise, Lifecycle!tables, L!tables,
      Lifecycle!Magnitude, L!Magnitude, Lifecycle!EventType, L!EventType
<1> QED
  BY <1>1, <1>2, <1>3, <1>4, <1>5, <1>6, <1>7, <1>8, <1>9, SameNumber
  DEF Lifecycle!Continue, L!Continue

LEMMA SameLifecycle ==
  /\ Lifecycle!Init <=> L!Init
  /\ Lifecycle!Next <=> L!Next
  /\ Lifecycle!TypeOK <=> L!TypeOK
<1>1. Lifecycle!Init <=> L!Init
  BY SameWords DEF Lifecycle!Init, L!Init, Lifecycle!EmptyTables, L!EmptyTables
<1>2. Lifecycle!Next <=> L!Next
  <2>1. \A h : Lifecycle!CallFails(h) <=> L!CallFails(h)
    BY SameWords DEF Lifecycle!CallFails, L!CallFails, Lifecycle!tables, L!tables
  <2> QED
    BY <2>1, SameStart, SameContinue, SameWords
    DEF Lifecycle!Next, L!Next, Lifecycle!MonthPasses, L!MonthPasses
<1>3. Lifecycle!TypeOK <=> L!TypeOK
  BY SameTables, SameWords
  DEF Lifecycle!TypeOK, L!TypeOK, Lifecycle!Request, L!Request, Lifecycle!Pc, L!Pc,
      Lifecycle!Op, L!Op, Lifecycle!RevenueEvent, L!RevenueEvent,
      Lifecycle!RevenueType, L!RevenueType, Lifecycle!InvoiceNumber, L!InvoiceNumber
<1> QED
  BY <1>1, <1>2, <1>3

(* The same of the workers: what a job works on, its steps, its component. *)
LEMMA SameWork ==
  ASSUME NEW w
  PROVE  /\ Reconciliation!EventOf(w) = R!EventOf(w)
         /\ Reconciliation!IsWebhook(w) <=> R!IsWebhook(w)
         /\ Reconciliation!Finish(w) <=> R!Finish(w)
         /\ \A pc : Reconciliation!Goto(w, pc) <=> R!Goto(w, pc)
         /\ Reconciliation!Return(w) <=> R!Return(w)
<1>1. Reconciliation!EventOf(w) = R!EventOf(w)
  BY DEF Reconciliation!EventOf, R!EventOf
<1>2. Reconciliation!IsWebhook(w) <=> R!IsWebhook(w)
  BY DEF Reconciliation!IsWebhook, R!IsWebhook
<1>3. Reconciliation!Finish(w) <=> R!Finish(w)
  BY SameWorkWords DEF Reconciliation!Finish, R!Finish
<1>4. \A pc : Reconciliation!Goto(w, pc) <=> R!Goto(w, pc)
  BY DEF Reconciliation!Goto, R!Goto
<1>5. Reconciliation!Return(w) <=> R!Return(w)
  BY <1>2, <1>3, <1>4 DEF Reconciliation!Return, R!Return
<1> QED
  BY <1>1, <1>2, <1>3, <1>4, <1>5

LEMMA SameReceive == ASSUME NEW w PROVE Reconciliation!Receive(w) <=> R!Receive(w)
<1>1. \A r : Reconciliation!Verify(w, r) <=> R!Verify(w, r)
  BY SameWorkWords DEF Reconciliation!Verify, R!Verify, Reconciliation!tables, R!tables
<1>2. \A e : Reconciliation!Emitted(e) <=> R!Emitted(e)
  BY DEF Reconciliation!Emitted, R!Emitted
<1>3. \A e : Reconciliation!Deliver(w, e) <=> R!Deliver(w, e)
  BY <1>2, SameWorkWords
  DEF Reconciliation!Deliver, R!Deliver, Reconciliation!tables, R!tables
<1> QED
  BY <1>1, <1>3 DEF Reconciliation!Receive, R!Receive

LEMMA SameStep == ASSUME NEW w PROVE Reconciliation!Step(w) <=> R!Step(w)
<1> USE DEF Reconciliation!tables, R!tables
<1>1. Reconciliation!MarkProcessing(w) <=> R!MarkProcessing(w)
  BY SameWork
  DEF Reconciliation!MarkProcessing, R!MarkProcessing, Reconciliation!CreateClash,
      R!CreateClash, Reconciliation!Processing, R!Processing
<1>2. Reconciliation!AskProvider(w) <=> R!AskProvider(w)
  <2>1. \A r : Reconciliation!Said(r) = R!Said(r)
    BY DEF Reconciliation!Said, R!Said
  <2> QED
    BY <2>1 DEF Reconciliation!AskProvider, R!AskProvider
<1>3. Reconciliation!FindPayment(w) <=> R!FindPayment(w)
  BY SameWork
  DEF Reconciliation!FindPayment, R!FindPayment, Reconciliation!AlreadySettled,
      R!AlreadySettled, Reconciliation!Collected, R!Collected
<1>4. Reconciliation!SettlePayment(w) <=> R!SettlePayment(w)
  BY SameWork
  DEF Reconciliation!SettlePayment, R!SettlePayment, Reconciliation!AfterSettle,
      R!AfterSettle
<1>5. Reconciliation!MarkInvoicePaid(w) <=> R!MarkInvoicePaid(w)
  BY SameWork DEF Reconciliation!MarkInvoicePaid, R!MarkInvoicePaid
<1>6. Reconciliation!Activate(w) <=> R!Activate(w)
  BY SameWork DEF Reconciliation!Activate, R!Activate, Reconciliation!SetStatus, R!SetStatus
<1>7. Reconciliation!RefusePayment(w) <=> R!RefusePayment(w)
  BY SameWork
  DEF Reconciliation!RefusePayment, R!RefusePayment, Reconciliation!Refused, R!Refused
<1>8. Reconciliation!MarkPastDue(w) <=> R!MarkPastDue(w)
  BY SameWork
  DEF Reconciliation!MarkPastDue, R!MarkPastDue, Reconciliation!SetStatus, R!SetStatus
<1>9. Reconciliation!CancelByProvider(w) <=> R!CancelByProvider(w)
  BY SameWork DEF Reconciliation!CancelByProvider, R!CancelByProvider
<1>10. Reconciliation!MarkProcessed(w) <=> R!MarkProcessed(w)
  BY SameWork DEF Reconciliation!MarkProcessed, R!MarkProcessed
<1>11. Reconciliation!MarkFailed(w) <=> R!MarkFailed(w)
  BY SameWork DEF Reconciliation!MarkFailed, R!MarkFailed
<1> QED
  BY <1>1, <1>2, <1>3, <1>4, <1>5, <1>6, <1>7, <1>8, <1>9, <1>10, <1>11
  DEF Reconciliation!Step, R!Step

LEMMA SameReconciliation ==
  /\ Reconciliation!InitWork <=> R!InitWork
  /\ Reconciliation!Next <=> R!Next
  /\ Reconciliation!TypeOK <=> R!TypeOK
  /\ Reconciliation!PaidOnlyIfCollected <=> R!PaidOnlyIfCollected
<1>1. Reconciliation!InitWork <=> R!InitWork
  BY SameWorkWords DEF Reconciliation!InitWork, R!InitWork
<1>2. Reconciliation!Next <=> R!Next
  <2> USE DEF Reconciliation!tables, R!tables
  <2>1. \A p, outcome : Reconciliation!Settle(p, outcome) <=> R!Settle(p, outcome)
    BY DEF Reconciliation!Settle, R!Settle
  <2>2. \A w : Reconciliation!CallFails(w) <=> R!CallFails(w)
    BY SameWork DEF Reconciliation!CallFails, R!CallFails
  <2>3. Reconciliation!Restart <=> R!Restart
    BY SameWorkWords DEF Reconciliation!Restart, R!Restart
  <2> QED
    BY <2>1, <2>2, <2>3, SameReceive, SameStep DEF Reconciliation!Next, R!Next
<1>3. Reconciliation!TypeOK <=> R!TypeOK
  BY SameTables
  DEF Reconciliation!TypeOK, R!TypeOK, Reconciliation!HookStatus, R!HookStatus,
     Reconciliation!Work, R!Work, Reconciliation!Pc, R!Pc, Reconciliation!Kinds, R!Kinds,
     Reconciliation!Answer, R!Answer
<1>4. Reconciliation!PaidOnlyIfCollected <=> R!PaidOnlyIfCollected
  BY DEF Reconciliation!PaidOnlyIfCollected, R!PaidOnlyIfCollected
<1> QED
  BY <1>1, <1>2, <1>3, <1>4

(* The rows' own properties, as each component states them.                *)
LEMMA SameRows ==
  /\ L!PaymentsLinked <=> PaymentsLinked
  /\ R!PaymentsLinked <=> PaymentsLinked
  /\ L!RevenueBacked <=> Lifecycle!RevenueBacked
BY DEF PaymentsLinked, L!PaymentsLinked, R!PaymentsLinked, Lifecycle!RevenueBacked,
       L!RevenueBacked, Lifecycle!Periodic, L!Periodic

(* The same of the next state.                                             *)
LEMMA SameAfter ==
  /\ L!TablesOK' <=> TablesOK'
  /\ R!TablesOK' <=> TablesOK'
  /\ L!PaymentsLinked' <=> PaymentsLinked'
  /\ R!PaymentsLinked' <=> PaymentsLinked'
BY SameTables, SameRows, PTL

(***************************************************************************)
(* The components' steps and the components' invariants                    *)
(***************************************************************************)

LifecycleInv == L!TypeInv /\ L!NumberingInv /\ L!BackInv /\ L!ChecksInv

BillingInv == LifecycleInv /\ R!RecInv /\ PastDueOnlyIfRefused

LEMMA InitBilling == Init => BillingInv
<1> SUFFICES ASSUME Init PROVE BillingInv
  OBVIOUS
<1>1. L!Init /\ R!InitWork
  BY SameLifecycle, SameReconciliation DEF Init
<1>2. LifecycleInv
  <2>1. L!None = None
    BY SameVars
  <2> QED
    BY <1>1, <2>1, L!InitTyped, L!InitNumbering, L!InitBacked, L!InitChecks,
       BillingAssumption
    DEF LifecycleInv
<1>3. subs = <<>> /\ invoices = <<>> /\ payments = <<>> /\ charge = <<>>
  BY <1>1 DEF L!Init, L!EmptyTables
<1>4. R!RecInv
  <2>1. R!TypeOK
    <3>1. R!TablesOK
      BY <1>2, SameTables DEF LifecycleInv, L!TypeInv, L!TypeOK
    <3>2. R!Idle \in R!Work
      BY DEF R!Idle, R!Work, R!Pc, R!HookStatus, R!Answer
    <3> QED
      BY <1>1, <3>1, <3>2 DEF R!InitWork, R!TypeOK, R!HookStatus
  <2>2. R!Requests
    BY <1>1 DEF R!InitWork, R!Requests, R!RequestOK, R!Idle
  <2>3. R!PaymentsLinked /\ R!PaidOnlyIfCollected
    BY <1>3 DEF R!PaymentsLinked, R!PaidOnlyIfCollected
  <2> QED
    BY <2>1, <2>2, <2>3 DEF R!RecInv
<1>5. PastDueOnlyIfRefused
  BY <1>3 DEF PastDueOnlyIfRefused
<1> QED
  BY <1>2, <1>4, <1>5 DEF BillingInv

(* A handler's step: the workers know no more than before of the charges,  *)
(* and what they know stays so.                                            *)
LEMMA LifecycleStep ==
  ASSUME BillingInv, [L!Next]_(L!vars), UNCHANGED <<hook, acked, work, faults>>
  PROVE  BillingInv'
<1>1. L!None = None
  BY SameVars
<1>2. LifecycleInv'
  <2>1. L!TypeInv'
    BY <1>1, L!StepTyped, BillingAssumption DEF BillingInv, LifecycleInv
  <2>2. L!NumberingInv'
    BY <1>1, L!StepNumbered, BillingAssumption DEF BillingInv, LifecycleInv
  <2>3. L!BackInv'
    BY <1>1, <2>1, L!StepBacked, BillingAssumption DEF BillingInv, LifecycleInv
  <2>4. L!ChecksInv'
    BY <1>1, L!StepChecks, BillingAssumption DEF BillingInv, LifecycleInv
  <2> QED
    BY <2>1, <2>2, <2>3, <2>4 DEF LifecycleInv
<1>3. L!TablesWritten
  BY <1>1, L!StepWrites, BillingAssumption DEF BillingInv, LifecycleInv
<1>4. TablesOK /\ TablesOK'
  BY <1>2, SameTables, SameAfter DEF BillingInv, LifecycleInv, L!TypeInv, L!TypeOK
<1>5. /\ DOMAIN charge = DOMAIN payments
      /\ DOMAIN charge' = DOMAIN payments'
      /\ \A p \in DOMAIN payments : charge[p] # "none" => charge'[p] = charge[p]
  BY <1>3, <1>4 DEF TablesOK, L!TablesWritten
<1>6. R!RecInv'
  <2>1. R!TypeOK'
    <3>1. R!TablesOK'
      BY <1>4, SameAfter
    <3> QED
      BY <3>1 DEF BillingInv, R!RecInv, R!TypeOK
  <2>2. R!Requests'
    <3> SUFFICES ASSUME NEW w \in Workers PROVE R!RequestOK(work[w])'
      BY DEF R!Requests
    <3>1. R!RequestOK(work[w]) /\ work'[w] = work[w] /\ work[w].answer \in R!Answer
      BY DEF BillingInv, R!RecInv, R!TypeOK, R!Requests, R!Work
    <3>2. DOMAIN payments \subseteq DOMAIN payments'
      BY <1>3 DEF L!TablesWritten
    <3> QED
      BY <1>5, <3>1, <3>2 DEF R!RequestOK, R!Answer
  <2>3. R!PaymentsLinked'
    BY <1>2, SameAfter DEF LifecycleInv, L!BackInv
  <2>4. R!PaidOnlyIfCollected'
    <3>1. R!PaidOnlyIfCollected
      BY DEF BillingInv, R!RecInv
    <3>2. ASSUME NEW p \in DOMAIN payments'
          PROVE  /\ payments'[p].status = "SUCCESS" => charge'[p] = "success"
                 /\ payments'[p].status = "FAILED" => charge'[p] = "failed"
      BY <1>3, <1>5, <3>1 DEF L!TablesWritten, R!PaidOnlyIfCollected
    <3>3. ASSUME NEW k \in DOMAIN invoices', invoices'[k].status = "PAID"
          PROVE  \E p \in DOMAIN payments' :
                     payments'[p].invoice = k /\ charge'[p] = "success"
      <4>1. k \in DOMAIN invoices /\ invoices'[k] = invoices[k]
        BY <1>3, <3>3 DEF L!TablesWritten
      <4>2. PICK p \in DOMAIN payments : payments[p].invoice = k /\ charge[p] = "success"
        BY <3>1, <3>3, <4>1 DEF R!PaidOnlyIfCollected
      <4>3. p \in DOMAIN payments' /\ payments'[p] = payments[p] /\ charge'[p] = charge[p]
        BY <1>3, <1>5, <4>2 DEF L!TablesWritten
      <4> QED
        BY <4>2, <4>3
    <3> QED
      BY <3>2, <3>3 DEF R!PaidOnlyIfCollected
  <2> QED
    BY <2>1, <2>2, <2>3, <2>4 DEF R!RecInv
<1>7. PastDueOnlyIfRefused'
  <2> SUFFICES ASSUME NEW s \in DOMAIN subs', subs'[s].status = "PAST_DUE"
               PROVE  \E p \in DOMAIN payments' :
                          payments'[p].sub = s /\ charge'[p] = "failed"
    BY DEF PastDueOnlyIfRefused
  <2>1. s \in DOMAIN subs /\ subs'[s] = subs[s]
    BY <1>3 DEF L!TablesWritten
  <2>2. PICK p \in DOMAIN payments : payments[p].sub = s /\ charge[p] = "failed"
    BY <2>1 DEF BillingInv, PastDueOnlyIfRefused
  <2>3. p \in DOMAIN payments' /\ payments'[p] = payments[p] /\ charge'[p] = charge[p]
    BY <1>3, <1>5, <2>2 DEF L!TablesWritten
  <2> QED
    BY <2>2, <2>3
<1> QED
  BY <1>2, <1>6, <1>7 DEF BillingInv

(* A worker's step: no row is added and no link rewritten, so the handlers *)
(* still hold what they held.                                              *)
LEMMA ReconciliationStep ==
  ASSUME BillingInv, [R!Next]_(R!vars), UNCHANGED <<revenue, req>>
  PROVE  BillingInv'
<1>1. R!RecInv'
  BY R!StepInv, BillingAssumption DEF BillingInv, R!Kinds
<1>2. R!WorkersWritten
  BY R!WorkersWrite, BillingAssumption DEF BillingInv, R!Kinds
<1>3. /\ now' = now
      /\ DOMAIN subs' = DOMAIN subs /\ DOMAIN invoices' = DOMAIN invoices
      /\ DOMAIN payments' = DOMAIN payments
      /\ \A s \in DOMAIN subs : subs'[s].org = subs[s].org
      /\ \A k \in DOMAIN invoices :
             /\ invoices'[k].org = invoices[k].org /\ invoices'[k].sub = invoices[k].sub
             /\ invoices'[k].number = invoices[k].number
      /\ \A p \in DOMAIN payments :
             /\ payments'[p].invoice = payments[p].invoice
             /\ payments'[p].sub = payments[p].sub
             /\ charge[p] # "open" => charge'[p] = charge[p]
  BY <1>2 DEF R!WorkersWritten
<1>4. L!TypeInv'
  <2>1. L!TablesOK'
    BY <1>1, SameAfter DEF R!RecInv, R!TypeOK
  <2> QED
    BY <1>3, <2>1 DEF BillingInv, LifecycleInv, L!TypeInv, L!TypeOK, L!Located
<1>5. L!NumberingInv'
  <2>1. \A o, m : L!Of(invoices', o, m) = L!Of(invoices, o, m)
    BY <1>3 DEF L!Of
  <2>2. \A o, m : /\ L!Counts(invoices', o, m) = L!Counts(invoices, o, m)
                  /\ L!Many(invoices', o, m) = L!Many(invoices, o, m)
    <3>1. \A o, m : L!Many(invoices', o, m) = L!Many(invoices, o, m)
      BY <2>1 DEF L!Many
    <3>2. \A o, m : L!Counts(invoices', o, m) = L!Counts(invoices, o, m)
      BY <1>3, <2>1 DEF L!Counts, L!Of
    <3> QED
      BY <3>1, <3>2
  <2>3. req' = req /\ L!NumberingInv
    BY DEF BillingInv, LifecycleInv
  <2> QED
    BY <2>2, <2>3 DEF L!NumberingInv
<1>6. L!BackInv'
  <2>1. L!PaymentsLinked'
    BY <1>1, SameAfter DEF R!RecInv
  <2>2. L!RevenueBacked'
    <3>1. L!RevenueBacked /\ revenue' = revenue
      BY DEF BillingInv, LifecycleInv, L!BackInv
    <3> QED
      BY <1>3, <3>1 DEF L!RevenueBacked
  <2>3. \A h \in Handlers : L!Backs(req[h])'
    <3> SUFFICES ASSUME NEW h \in Handlers PROVE L!Backs(req[h])'
      OBVIOUS
    <3>1. L!Backs(req[h]) /\ req'[h] = req[h] /\ revenue' = revenue
      BY DEF BillingInv, LifecycleInv, L!BackInv
    <3>2. req[h].pc \notin {"idle", "create"} => req[h].sub \in DOMAIN subs
      BY DEF BillingInv, LifecycleInv, L!TypeInv, L!Located
    <3> QED
      BY <1>3, <3>1, <3>2 DEF L!Backs
  <2>4. req' = req /\ L!BackInv
    BY DEF BillingInv, LifecycleInv
  <2> QED
    BY <2>1, <2>2, <2>3, <2>4 DEF L!BackInv
<1>7. L!ChecksInv'
  <2>1. req' = req /\ L!ChecksInv
    BY DEF BillingInv, LifecycleInv
  <2> QED
    BY <1>3, <2>1 DEF L!ChecksInv, L!Checks
<1>8. PastDueOnlyIfRefused'
  <2> SUFFICES ASSUME NEW s \in DOMAIN subs, subs'[s].status = "PAST_DUE"
               PROVE  \E p \in DOMAIN payments :
                          payments'[p].sub = s /\ charge'[p] = "failed"
    BY <1>3 DEF PastDueOnlyIfRefused
  <2>1. PICK p \in DOMAIN payments : payments[p].sub = s /\ charge[p] = "failed"
    BY <1>2 DEF BillingInv, PastDueOnlyIfRefused, R!WorkersWritten
  <2> QED
    BY <1>3, <2>1
<1> QED
  BY <1>1, <1>4, <1>5, <1>6, <1>7, <1>8 DEF BillingInv, LifecycleInv

LEMMA StepBilling == BillingInv /\ [Next]_vars => BillingInv'
<1> SUFFICES ASSUME BillingInv, [Next]_vars PROVE BillingInv'
  OBVIOUS
<1>1. CASE Lifecycle!Next /\ UNCHANGED <<hook, acked, work, faults>>
  BY <1>1, LifecycleStep, SameLifecycle
<1>2. CASE Reconciliation!Next /\ UNCHANGED <<revenue, req>>
  BY <1>2, ReconciliationStep, SameReconciliation
<1>3. CASE UNCHANGED vars
  <2>1. /\ UNCHANGED <<subs, invoices, payments, charge, now, revenue, req>>
        /\ UNCHANGED <<hook, acked, work, faults>>
    BY <1>3 DEF vars, tables
  <2>2. UNCHANGED L!vars
    BY <2>1 DEF L!vars
  <2> QED
    BY <2>1, <2>2, LifecycleStep
<1> QED
  BY <1>1, <1>2, <1>3 DEF Next

(***************************************************************************)
(* The theorems                                                            *)
(***************************************************************************)

(* Every variable of the billing module keeps its type while handlers and  *)
(* workers run over the same tables (subscription.service.ts,              *)
(* payment.service.ts).                                                    *)
THEOREM TypeCorrect == Spec => []TypeOK
<1>1. BillingInv => TypeOK
  BY SameLifecycle, SameReconciliation
  DEF BillingInv, LifecycleInv, L!TypeInv, R!RecInv, TypeOK
<1> QED
  BY <1>1, InitBilling, StepBilling, PTL DEF Spec

(* Whatever subscriptions are made, changed and canceled meanwhile, a      *)
(* payment is booked and an invoice paid only as the provider settled the  *)
(* charge (payment.service.ts:57-111).                                     *)
THEOREM PaidIsCollected == Spec => []PaidOnlyIfCollected
<1>1. BillingInv => PaidOnlyIfCollected
  BY SameReconciliation DEF BillingInv, R!RecInv, PaidOnlyIfCollected
<1> QED
  BY <1>1, InitBilling, StepBilling, PTL DEF Spec

(* A subscription goes past due only over a refused payment of its own,    *)
(* however its status is rewritten by handlers and workers that overlap    *)
(* (payment.service.ts:104-107, subscription.service.ts:94-215).           *)
THEOREM PastDueIsRefused == Spec => []PastDueOnlyIfRefused
<1>1. BillingInv => PastDueOnlyIfRefused
  BY DEF BillingInv
<1> QED
  BY <1>1, InitBilling, StepBilling, PTL DEF Spec

(* What the components' theorems say of each alone holds of the two        *)
(* together: payments and revenue rest on invoices, and the numbers of     *)
(* invoices have no gap (invoice.service.ts:13-33, payment.service.ts).    *)
THEOREM RowsStayLinked ==
  Spec => [](PaymentsLinked /\ InvoiceNumbersGapFree /\ Lifecycle!RevenueBacked)
<1>1. BillingInv => PaymentsLinked /\ Lifecycle!RevenueBacked
  BY SameRows DEF BillingInv, LifecycleInv, L!BackInv
<1>2. BillingInv => InvoiceNumbersGapFree
  <2> SUFFICES ASSUME BillingInv, NEW o \in Orgs, NEW m \in 0..now
               PROVE  {invoices[k].number.count : k \in Numbered(o, m)}
                          = 1..Cardinality(Numbered(o, m))
    BY DEF InvoiceNumbersGapFree
  <2>1. m \in Nat
    BY DEF BillingInv, R!RecInv, R!TypeOK, R!TablesOK
  <2>2. Numbered(o, m) = L!Of(invoices, o, m)
    BY DEF Numbered, L!Of
  <2>3. Cardinality(Numbered(o, m)) = L!Many(invoices, o, m)
    <3>1. \A S : Cardinality(S) = L!Cardinality(S)
      BY Zenon DEF Cardinality, L!Cardinality, IsFiniteSet, L!IsFiniteSet
    <3> QED
      BY <2>2, <3>1 DEF L!Many
  <2> QED
    BY <2>1, <2>2, <2>3 DEF BillingInv, LifecycleInv, L!NumberingInv, L!Counts
<1> QED
  BY <1>1, <1>2, InitBilling, StepBilling, PTL DEF Spec
==============================================================================

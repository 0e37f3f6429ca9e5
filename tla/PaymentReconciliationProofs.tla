--------------------- MODULE PaymentReconciliationProofs ---------------------
(***************************************************************************)
(* Theorems about PaymentReconciliation, for any workers, events,          *)
(* references and payments, and any number of faults.                      *)
(***************************************************************************)
EXTENDS PaymentReconciliation, SequenceTheorems, TLAPS

(***************************************************************************)
(* The inductive invariant: what a worker is doing rests on what the       *)
(* provider has said, which it never takes back.                           *)
(***************************************************************************)

RequestOK(r) ==
    /\ r.kind # "verify" /\ r.pc # "idle" =>
           [kind |-> r.kind, ref |-> r.ref] \in Events /\ r.ref \in DOMAIN charge
    /\ r.pc \in {"mark", "processed", "failed", "cancel"} => r.kind # "verify"
    /\ r.pc \in {"settle", "paid", "activate", "refuse", "pastdue"} =>
           r.ref \in DOMAIN payments
    /\ r.pc \in {"settle", "paid", "activate"} => r.answer = "success"
    /\ r.pc = "pastdue" => r.answer = "failed"
    /\ r.answer # "pending" =>
           r.ref \in DOMAIN charge /\ charge[r.ref] = r.answer

Requests == \A w \in Workers : RequestOK(work[w])

RecInv == TypeOK /\ Requests /\ PaymentsLinked /\ PaidOnlyIfCollected

(* Rows are updated in place. *)
LEMMA UpdateRow ==
  ASSUME NEW R, NEW s \in Seq(R), NEW k \in DOMAIN s, NEW r \in R
  PROVE  /\ [s EXCEPT ![k] = r] \in Seq(R)
         /\ DOMAIN [s EXCEPT ![k] = r] = DOMAIN s
         /\ Len([s EXCEPT ![k] = r]) = Len(s)
  BY ExceptSeq

LEMMA IdleIsWork == Idle \in Work
  BY DEF Idle, Work, Pc, HookStatus, Answer

LEMMA InitInv == Init => RecInv
<1> SUFFICES ASSUME Init PROVE RecInv
  OBVIOUS
<1> DEFINE o == CHOOSE o \in Orgs : TRUE
           t == CHOOSE t \in Tiers : TRUE
           i == CHOOSE i \in Intervals : TRUE
           row == [org |-> o, tier |-> t, interval |-> i, status |-> "ACTIVE", end |-> 1]
           bill(k) == [org |-> o, sub |-> 1, due |-> 0,
                       number |-> [month |-> 0, count |-> k], status |-> "ISSUED"]
<1>1. o \in Orgs /\ t \in Tiers /\ i \in Intervals
  BY ReconciliationAssumption
<1>2. OpenPayments \in Nat
  BY ReconciliationAssumption
<1>3. /\ subs = <<row>> /\ invoices = [k \in 1..OpenPayments |-> bill(k)]
      /\ payments = [k \in 1..OpenPayments |-> [invoice |-> k, sub |-> 1, status |-> "PENDING"]]
      /\ charge = [k \in 1..OpenPayments |-> "open"] /\ now = 0
  BY DEF Init, Subscribed
<1> HIDE DEF o, t, i
<1>4. row \in Subscription /\ \A k \in 1..OpenPayments : bill(k) \in Invoice
  BY <1>1, <1>2 DEF Subscription, Invoice, SubscriptionStatus, InvoiceStatus, InvoiceNumber
<1>5. /\ subs \in Seq(Subscription) /\ invoices \in Seq(Invoice)
      /\ payments \in Seq(Payment) /\ charge \in Seq(ChargeStatus)
      /\ Len(charge) = Len(payments)
  <2>1. subs \in Seq(Subscription)
    BY <1>3, <1>4
  <2>2. invoices \in Seq(Invoice)
    <3> HIDE DEF bill
    <3> QED
      BY <1>2, <1>3, <1>4
  <2>3. payments \in Seq(Payment) /\ Len(payments) = OpenPayments
    BY <1>2, <1>3 DEF Payment, PaymentStatus
  <2>4. charge \in Seq(ChargeStatus) /\ Len(charge) = OpenPayments
    BY <1>2, <1>3 DEF ChargeStatus
  <2> QED
    BY <2>1, <2>2, <2>3, <2>4
<1>6. TypeOK
  BY <1>3, <1>5, IdleIsWork DEF Init, InitWork, TypeOK, TablesOK, HookStatus
<1>7. Requests
  BY DEF Init, InitWork, Requests, RequestOK, Idle
<1>8. PaymentsLinked
  <2>1. DOMAIN subs = {1} /\ subs[1].org = o
    BY <1>3
  <2>2. /\ DOMAIN payments = 1..OpenPayments /\ DOMAIN invoices = 1..OpenPayments
        /\ \A p \in 1..OpenPayments : payments[p].invoice = p /\ payments[p].sub = 1
        /\ \A k \in 1..OpenPayments : invoices[k].sub = 1 /\ invoices[k].org = o
    BY <1>3
  <2> QED
    BY <2>1, <2>2 DEF PaymentsLinked
<1>9. PaidOnlyIfCollected
  BY <1>2, <1>3 DEF PaidOnlyIfCollected
<1> QED
  BY <1>6, <1>7, <1>8, <1>9 DEF RecInv

(***************************************************************************)
(* What the steps have in common                                           *)
(***************************************************************************)

(* A worker goes on, ends or begins. *)
LEMMA Works ==
  ASSUME RecInv, NEW w \in Workers, NEW r \in Work, RequestOK(r),
         work' = [work EXCEPT ![w] = r],
         charge' = charge, DOMAIN payments' = DOMAIN payments
  PROVE  work' \in [Workers -> Work] /\ Requests'
  BY DEF RecInv, TypeOK, Requests, RequestOK

LEMMA GoesOn ==
  ASSUME RecInv, NEW w \in Workers, NEW pc \in Pc, Goto(w, pc),
         RequestOK([work[w] EXCEPT !.pc = pc]),
         charge' = charge, DOMAIN payments' = DOMAIN payments
  PROVE  work' \in [Workers -> Work] /\ Requests'
<1>1. [work[w] EXCEPT !.pc = pc] \in Work /\ work \in [Workers -> Work]
  BY DEF RecInv, TypeOK, Work
<1>2. work' = [work EXCEPT ![w] = [work[w] EXCEPT !.pc = pc]]
  BY <1>1 DEF Goto
<1> QED
  BY <1>1, <1>2, Works

LEMMA Ends ==
  ASSUME RecInv, NEW w \in Workers, Finish(w),
         charge' = charge, DOMAIN payments' = DOMAIN payments
  PROVE  work' \in [Workers -> Work] /\ Requests'
  BY IdleIsWork, Works DEF Finish, RequestOK, Idle

LEMMA Returns ==
  ASSUME RecInv, NEW w \in Workers, work[w].pc # "idle", Return(w),
         charge' = charge, DOMAIN payments' = DOMAIN payments
  PROVE  work' \in [Workers -> Work] /\ Requests'
<1>1. CASE IsWebhook(w)
  <2>1. RequestOK([work[w] EXCEPT !.pc = "processed"])
    BY <1>1 DEF RecInv, TypeOK, Work, Requests, RequestOK, IsWebhook
  <2> QED
    BY <1>1, <2>1, GoesOn DEF Return, Pc
<1>2. CASE ~IsWebhook(w)
  BY <1>2, Ends DEF Return
<1> QED
  BY <1>1, <1>2

(* The tables stay as they are. *)
LEMMA TablesKept ==
  ASSUME RecInv, UNCHANGED <<subs, invoices, payments, charge, now>>
  PROVE  TablesOK' /\ PaymentsLinked' /\ PaidOnlyIfCollected'
  BY DEF RecInv, TypeOK, TablesOK, PaymentsLinked, PaidOnlyIfCollected

(* A subscription changes but not its organization. *)
LEMMA SubscriptionSet ==
  ASSUME RecInv, NEW s \in DOMAIN subs, NEW r \in Subscription, r.org = subs[s].org,
         subs' = [subs EXCEPT ![s] = r], UNCHANGED <<invoices, payments, charge, now>>
  PROVE  TablesOK' /\ PaymentsLinked' /\ PaidOnlyIfCollected'
<1>1. subs' \in Seq(Subscription) /\ DOMAIN subs' = DOMAIN subs
  BY UpdateRow DEF RecInv, TypeOK, TablesOK
<1>2. \A t \in DOMAIN subs : subs'[t].org = subs[t].org
  BY DEF RecInv, TypeOK, TablesOK
<1> QED
  BY <1>1, <1>2 DEF RecInv, TypeOK, TablesOK, PaymentsLinked, PaidOnlyIfCollected

LEMMA StatusSet ==
  ASSUME RecInv, NEW w \in Workers, work[w].ref \in DOMAIN payments,
         NEW st \in SubscriptionStatus, SetStatus(w, st),
         UNCHANGED <<invoices, payments, charge, now>>
  PROVE  TablesOK' /\ PaymentsLinked' /\ PaidOnlyIfCollected'
<1> DEFINE s == payments[work[w].ref].sub
           r == [subs[s] EXCEPT !.status = st]
<1>1. s \in DOMAIN subs /\ subs[s] \in Subscription
  BY DEF RecInv, TypeOK, TablesOK, PaymentsLinked
<1>2. r \in Subscription /\ r.org = subs[s].org
  BY <1>1 DEF Subscription
<1>3. subs' = [subs EXCEPT ![s] = r]
  BY <1>1 DEF SetStatus
<1> HIDE DEF r, s
<1> QED
  BY <1>1, <1>2, <1>3, SubscriptionSet

(***************************************************************************)
(* The steps                                                               *)
(***************************************************************************)

LEMMA SettleInv ==
  ASSUME RecInv, NEW p \in DOMAIN charge, NEW outcome \in Outcomes, Settle(p, outcome)
  PROVE  RecInv'
<1>1. outcome \in {"success", "failed"}
  BY ReconciliationAssumption
<1>2. charge \in Seq(ChargeStatus) /\ outcome \in ChargeStatus
  BY <1>1 DEF RecInv, TypeOK, TablesOK, ChargeStatus
<1>3. /\ charge' \in Seq(ChargeStatus) /\ DOMAIN charge' = DOMAIN charge
      /\ Len(charge') = Len(charge)
  BY <1>2, UpdateRow DEF Settle
<1>4. \A q \in DOMAIN charge : charge[q] # "open" => charge'[q] = charge[q]
  BY DEF Settle
<1>5. TypeOK'
  BY <1>3 DEF Settle, RecInv, TypeOK, TablesOK
<1>6. Requests'
  BY <1>3, <1>4 DEF Settle, RecInv, TypeOK, Requests, RequestOK, Work, Answer
<1>7. PaymentsLinked'
  BY DEF Settle, RecInv, PaymentsLinked
<1>8. PaidOnlyIfCollected'
  <2>1. DOMAIN payments = DOMAIN charge
    BY DEF RecInv, TypeOK, TablesOK
  <2> QED
    BY <1>4, <2>1 DEF Settle, RecInv, PaidOnlyIfCollected
<1> QED
  BY <1>5, <1>6, <1>7, <1>8 DEF RecInv

LEMMA ReceiveInv ==
  ASSUME RecInv, NEW w \in Workers, Receive(w)
  PROVE  RecInv'
<1>1. ASSUME NEW ref \in References, Verify(w, ref)
      PROVE  RecInv'
  <2> DEFINE r == [Idle EXCEPT !.pc = "ask", !.ref = ref]
  <2>1. r \in Work /\ RequestOK(r)
    BY ReconciliationAssumption DEF Idle, Work, Pc, HookStatus, Answer, RequestOK
  <2>2. work' = [work EXCEPT ![w] = r] /\ UNCHANGED <<tables, hook, acked, faults>>
    BY <1>1 DEF Verify
  <2> HIDE DEF r
  <2>3. work' \in [Workers -> Work] /\ Requests'
    BY <2>1, <2>2, Works DEF tables
  <2> QED
    BY <2>2, <2>3, TablesKept DEF RecInv, TypeOK, tables
<1>2. ASSUME NEW e \in Events, Deliver(w, e)
      PROVE  RecInv'
  <2>1. CASE hook[e] = "PROCESSED"
    BY <1>2, <2>1, TablesKept DEF Deliver, RecInv, TypeOK, Requests, RequestOK, tables
  <2>2. CASE hook[e] # "PROCESSED"
    <3> DEFINE r == [Idle EXCEPT !.pc = "mark", !.kind = e.kind, !.ref = e.ref,
                                 !.seen = hook[e]]
    <3>1. e \in [kind : Kinds, ref : Nat] /\ hook[e] \in HookStatus
      BY ReconciliationAssumption DEF RecInv, TypeOK
    <3>2. r \in Work
      BY <3>1 DEF Idle, Work, Pc, HookStatus, Answer
    <3>3. RequestOK(r)
      BY <1>2, <3>1 DEF Deliver, Emitted, RequestOK, Idle, Kinds
    <3>4. work' = [work EXCEPT ![w] = r] /\ UNCHANGED <<tables, hook, acked, faults>>
      BY <1>2, <2>2 DEF Deliver
    <3> HIDE DEF r
    <3>5. work' \in [Workers -> Work] /\ Requests'
      BY <3>2, <3>3, <3>4, Works DEF tables
    <3> QED
      BY <3>4, <3>5, TablesKept DEF RecInv, TypeOK, tables
  <2> QED
    BY <2>1, <2>2
<1> QED
  BY <1>1, <1>2 DEF Receive

(* The steps that write no row: the worker goes on, or an event is marked. *)
LEMMA MarksInv ==
  ASSUME RecInv, NEW w \in Workers,
         \/ MarkProcessing(w) \/ AskProvider(w) \/ FindPayment(w)
         \/ MarkProcessed(w) \/ MarkFailed(w)
  PROVE  RecInv'
<1> USE DEF tables
<1>0. /\ work[w] \in Work /\ RequestOK(work[w])
      /\ IsWebhook(w) /\ work[w].pc # "idle" => EventOf(w) \in Events
  BY DEF RecInv, TypeOK, Requests, RequestOK, IsWebhook, EventOf
<1>1. CASE MarkProcessing(w)
  <2>1. CASE CreateClash(w)
    BY <1>1, <2>1, Ends, TablesKept DEF MarkProcessing, RecInv, TypeOK
  <2>2. CASE ~CreateClash(w)
    <3> DEFINE pc == CASE work[w].kind = "subscription.renewed"  -> "processed"
                       [] work[w].kind = "subscription.canceled" -> "cancel"
                       [] OTHER                                  -> "ask"
    <3>1. pc \in {"processed", "cancel", "ask"} /\ Goto(w, pc)
      BY <1>1, <2>2 DEF MarkProcessing
    <3> HIDE DEF pc
    <3>2. RequestOK([work[w] EXCEPT !.pc = pc])
      BY <1>0, <1>1, <3>1 DEF MarkProcessing, RequestOK, Work
    <3>3. work' \in [Workers -> Work] /\ Requests'
      BY <1>1, <3>1, <3>2, GoesOn DEF MarkProcessing, Pc
    <3>4. hook' \in [Events -> HookStatus]
      BY <1>0, <1>1, <2>2 DEF MarkProcessing, RecInv, TypeOK, Processing, HookStatus
    <3> QED
      BY <1>1, <3>3, <3>4, TablesKept DEF MarkProcessing, RecInv, TypeOK
  <2> QED
    BY <2>1, <2>2
<1>2. CASE AskProvider(w)
  <2> DEFINE r == [work[w] EXCEPT !.pc = "find", !.answer = Said(work[w].ref)]
  <2>1. /\ Said(work[w].ref) \in Answer
        /\ Said(work[w].ref) # "pending" =>
               work[w].ref \in DOMAIN charge /\ charge[work[w].ref] = Said(work[w].ref)
    BY DEF Said, Answer
  <2>2. r \in Work /\ RequestOK(r)
    BY <1>0, <1>2, <2>1 DEF AskProvider, RequestOK, Work, Pc
  <2>3. work' = [work EXCEPT ![w] = r]
    BY <1>2 DEF AskProvider
  <2> HIDE DEF r
  <2>4. work' \in [Workers -> Work] /\ Requests'
    BY <1>2, <2>2, <2>3, Works DEF AskProvider
  <2> QED
    BY <1>2, <2>4, TablesKept DEF AskProvider, RecInv, TypeOK
<1>3. CASE FindPayment(w)
  <2>1. work' \in [Workers -> Work] /\ Requests'
    <3>1. CASE work[w].ref \notin DOMAIN payments /\ IsWebhook(w)
      <4>1. RequestOK([work[w] EXCEPT !.pc = "failed"])
        BY <1>0, <1>3, <3>1 DEF FindPayment, RequestOK, Work, IsWebhook
      <4> QED
        BY <1>3, <3>1, <4>1, GoesOn DEF FindPayment, Pc
    <3>2. CASE work[w].ref \notin DOMAIN payments /\ ~IsWebhook(w)
      BY <1>3, <3>2, Ends DEF FindPayment
    <3>3. CASE work[w].ref \in DOMAIN payments /\ AlreadySettled(work[w].ref)
      BY <1>3, <3>3, Returns DEF FindPayment
    <3>4. CASE work[w].ref \in DOMAIN payments /\ ~AlreadySettled(work[w].ref)
      <4> DEFINE pc == IF Collected(work[w].answer) THEN "settle" ELSE "refuse"
      <4>1. RequestOK([work[w] EXCEPT !.pc = pc])
        BY <1>0, <1>3, <3>4 DEF FindPayment, RequestOK, Work, Collected
      <4> QED
        BY <1>3, <3>4, <4>1, GoesOn DEF FindPayment, Pc
    <3> QED
      BY <3>1, <3>2, <3>3, <3>4
  <2> QED
    BY <1>3, <2>1, TablesKept DEF FindPayment, RecInv, TypeOK
<1>4. CASE MarkProcessed(w) \/ MarkFailed(w)
  <2>1. EventOf(w) \in Events
    BY <1>0, <1>4 DEF MarkProcessed, MarkFailed, RequestOK, IsWebhook
  <2>2. hook' \in [Events -> HookStatus] /\ acked' \subseteq Events
    BY <1>4, <2>1 DEF MarkProcessed, MarkFailed, RecInv, TypeOK, HookStatus
  <2>3. work' \in [Workers -> Work] /\ Requests'
    BY <1>4, Ends DEF MarkProcessed, MarkFailed
  <2> QED
    BY <1>4, <2>2, <2>3, TablesKept DEF MarkProcessed, MarkFailed, RecInv, TypeOK
<1> QED
  BY <1>1, <1>2, <1>3, <1>4

(* The steps that write a payment, an invoice or a subscription.           *)
LEMMA WritesInv ==
  ASSUME RecInv, NEW w \in Workers,
         \/ SettlePayment(w) \/ MarkInvoicePaid(w) \/ Activate(w)
         \/ RefusePayment(w) \/ MarkPastDue(w) \/ CancelByProvider(w)
  PROVE  RecInv'
<1> DEFINE ref == work[w].ref
<1>0. /\ work[w] \in Work /\ RequestOK(work[w])
      /\ DOMAIN payments = DOMAIN charge /\ payments \in Seq(Payment)
  BY DEF RecInv, TypeOK, TablesOK, Requests
<1>1. ASSUME NEW st \in PaymentStatus, ref \in DOMAIN payments,
             payments' = [payments EXCEPT ![ref].status = st],
             st = "SUCCESS" => charge[ref] = "success",
             st = "FAILED" => charge[ref] = "failed",
             UNCHANGED <<subs, invoices, charge, now>>
      PROVE  /\ TablesOK' /\ PaymentsLinked' /\ PaidOnlyIfCollected'
             /\ DOMAIN payments' = DOMAIN payments
  <2> DEFINE row == [payments[ref] EXCEPT !.status = st]
  <2>0. payments[ref] \in Payment
    BY <1>0, <1>1
  <2>1. row \in Payment /\ row.invoice = payments[ref].invoice /\ row.sub = payments[ref].sub
    BY <1>1, <2>0 DEF Payment
  <2>2. payments' = [payments EXCEPT ![ref] = row]
    BY <1>1
  <2>3. /\ payments' \in Seq(Payment) /\ DOMAIN payments' = DOMAIN payments
        /\ Len(payments') = Len(payments)
    BY <1>0, <1>1, <2>1, <2>2, UpdateRow
  <2>4. \A p \in DOMAIN payments :
            /\ payments'[p].invoice = payments[p].invoice /\ payments'[p].sub = payments[p].sub
            /\ p # ref => payments'[p].status = payments[p].status
    BY <1>1, <2>1, <2>2
  <2>5. payments'[ref].status = st
    BY <1>0, <1>1 DEF Payment
  <2> HIDE DEF row
  <2>6. TablesOK'
    BY <1>1, <2>3 DEF RecInv, TypeOK, TablesOK
  <2>7. PaymentsLinked'
    BY <1>1, <2>3, <2>4 DEF RecInv, PaymentsLinked
  <2>8. PaidOnlyIfCollected'
    BY <1>1, <2>3, <2>4, <2>5 DEF RecInv, PaidOnlyIfCollected
  <2> QED
    BY <2>3, <2>6, <2>7, <2>8
<1>2. CASE SettlePayment(w)
  <2>1. ref \in DOMAIN payments /\ charge[ref] = "success"
    BY <1>0, <1>2 DEF SettlePayment, RequestOK
  <2>2. /\ TablesOK' /\ PaymentsLinked' /\ PaidOnlyIfCollected'
        /\ DOMAIN payments' = DOMAIN payments
    BY <1>1, <1>2, <2>1 DEF SettlePayment, PaymentStatus
  <2>3. RequestOK([work[w] EXCEPT !.pc = "paid"])
    BY <1>0, <1>2, <2>1 DEF SettlePayment, RequestOK, Work
  <2>4. work' \in [Workers -> Work] /\ Requests'
    BY <1>2, <2>2, <2>3, GoesOn DEF SettlePayment, AfterSettle, Pc
  <2> QED
    BY <1>2, <2>2, <2>4 DEF SettlePayment, RecInv, TypeOK
<1>3. CASE MarkInvoicePaid(w)
  <2>1. ref \in DOMAIN payments /\ charge[ref] = "success"
    BY <1>0, <1>3 DEF MarkInvoicePaid, RequestOK
  <2> DEFINE k == payments[ref].invoice
             row == [invoices[k] EXCEPT !.status = "PAID"]
  <2>2. k \in DOMAIN invoices /\ invoices \in Seq(Invoice)
    BY <2>1 DEF RecInv, TypeOK, TablesOK, PaymentsLinked
  <2>30. invoices[k] \in Invoice
    BY <2>2
  <2>3. row \in Invoice /\ row.sub = invoices[k].sub /\ row.org = invoices[k].org
    BY <2>30 DEF Invoice, InvoiceStatus
  <2>4. invoices' = [invoices EXCEPT ![k] = row]
    BY <1>3, <2>2 DEF MarkInvoicePaid
  <2> HIDE DEF row
  <2>5. invoices' \in Seq(Invoice) /\ DOMAIN invoices' = DOMAIN invoices
    BY <2>2, <2>3, <2>4, UpdateRow
  <2>6. \A j \in DOMAIN invoices :
            /\ invoices'[j].sub = invoices[j].sub /\ invoices'[j].org = invoices[j].org
            /\ j # k => invoices'[j] = invoices[j]
    BY <2>2, <2>3, <2>4
  <2>7. TablesOK' /\ PaymentsLinked'
    BY <1>3, <2>5, <2>6 DEF MarkInvoicePaid, RecInv, TypeOK, TablesOK, PaymentsLinked
  <2>8. PaidOnlyIfCollected'
    BY <1>3, <2>1, <2>5, <2>6 DEF MarkInvoicePaid, RecInv, PaidOnlyIfCollected
  <2>9. RequestOK([work[w] EXCEPT !.pc = "activate"])
    BY <1>0, <1>3, <2>1 DEF MarkInvoicePaid, RequestOK, Work
  <2>10. work' \in [Workers -> Work] /\ Requests'
    BY <1>3, <2>9, GoesOn DEF MarkInvoicePaid, Pc
  <2> QED
    BY <1>3, <2>7, <2>8, <2>10 DEF MarkInvoicePaid, RecInv, TypeOK
<1>4. CASE Activate(w) \/ MarkPastDue(w)
  <2>1. ref \in DOMAIN payments
    BY <1>0, <1>4 DEF Activate, MarkPastDue, RequestOK
  <2>2. TablesOK' /\ PaymentsLinked' /\ PaidOnlyIfCollected'
    BY <1>4, <2>1, StatusSet DEF Activate, MarkPastDue, SubscriptionStatus
  <2>3. work' \in [Workers -> Work] /\ Requests'
    BY <1>4, Returns DEF Activate, MarkPastDue
  <2> QED
    BY <1>4, <2>2, <2>3 DEF Activate, MarkPastDue, RecInv, TypeOK
<1>5. CASE RefusePayment(w)
  <2> DEFINE st == IF Refused(work[w].answer) THEN "FAILED" ELSE "PENDING"
  <2>1. ref \in DOMAIN payments /\ (st = "FAILED" => charge[ref] = "failed")
    BY <1>0, <1>5 DEF RefusePayment, RequestOK, Refused
  <2>2. /\ TablesOK' /\ PaymentsLinked' /\ PaidOnlyIfCollected'
        /\ DOMAIN payments' = DOMAIN payments
    BY <1>1, <1>5, <2>1 DEF RefusePayment, PaymentStatus
  <2>3. work' \in [Workers -> Work] /\ Requests'
    <3>1. CASE Refused(work[w].answer)
      <4>1. RequestOK([work[w] EXCEPT !.pc = "pastdue"])
        BY <1>0, <1>5, <2>1, <3>1 DEF RefusePayment, RequestOK, Work, Refused
      <4> QED
        BY <1>5, <2>2, <3>1, <4>1, GoesOn DEF RefusePayment, Pc
    <3>2. CASE ~Refused(work[w].answer)
      BY <1>5, <2>2, <3>2, Returns DEF RefusePayment
    <3> QED
      BY <3>1, <3>2
  <2> QED
    BY <1>5, <2>2, <2>3 DEF RefusePayment, RecInv, TypeOK
<1>6. CASE CancelByProvider(w)
  <2> DEFINE s == payments[ref].sub
             row == [subs[s] EXCEPT !.status = "CANCELED", !.end = now]
  <2>1. ref \in DOMAIN payments
    BY <1>0, <1>6 DEF CancelByProvider, RequestOK
  <2>2. s \in DOMAIN subs /\ subs[s] \in Subscription /\ now \in Nat
    BY <2>1 DEF RecInv, TypeOK, TablesOK, PaymentsLinked
  <2>3. row \in Subscription /\ row.org = subs[s].org
    BY <2>2 DEF Subscription, SubscriptionStatus
  <2>4. subs' = [subs EXCEPT ![s] = row]
    BY <1>6, <2>2 DEF CancelByProvider
  <2> HIDE DEF row
  <2>5. TablesOK' /\ PaymentsLinked' /\ PaidOnlyIfCollected'
    BY <1>6, <2>2, <2>3, <2>4, SubscriptionSet DEF CancelByProvider
  <2>6. RequestOK([work[w] EXCEPT !.pc = "processed"])
    BY <1>0, <1>6 DEF CancelByProvider, RequestOK, Work
  <2>7. work' \in [Workers -> Work] /\ Requests'
    BY <1>6, <2>6, GoesOn DEF CancelByProvider, Pc
  <2> QED
    BY <1>6, <2>5, <2>7 DEF CancelByProvider, RecInv, TypeOK
<1> QED
  BY <1>2, <1>3, <1>4, <1>5, <1>6

LEMMA FaultInv ==
  ASSUME RecInv, Restart \/ \E w \in Workers : CallFails(w)
  PROVE  RecInv'
<1>1. MaxFaults \in Nat /\ faults \in Nat
  BY ReconciliationAssumption DEF RecInv, TypeOK
<1>2. CASE Restart
  BY <1>1, <1>2, IdleIsWork, TablesKept
     DEF Restart, RecInv, TypeOK, Requests, RequestOK, Idle, tables
<1>3. ASSUME NEW w \in Workers, CallFails(w)
      PROVE  RecInv'
  <2>1. work' \in [Workers -> Work] /\ Requests'
    <3>1. CASE IsWebhook(w) /\ work[w].pc \notin {"mark", "failed"}
      <4>1. RequestOK([work[w] EXCEPT !.pc = "failed"])
        BY <1>3, <3>1 DEF CallFails, RecInv, TypeOK, Requests, RequestOK, Work, IsWebhook
      <4> QED
        BY <1>3, <3>1, <4>1, GoesOn DEF CallFails, Pc, tables
    <3>2. CASE ~(IsWebhook(w) /\ work[w].pc \notin {"mark", "failed"})
      BY <1>3, <3>2, Ends DEF CallFails, tables
    <3> QED
      BY <3>1, <3>2
  <2> QED
    BY <1>1, <1>3, <2>1, TablesKept DEF CallFails, RecInv, TypeOK, tables
<1> QED
  BY <1>2, <1>3

LEMMA StepInv == RecInv /\ [Next]_vars => RecInv'
<1> SUFFICES ASSUME RecInv, [Next]_vars PROVE RecInv'
  OBVIOUS
<1>1. CASE \E p \in DOMAIN charge, outcome \in Outcomes : Settle(p, outcome)
  BY <1>1, SettleInv
<1>2. CASE \E w \in Workers : Receive(w)
  BY <1>2, ReceiveInv
<1>3. CASE \E w \in Workers : Step(w)
  BY <1>3, MarksInv, WritesInv DEF Step
<1>4. CASE Restart \/ \E w \in Workers : CallFails(w)
  BY <1>4, FaultInv
<1>5. CASE UNCHANGED vars
  BY <1>5, TablesKept DEF vars, RecInv, TypeOK, Requests, RequestOK
<1> QED
  BY <1>1, <1>2, <1>3, <1>4, <1>5 DEF Next

(* Every variable keeps its type, and requests keep what they know         *)
(* (payment.service.ts:57-215).                                            *)
THEOREM TypeCorrect == Spec => []TypeOK
<1>1. RecInv => TypeOK
  BY DEF RecInv
<1> QED
  BY <1>1, InitInv, StepInv, PTL DEF Spec

(* Whatever is replayed, delayed, repeated or forgotten, no payment is     *)
(* booked and no invoice paid but as the provider settled the charge       *)
(* (payment.service.ts:57-111).                                            *)
THEOREM PaidIsCollected == Spec => []PaidOnlyIfCollected
<1>1. RecInv => PaidOnlyIfCollected
  BY DEF RecInv
<1> QED
  BY <1>1, InitInv, StepInv, PTL DEF Spec

(* A payment belongs to one invoice, of its own subscription, and no two   *)
(* payments settle the same one (payment.service.ts:81-107).               *)
THEOREM PaymentsStayLinked == Spec => []PaymentsLinked
<1>1. RecInv => PaymentsLinked
  BY DEF RecInv
<1> QED
  BY <1>1, InitInv, StepInv, PTL DEF Spec

(***************************************************************************)
(* The refinement of Settlement                                            *)
(***************************************************************************)

LEMMA BooksInit == Init => Books!SettlementInit
<1> SUFFICES ASSUME Init PROVE Books!SettlementInit
  OBVIOUS
<1>1. OpenPayments \in Nat
  BY ReconciliationAssumption
<1>2. /\ DOMAIN payments = 1..OpenPayments /\ DOMAIN charge = 1..OpenPayments
      /\ \A p \in 1..OpenPayments : payments[p].status = "PENDING" /\ charge[p] = "open"
  BY <1>1 DEF Init, Subscribed
<1>3. \A k \in DOMAIN invoices : invoices[k].status # "PAID"
  BY <1>1 DEF Init, Subscribed
<1> QED
  BY <1>2, <1>3 DEF Books!SettlementInit

(* A payment is booked. *)
LEMMA BooksBook ==
  ASSUME RecInv, NEW w \in Workers, SettlePayment(w) \/ RefusePayment(w)
  PROVE  \E p \in DOMAIN charge : Books!Book(p)
<1> DEFINE p == work[w].ref
           st == IF SettlePayment(w) THEN "SUCCESS"
                 ELSE IF Refused(work[w].answer) THEN "FAILED" ELSE "PENDING"
<1>1. RequestOK(work[w]) /\ DOMAIN payments = DOMAIN charge /\ payments \in Seq(Payment)
  BY DEF RecInv, TypeOK, TablesOK, Requests
<1>2. p \in DOMAIN payments
  BY <1>1 DEF SettlePayment, RefusePayment, RequestOK
<1>3. /\ st = "SUCCESS" => charge[p] = "success"
      /\ st = "FAILED" => charge[p] = "failed"
      /\ st \in {"SUCCESS", "FAILED", "PENDING"}
  BY <1>1 DEF SettlePayment, RefusePayment, RequestOK, Refused
<1>4. /\ payments' = [payments EXCEPT ![p].status = st]
      /\ UNCHANGED <<subs, invoices, charge>>
  BY DEF SettlePayment, RefusePayment
<1> HIDE DEF p, st
<1>5. /\ DOMAIN payments' = DOMAIN payments
      /\ \A q \in DOMAIN payments :
             /\ payments'[q].invoice = payments[q].invoice
             /\ payments'[q].sub = payments[q].sub
             /\ payments'[q].status = IF q = p THEN st ELSE payments[q].status
  <2>1. \A q \in DOMAIN payments : payments[q] \in Payment
    BY <1>1
  <2> QED
    BY <1>2, <1>4, <2>1 DEF Payment
<1>6. [q \in DOMAIN payments |-> payments[q].status]'
          = [[q \in DOMAIN payments |-> payments[q].status] EXCEPT ![p] = st]
  BY <1>2, <1>5
<1>7. [q \in DOMAIN payments |-> [invoice |-> payments[q].invoice, sub |-> payments[q].sub]]'
          = [q \in DOMAIN payments |-> [invoice |-> payments[q].invoice, sub |-> payments[q].sub]]
  BY <1>5
<1> QED
  BY <1>1, <1>2, <1>3, <1>4, <1>6, <1>7 DEF Books!Book

(* An invoice is marked as paid. *)
LEMMA BooksMarkPaid ==
  ASSUME RecInv, NEW w \in Workers, MarkInvoicePaid(w)
  PROVE  \E p \in DOMAIN charge : Books!MarkPaid(p)
<1> DEFINE p == work[w].ref
           k == payments[p].invoice
<1>1. /\ RequestOK(work[w]) /\ DOMAIN payments = DOMAIN charge
      /\ invoices \in Seq(Invoice) /\ PaymentsLinked
  BY DEF RecInv, TypeOK, TablesOK, Requests
<1>2. p \in DOMAIN payments /\ charge[p] = "success" /\ k \in DOMAIN invoices
  BY <1>1 DEF MarkInvoicePaid, RequestOK, PaymentsLinked
<1>3. /\ invoices' = [invoices EXCEPT ![k].status = "PAID"]
      /\ UNCHANGED <<subs, payments, charge>>
  BY DEF MarkInvoicePaid
<1> HIDE DEF k
<1>4. /\ DOMAIN invoices' = DOMAIN invoices
      /\ \A j \in DOMAIN invoices :
             invoices'[j].status = IF j = k THEN "PAID" ELSE invoices[j].status
  <2>1. \A j \in DOMAIN invoices : invoices[j] \in Invoice
    BY <1>1
  <2> QED
    BY <1>2, <1>3, <2>1 DEF Invoice
<1>5. {j \in DOMAIN invoices : invoices[j].status = "PAID"}'
          = {j \in DOMAIN invoices : invoices[j].status = "PAID"} \cup {k}
  BY <1>2, <1>4
<1>6. [q \in DOMAIN payments |->
          [invoice |-> payments[q].invoice, sub |-> payments[q].sub]][p].invoice = k
  BY <1>2 DEF k
<1> QED
  BY <1>1, <1>2, <1>3, <1>5, <1>6 DEF Books!MarkPaid

(* A subscription changes its standing. *)
LEMMA BooksRestate ==
  ASSUME RecInv, NEW w \in Workers,
         Activate(w) \/ MarkPastDue(w) \/ CancelByProvider(w)
  PROVE  \E p \in DOMAIN charge : Books!Restate(p)
<1> DEFINE p == work[w].ref
           s == payments[p].sub
           st == IF Activate(w) THEN "ACTIVE"
                 ELSE IF MarkPastDue(w) THEN "PAST_DUE" ELSE "CANCELED"
<1>1. /\ RequestOK(work[w]) /\ DOMAIN payments = DOMAIN charge
      /\ subs \in Seq(Subscription) /\ PaymentsLinked
  BY DEF RecInv, TypeOK, TablesOK, Requests
<1>2. p \in DOMAIN payments /\ s \in DOMAIN subs
  <2>1. p \in DOMAIN payments
    BY <1>1 DEF Activate, MarkPastDue, CancelByProvider, RequestOK
  <2> QED
    BY <1>1, <2>1 DEF PaymentsLinked
<1>3. /\ st = "ACTIVE" => charge[p] = "success"
      /\ st = "PAST_DUE" => charge[p] = "failed"
      /\ st \in {"ACTIVE", "PAST_DUE", "CANCELED"}
  BY <1>1 DEF Activate, MarkPastDue, RequestOK
<1>4. subs[s] \in Subscription /\ now \in Nat
  BY <1>1, <1>2 DEF RecInv, TypeOK, TablesOK
<1>5. UNCHANGED <<invoices, payments, charge>>
  BY DEF Activate, MarkPastDue, CancelByProvider
<1>6. /\ DOMAIN subs' = DOMAIN subs
      /\ \A t \in DOMAIN subs :
             subs'[t].status = IF t = s THEN st ELSE subs[t].status
  <2>1. \/ subs' = [subs EXCEPT ![s].status = st]
        \/ subs' = [subs EXCEPT ![s] = [@ EXCEPT !.status = st, !.end = now]]
    BY DEF Activate, MarkPastDue, CancelByProvider, SetStatus
  <2>2. \A t \in DOMAIN subs : subs[t] \in Subscription
    BY <1>1
  <2> HIDE DEF s, st
  <2> QED
    BY <1>2, <2>1, <2>2 DEF Subscription
<1> HIDE DEF st
<1>7. [t \in DOMAIN subs |-> subs[t].status]'
          = [[t \in DOMAIN subs |-> subs[t].status] EXCEPT ![s] = st]
  BY <1>2, <1>6
<1>8. [q \in DOMAIN payments |->
          [invoice |-> payments[q].invoice, sub |-> payments[q].sub]][p].sub = s
  BY <1>2
<1> HIDE DEF s
<1> QED
  BY <1>1, <1>2, <1>3, <1>5, <1>7, <1>8 DEF Books!Restate

LEMMA BooksStep == RecInv /\ [Next]_vars => [Books!SettlementNext]_(Books!settlementVars)
<1> SUFFICES ASSUME RecInv, [Next]_vars
             PROVE  [Books!SettlementNext]_(Books!settlementVars)
  OBVIOUS
<1>1. ASSUME NEW p \in DOMAIN charge, NEW outcome \in Outcomes, Settle(p, outcome)
      PROVE  Books!SettleCharge(p)
  BY <1>1, ReconciliationAssumption DEF Settle, Books!SettleCharge
<1>2. ASSUME UNCHANGED <<subs, invoices, payments, charge>>
      PROVE  UNCHANGED Books!settlementVars
  BY <1>2 DEF Books!settlementVars
<1>3. ASSUME NEW w \in Workers, Receive(w) \/ CallFails(w)
      PROVE  UNCHANGED <<subs, invoices, payments, charge>>
  BY <1>3 DEF Receive, Verify, Deliver, CallFails, tables
<1>4. ASSUME NEW w \in Workers, Step(w)
      PROVE  \/ UNCHANGED <<subs, invoices, payments, charge>>
             \/ Books!SettlementNext
  <2>1. CASE \/ MarkProcessing(w) \/ AskProvider(w) \/ FindPayment(w)
             \/ MarkProcessed(w) \/ MarkFailed(w)
    BY <2>1 DEF MarkProcessing, AskProvider, FindPayment, MarkProcessed, MarkFailed, tables
  <2>2. CASE SettlePayment(w) \/ RefusePayment(w)
    BY <2>2, BooksBook DEF Books!SettlementNext
  <2>3. CASE MarkInvoicePaid(w)
    BY <2>3, BooksMarkPaid DEF Books!SettlementNext
  <2>4. CASE Activate(w) \/ MarkPastDue(w) \/ CancelByProvider(w)
    BY <2>4, BooksRestate DEF Books!SettlementNext
  <2> QED
    BY <1>4, <2>1, <2>2, <2>3, <2>4 DEF Step
<1>5. CASE Restart \/ UNCHANGED vars
  BY <1>2, <1>5 DEF Restart, vars, tables
<1> QED
  BY <1>1, <1>2, <1>3, <1>4, <1>5 DEF Next, Books!SettlementNext

(* Verifications and webhooks implement Settlement, whatever is repeated,  *)
(* overlaps, fails or is forgotten (payment.service.ts:57-215).            *)
THEOREM BooksAreKept == Spec => BooksFollowTheProvider
<1> QED
  BY BooksInit, InitInv, StepInv, BooksStep, PTL
  DEF Spec, BooksFollowTheProvider, Books!SettlementSpec

(***************************************************************************)
(* Without faults, what the provider was answered is done                  *)
(***************************************************************************)

(* The payment's invoice is PAID, or a request is about to mark it.        *)
Reached(p) ==
    \/ invoices[payments[p].invoice].status = "PAID"
    \/ \E w \in Workers : work[w].pc = "paid" /\ work[w].ref = p

(* What a request knows of the payment it is about.                        *)
OnItsWay(r) ==
    /\ r.pc = "activate" => Reached(r.ref)
    /\ r.kind = "payment.success" /\ r.pc # "idle" =>
           /\ charge[r.ref] = "success"
           /\ r.pc \notin {"refuse", "pastdue", "cancel"}
           /\ r.pc = "find" => r.answer = "success"
           /\ r.pc = "processed" => Reached(r.ref)

AckInv == faults = 0 =>
    /\ \A p \in DOMAIN payments : payments[p].status = "SUCCESS" => Reached(p)
    /\ \A w \in Workers : OnItsWay(work[w])
    /\ \A e \in Events :
           e.kind = "payment.success" /\ (hook[e] = "PROCESSED" \/ e \in acked) =>
               e.ref \in DOMAIN payments /\ Reached(e.ref)

LEMMA AckInit == Init => AckInv
<1> SUFFICES ASSUME Init PROVE AckInv
  OBVIOUS
<1>1. \A p \in DOMAIN payments : payments[p].status # "SUCCESS"
  BY ReconciliationAssumption DEF Init, Subscribed
<1> QED
  BY <1>1 DEF Init, InitWork, Idle, AckInv, OnItsWay

(* A payment that was reached stays so while another request goes on.      *)
LEMMA StaysReached ==
  ASSUME RecInv, NEW w \in Workers, work[w].pc # "paid",
         \A v \in Workers : v # w => work'[v] = work[v],
         UNCHANGED invoices,
         \A p \in DOMAIN payments : payments'[p].invoice = payments[p].invoice
  PROVE  \A p \in DOMAIN payments : Reached(p) => Reached(p)'
  BY DEF Reached

(* What a step has to show: nothing that was reached is lost, and what it  *)
(* adds is reached.                                                        *)
LEMMA AckFrom ==
  ASSUME RecInv, AckInv, NEW w \in Workers, faults = 0,
         \A v \in Workers : v # w => work'[v] = work[v],
         OnItsWay(work[w])',
         DOMAIN payments' = DOMAIN payments,
         \A p \in DOMAIN payments : Reached(p) => Reached(p)',
         \A p \in DOMAIN charge : charge[p] = "success" => charge'[p] = "success",
         \A p \in DOMAIN payments : payments'[p].status = "SUCCESS" =>
             payments[p].status = "SUCCESS" \/ Reached(p)',
         \A e \in Events :
             e.kind = "payment.success" /\ (hook'[e] = "PROCESSED" \/ e \in acked') =>
                 \/ hook[e] = "PROCESSED" \/ e \in acked
                 \/ e.ref \in DOMAIN payments /\ Reached(e.ref)'
  PROVE  AckInv'
<1>1. \A p \in DOMAIN payments' : payments'[p].status = "SUCCESS" => Reached(p)'
  BY DEF AckInv
<1>2. \A v \in Workers : OnItsWay(work[v])'
  <2> SUFFICES ASSUME NEW v \in Workers, v # w PROVE OnItsWay(work[v])'
    OBVIOUS
  <2>1. /\ work'[v] = work[v] /\ OnItsWay(work[v])
        /\ work[v] \in Work /\ RequestOK(work[v]) /\ DOMAIN payments = DOMAIN charge
    BY DEF AckInv, RecInv, TypeOK, TablesOK, Requests
  <2>2. /\ work[v].pc = "activate" => work[v].ref \in DOMAIN payments
        /\ work[v].kind = "payment.success" /\ work[v].pc # "idle" =>
               work[v].ref \in DOMAIN payments
    BY <2>1 DEF RequestOK
  <2> QED
    BY <2>1, <2>2 DEF OnItsWay
<1>3. \A e \in Events :
         e.kind = "payment.success" /\ (hook'[e] = "PROCESSED" \/ e \in acked') =>
             e.ref \in DOMAIN payments' /\ Reached(e.ref)'
  BY DEF AckInv
<1> QED
  BY <1>1, <1>2, <1>3 DEF AckInv

(* The same for a step that writes neither payments, invoices nor events.  *)
LEMMA AckWorks ==
  ASSUME RecInv, AckInv, NEW w \in Workers, faults = 0, work[w].pc # "paid",
         \A v \in Workers : v # w => work'[v] = work[v],
         OnItsWay(work[w])',
         UNCHANGED <<invoices, payments, charge, hook, acked>>
  PROVE  AckInv'
<1>1. \A p \in DOMAIN payments : Reached(p) => Reached(p)'
  BY StaysReached
<1> QED
  BY <1>1, AckFrom

LEMMA AckReceive ==
  ASSUME RecInv, AckInv, faults = 0, NEW w \in Workers, Receive(w)
  PROVE  AckInv'
<1>1. work \in [Workers -> Work] /\ DOMAIN payments = DOMAIN charge
  BY DEF RecInv, TypeOK, TablesOK
<1>2. ASSUME NEW ref \in References, Verify(w, ref)
      PROVE  AckInv'
  <2>1. OnItsWay(work[w])'
    BY <1>1, <1>2 DEF Verify, OnItsWay, Idle
  <2> QED
    BY <1>1, <1>2, <2>1, AckWorks DEF Verify, tables
<1>3. ASSUME NEW e \in Events, Deliver(w, e), hook[e] # "PROCESSED"
      PROVE  AckInv'
  <2>1. e.kind = "payment.success" => charge[e.ref] = "success"
    BY <1>3 DEF Deliver, Emitted
  <2>2. OnItsWay(work[w])'
    BY <1>1, <1>3, <2>1 DEF Deliver, OnItsWay, Idle, tables
  <2> QED
    BY <1>1, <1>3, <2>2, AckWorks DEF Deliver, tables
<1>4. ASSUME NEW e \in Events, Deliver(w, e), hook[e] = "PROCESSED"
      PROVE  AckInv'
  <2>1. UNCHANGED <<tables, work, hook, faults>> /\ acked' = acked \cup {e}
    BY <1>4 DEF Deliver
  <2>2. \A p : Reached(p) <=> Reached(p)'
    BY <2>1 DEF Reached, tables
  <2>3. \A v \in Workers : OnItsWay(work[v]) => OnItsWay(work[v])'
    BY <2>1, <2>2 DEF OnItsWay, tables
  <2> QED
    BY <1>4, <2>1, <2>2, <2>3 DEF AckInv, tables
<1> QED
  BY <1>2, <1>3, <1>4 DEF Receive

LEMMA AckSteps ==
  ASSUME RecInv, AckInv, faults = 0, NEW w \in Workers, Step(w)
  PROVE  AckInv'
<1> PICK ref : ref = work[w].ref
  OBVIOUS
<1>0. /\ work \in [Workers -> Work] /\ work[w] \in Work /\ RequestOK(work[w])
      /\ DOMAIN payments = DOMAIN charge /\ payments \in Seq(Payment)
      /\ OnItsWay(work[w]) /\ PaymentsLinked
      /\ \A p \in DOMAIN payments : payments[p].status = "SUCCESS" => Reached(p)
  BY DEF RecInv, TypeOK, TablesOK, Requests, AckInv
<1>1. ASSUME NEW pc \in Pc, Goto(w, pc)
      PROVE  /\ \A v \in Workers : v # w => work'[v] = work[v]
             /\ work'[w] = [work[w] EXCEPT !.pc = pc]
  BY <1>0, <1>1 DEF Goto
<1>2. ASSUME Finish(w)
      PROVE  /\ \A v \in Workers : v # w => work'[v] = work[v]
             /\ OnItsWay(work[w])'
  BY <1>0, <1>2 DEF Finish, OnItsWay, Idle
(* A request that returns has reached what it is about.                    *)
<1>3. ASSUME Return(w), work[w].pc # "idle", charge' = charge,
             work[w].kind = "payment.success" => Reached(ref)'
      PROVE  /\ \A v \in Workers : v # w => work'[v] = work[v]
             /\ OnItsWay(work[w])'
  <2>1. CASE IsWebhook(w)
    BY <1>0, <1>1, <1>3, <2>1 DEF Return, OnItsWay, Work, Pc
  <2>2. CASE ~IsWebhook(w)
    BY <1>2, <1>3, <2>2 DEF Return
  <2> QED
    BY <2>1, <2>2
<1>4. CASE MarkProcessing(w)
  <2>1. CASE CreateClash(w)
    BY <1>2, <1>4, <2>1, AckWorks DEF MarkProcessing, tables
  <2>2. CASE ~CreateClash(w)
    <3>1. /\ hook' = [hook EXCEPT ![EventOf(w)] = "PROCESSING"]
          /\ UNCHANGED <<subs, invoices, payments, charge, now, acked, faults>>
          /\ work[w].pc = "mark"
      BY <1>4, <2>2 DEF MarkProcessing, Processing, tables
    <3>2. \A e \in Events : hook'[e] = "PROCESSED" => hook[e] = "PROCESSED"
      BY <3>1 DEF RecInv, TypeOK
    <3>3. PICK pc \in {"processed", "cancel", "ask"} :
              /\ Goto(w, pc)
              /\ work[w].kind = "payment.success" => pc = "ask"
      BY <1>4, <2>2 DEF MarkProcessing
    <3>4. (\A v \in Workers : v # w => work'[v] = work[v]) /\ OnItsWay(work[w])'
      BY <1>0, <1>1, <3>1, <3>3 DEF OnItsWay, Work, Pc
    <3>5. \A p \in DOMAIN payments : Reached(p) => Reached(p)'
      BY <3>1, <3>4, StaysReached
    <3> QED
      BY <3>1, <3>2, <3>4, <3>5, AckFrom
  <2> QED
    BY <2>1, <2>2
<1>5. CASE AskProvider(w)
  <2>1. work[w].pc = "ask" /\ UNCHANGED <<tables, hook, acked, faults>>
        /\ work' = [work EXCEPT ![w] =
                       [work[w] EXCEPT !.pc = "find", !.answer = Said(ref)]]
    BY <1>5 DEF AskProvider
  <2>2. work[w].kind = "payment.success" => Said(ref) = "success"
    BY <1>0, <2>1 DEF OnItsWay, RequestOK, Said
  <2>3. OnItsWay(work[w])'
    BY <1>0, <2>1, <2>2 DEF OnItsWay, Work, tables
  <2> QED
    BY <1>0, <2>1, <2>3, AckWorks DEF tables
<1>6. CASE FindPayment(w)
  <2>1. work[w].pc = "find" /\ UNCHANGED <<tables, hook, acked, faults>>
    BY <1>6 DEF FindPayment
  <2>2. (\A v \in Workers : v # w => work'[v] = work[v]) /\ OnItsWay(work[w])'
    <3>1. CASE ref \notin DOMAIN payments /\ IsWebhook(w)
      BY <1>0, <1>1, <1>6, <2>1, <3>1 DEF FindPayment, IsWebhook, RequestOK
    <3>2. CASE ref \notin DOMAIN payments /\ ~IsWebhook(w)
      BY <1>2, <1>6, <3>2 DEF FindPayment
    <3>3. CASE ref \in DOMAIN payments /\ AlreadySettled(ref)
      <4>1. Return(w)
        BY <1>6, <3>3 DEF FindPayment
      <4>2. Reached(ref)
        BY <1>0, <3>3 DEF AlreadySettled
      <4>3. Reached(ref)'
        <5>1. \A v \in Workers : v # w => work'[v] = work[v]
          BY <4>1 DEF Return, Goto, Finish, RecInv, TypeOK
        <5> QED
          BY <2>1, <3>3, <4>2, <5>1, StaysReached DEF tables
      <4> QED
        BY <1>3, <2>1, <4>1, <4>3 DEF tables
    <3>4. CASE ref \in DOMAIN payments /\ ~AlreadySettled(ref)
      <4> DEFINE pc == IF Collected(work[w].answer) THEN "settle" ELSE "refuse"
      <4>1. Goto(w, pc) /\ pc \in {"settle", "refuse"}
        BY <1>6, <3>4 DEF FindPayment
      <4>2. work[w].kind = "payment.success" => pc = "settle"
        BY <1>0, <2>1 DEF OnItsWay, Collected
      <4> HIDE DEF pc
      <4> QED
        BY <1>0, <1>1, <2>1, <4>1, <4>2 DEF OnItsWay, Work, Pc, tables
    <3> QED
      BY <3>1, <3>2, <3>3, <3>4
  <2> QED
    BY <2>1, <2>2, AckWorks DEF tables
<1>7. CASE SettlePayment(w)
  <2>1. /\ work[w].pc = "settle" /\ Goto(w, "paid") /\ ref \in DOMAIN payments
        /\ payments' = [payments EXCEPT ![ref].status = "SUCCESS"]
        /\ UNCHANGED <<subs, invoices, charge, now, hook, acked, faults>>
    BY <1>0, <1>7 DEF SettlePayment, AfterSettle, RequestOK
  <2>2. /\ \A v \in Workers : v # w => work'[v] = work[v]
        /\ work'[w] = [work[w] EXCEPT !.pc = "paid"]
    BY <1>1, <2>1 DEF Pc
  <2>3. /\ DOMAIN payments' = DOMAIN payments
        /\ \A p \in DOMAIN payments :
               /\ payments'[p].invoice = payments[p].invoice
               /\ p # ref => payments'[p].status = payments[p].status
    <3>1. \A p \in DOMAIN payments : payments[p] \in Payment
      BY <1>0
    <3> QED
      BY <2>1, <3>1 DEF Payment
  <2>4. \A p \in DOMAIN payments : Reached(p) => Reached(p)'
    BY <2>1, <2>2, <2>3, StaysReached
  <2>5. Reached(ref)'
    BY <1>0, <2>2 DEF Reached, Work
  <2>6. OnItsWay(work[w])'
    BY <1>0, <2>1, <2>2 DEF OnItsWay, Work
  <2> QED
    BY <2>1, <2>2, <2>3, <2>4, <2>5, <2>6, AckFrom
<1>8. CASE MarkInvoicePaid(w)
  <2>1. /\ work[w].pc = "paid" /\ Goto(w, "activate") /\ ref \in DOMAIN payments
        /\ invoices' = [invoices EXCEPT ![payments[ref].invoice].status = "PAID"]
        /\ UNCHANGED <<subs, payments, charge, now, hook, acked, faults>>
    BY <1>0, <1>8 DEF MarkInvoicePaid, RequestOK
  <2>2. /\ \A v \in Workers : v # w => work'[v] = work[v]
        /\ work'[w] = [work[w] EXCEPT !.pc = "activate"]
    BY <1>1, <2>1 DEF Pc
  <2>3. /\ invoices'[payments[ref].invoice].status = "PAID"
        /\ \A k \in DOMAIN invoices :
               invoices[k].status = "PAID" => invoices'[k].status = "PAID"
    <3>1. /\ payments[ref].invoice \in DOMAIN invoices
          /\ \A k \in DOMAIN invoices : invoices[k] \in Invoice
      BY <1>0, <2>1 DEF PaymentsLinked, RecInv, TypeOK, TablesOK
    <3> QED
      BY <2>1, <3>1 DEF Invoice
  <2>4. \A p \in DOMAIN payments : Reached(p) => Reached(p)'
    <3> SUFFICES ASSUME NEW p \in DOMAIN payments, Reached(p), p # ref PROVE Reached(p)'
      BY <2>1, <2>3 DEF Reached
    <3>1. payments[p].invoice \in DOMAIN invoices
      BY <1>0 DEF PaymentsLinked
    <3>2. CASE invoices[payments[p].invoice].status = "PAID"
      BY <2>1, <2>3, <3>1, <3>2 DEF Reached
    <3>3. CASE \E v \in Workers : work[v].pc = "paid" /\ work[v].ref = p
      BY <1>0, <2>2, <3>3 DEF Reached
    <3> QED
      BY <3>2, <3>3 DEF Reached
  <2>5. Reached(ref)'
    BY <2>1, <2>3 DEF Reached
  <2>6. OnItsWay(work[w])'
    BY <1>0, <2>1, <2>2, <2>5 DEF OnItsWay, Work
  <2> QED
    BY <2>1, <2>2, <2>4, <2>6, AckFrom
<1>9. CASE Activate(w) \/ MarkPastDue(w)
  <2>1. /\ work[w].pc \in {"activate", "pastdue"} /\ Return(w) /\ ref \in DOMAIN payments
        /\ UNCHANGED <<invoices, payments, charge, now, hook, acked, faults>>
    BY <1>0, <1>9 DEF Activate, MarkPastDue, RequestOK
  <2>2. \A v \in Workers : v # w => work'[v] = work[v]
    BY <2>1 DEF Return, Goto, Finish, RecInv, TypeOK
  <2>3. \A p \in DOMAIN payments : Reached(p) => Reached(p)'
    BY <2>1, <2>2, StaysReached
  <2>4. work[w].kind = "payment.success" => Reached(ref)'
    BY <1>0, <2>1, <2>3 DEF OnItsWay
  <2>5. OnItsWay(work[w])'
    BY <1>3, <2>1, <2>4
  <2> QED
    BY <2>1, <2>2, <2>5, AckWorks
<1>10. CASE RefusePayment(w)
  <2> DEFINE st == IF Refused(work[w].answer) THEN "FAILED" ELSE "PENDING"
  <2>1. /\ work[w].pc = "refuse" /\ ref \in DOMAIN payments
        /\ payments' = [payments EXCEPT ![ref].status = st]
        /\ Goto(w, "pastdue") \/ Return(w)
        /\ UNCHANGED <<subs, invoices, charge, now, hook, acked, faults>>
    BY <1>0, <1>10 DEF RefusePayment, RequestOK
  <2>2. work[w].kind # "payment.success"
    BY <1>0, <2>1 DEF OnItsWay
  <2>3. (\A v \in Workers : v # w => work'[v] = work[v]) /\ OnItsWay(work[w])'
    <3>1. CASE Goto(w, "pastdue")
      BY <1>0, <1>1, <2>2, <3>1 DEF OnItsWay, Work, Pc
    <3>2. CASE Return(w)
      BY <1>3, <2>1, <2>2, <3>2
    <3> QED
      BY <2>1, <3>1, <3>2
  <2>4. /\ DOMAIN payments' = DOMAIN payments
        /\ \A p \in DOMAIN payments :
               /\ payments'[p].invoice = payments[p].invoice
               /\ payments'[p].status = "SUCCESS" => payments[p].status = "SUCCESS"
    <3>1. \A p \in DOMAIN payments : payments[p] \in Payment
      BY <1>0
    <3>2. st # "SUCCESS"
      OBVIOUS
    <3> HIDE DEF st
    <3> QED
      BY <2>1, <3>1, <3>2 DEF Payment
  <2>5. \A p \in DOMAIN payments : Reached(p) => Reached(p)'
    BY <2>1, <2>3, <2>4, StaysReached
  <2> QED
    BY <2>1, <2>3, <2>4, <2>5, AckFrom
<1>11. CASE CancelByProvider(w)
  <2>1. /\ work[w].pc = "cancel" /\ Goto(w, "processed")
        /\ UNCHANGED <<invoices, payments, charge, now, hook, acked, faults>>
    BY <1>11 DEF CancelByProvider
  <2>2. (\A v \in Workers : v # w => work'[v] = work[v]) /\ OnItsWay(work[w])'
    BY <1>0, <1>1, <2>1 DEF OnItsWay, Work, Pc
  <2> QED
    BY <2>1, <2>2, AckWorks
<1>12. CASE MarkProcessed(w) \/ MarkFailed(w)
  <2> DEFINE e == EventOf(w)
  <2>1. /\ work[w].pc \in {"processed", "failed"} /\ Finish(w)
        /\ UNCHANGED <<tables, faults>>
    BY <1>12 DEF MarkProcessed, MarkFailed
  <2>2. e = [kind |-> work[w].kind, ref |-> ref] /\ e \in Events /\ ref \in DOMAIN payments
    BY <1>0, <2>1 DEF RequestOK, EventOf
  <2>3. /\ \A v \in Workers : v # w => work'[v] = work[v]
        /\ OnItsWay(work[w])'
    BY <1>2, <2>1
  <2>4. \A p \in DOMAIN payments : Reached(p) => Reached(p)'
    BY <2>1, <2>3, StaysReached DEF tables
  <2>5. hook \in [Events -> HookStatus]
    BY DEF RecInv, TypeOK
  <2>6. \A f \in Events :
           f.kind = "payment.success" /\ (hook'[f] = "PROCESSED" \/ f \in acked') =>
               \/ hook[f] = "PROCESSED" \/ f \in acked
               \/ f = e /\ work[w].pc = "processed"
    BY <1>12, <2>2, <2>5 DEF MarkProcessed, MarkFailed
  <2>7. work[w].pc = "processed" /\ work[w].kind = "payment.success" => Reached(ref)'
    BY <1>0, <2>2, <2>4 DEF OnItsWay
  <2>8. \A f \in Events :
           f.kind = "payment.success" /\ (hook'[f] = "PROCESSED" \/ f \in acked') =>
               \/ hook[f] = "PROCESSED" \/ f \in acked
               \/ f.ref \in DOMAIN payments /\ Reached(f.ref)'
    <3> SUFFICES ASSUME NEW f \in Events, f = e, work[w].pc = "processed",
                        f.kind = "payment.success"
                 PROVE  f.ref \in DOMAIN payments /\ Reached(f.ref)'
      BY <2>6
    <3>1. f.ref = ref /\ work[w].kind = "payment.success"
      BY <2>2
    <3> QED
      BY <2>2, <2>7, <3>1 DEF Reached
  <2> QED
    BY <2>1, <2>3, <2>4, <2>8, AckFrom DEF tables
<1> QED
  BY <1>4, <1>5, <1>6, <1>7, <1>8, <1>9, <1>10, <1>11, <1>12 DEF Step

LEMMA AckStep == RecInv /\ AckInv /\ [Next]_vars => AckInv'
<1> SUFFICES ASSUME RecInv, AckInv, [Next]_vars, faults' = 0 PROVE AckInv'
  BY DEF AckInv
<1>1. ASSUME NEW p \in DOMAIN charge, NEW outcome \in Outcomes, Settle(p, outcome)
      PROVE  AckInv'
  <2>1. /\ UNCHANGED <<subs, invoices, payments, now, hook, acked, work, faults>>
        /\ \A q \in DOMAIN charge : charge[q] = "success" => charge'[q] = "success"
    BY <1>1 DEF Settle
  <2>2. \A q : Reached(q) <=> Reached(q)'
    BY <2>1 DEF Reached
  <2>3. \A w \in Workers : OnItsWay(work[w])'
    <3> SUFFICES ASSUME NEW w \in Workers PROVE OnItsWay(work[w])'
      OBVIOUS
    <3>1. /\ work'[w] = work[w] /\ OnItsWay(work[w]) /\ RequestOK(work[w])
      BY <2>1 DEF AckInv, RecInv, Requests
    <3> QED
      BY <2>1, <2>2, <3>1 DEF OnItsWay, RequestOK
  <2> QED
    BY <2>1, <2>2, <2>3 DEF AckInv
<1>2. CASE \E w \in Workers : Receive(w)
  BY <1>2, AckReceive DEF Receive, Verify, Deliver
<1>3. CASE \E w \in Workers : Step(w)
  BY <1>3, AckSteps
  DEF Step, MarkProcessing, AskProvider, FindPayment, SettlePayment, MarkInvoicePaid,
      Activate, RefusePayment, MarkPastDue, CancelByProvider, MarkProcessed, MarkFailed
<1>4. CASE Restart \/ \E w \in Workers : CallFails(w)
  BY <1>4, ReconciliationAssumption DEF Restart, CallFails, RecInv, TypeOK
<1>5. CASE UNCHANGED vars
  <2>1. \A p : Reached(p) <=> Reached(p)'
    BY <1>5 DEF Reached, vars
  <2>2. \A w \in Workers : OnItsWay(work[w]) => OnItsWay(work[w])'
    BY <1>5, <2>1 DEF OnItsWay, vars
  <2> QED
    BY <1>5, <2>1, <2>2 DEF AckInv, vars
<1> QED
  BY <1>1, <1>2, <1>3, <1>4, <1>5 DEF Next

(* As long as nothing failed, an acknowledged payment.success whose        *)
(* requests are over has its invoice PAID: the settlement is not lost to   *)
(* overlapping deliveries and verifications (payment.service.ts:57-215).   *)
THEOREM AckedIsPaid == Spec => []AckedMeansPaidWithoutFaults
<1>1. RecInv /\ AckInv => AckedMeansPaidWithoutFaults
  <2> SUFFICES ASSUME RecInv, AckInv, faults = 0,
                      NEW e \in acked, e.kind = "payment.success", ~InFlight(e.ref)
               PROVE  invoices[payments[e.ref].invoice].status = "PAID"
    BY DEF AckedMeansPaidWithoutFaults, AckedMeansPaid
  <2>1. Reached(e.ref)
    BY DEF RecInv, TypeOK, AckInv
  <2> QED
    BY <2>1 DEF Reached, InFlight
<1> QED
  BY <1>1, InitInv, AckInit, StepInv, AckStep, PTL DEF Spec
(***************************************************************************)
(* What workers leave to the handlers that fill the tables: no row is      *)
(* added, no link of one is rewritten, and a subscription goes past due    *)
(* only over a charge the provider refused.                                *)
(***************************************************************************)

WorkersWritten ==
    /\ now' = now
    /\ DOMAIN subs' = DOMAIN subs /\ DOMAIN invoices' = DOMAIN invoices
    /\ DOMAIN payments' = DOMAIN payments
    /\ \A s \in DOMAIN subs :
           /\ subs'[s].org = subs[s].org
           /\ subs'[s].status = "PAST_DUE" =>
                  \/ subs[s].status = "PAST_DUE"
                  \/ \E p \in DOMAIN payments : payments[p].sub = s /\ charge[p] = "failed"
    /\ \A k \in DOMAIN invoices :
           /\ invoices'[k].org = invoices[k].org /\ invoices'[k].sub = invoices[k].sub
           /\ invoices'[k].number = invoices[k].number
    /\ \A p \in DOMAIN payments :
           /\ payments'[p].invoice = payments[p].invoice /\ payments'[p].sub = payments[p].sub
           /\ charge'[p] = charge[p] \/ charge[p] = "open"

LEMMA NothingWritten ==
  ASSUME UNCHANGED <<subs, invoices, payments, charge, now>>
  PROVE  WorkersWritten
  BY DEF WorkersWritten

LEMMA WorkersWrite ==
  ASSUME RecInv, [Next]_vars
  PROVE  WorkersWritten
<1>1. CASE UNCHANGED vars \/ Restart \/ \E w \in Workers :
               \/ Receive(w) \/ CallFails(w) \/ MarkProcessing(w) \/ AskProvider(w)
               \/ FindPayment(w) \/ MarkProcessed(w) \/ MarkFailed(w)
  <2>1. UNCHANGED <<subs, invoices, payments, charge, now>>
    BY <1>1 DEF vars, Restart, Receive, Verify, Deliver, CallFails, MarkProcessing,
       AskProvider, FindPayment, MarkProcessed, MarkFailed, tables
  <2> QED
    BY <2>1, NothingWritten
<1>2. ASSUME NEW p \in DOMAIN charge, NEW outcome \in Outcomes, Settle(p, outcome)
      PROVE  WorkersWritten
  <2>1. /\ \A q \in DOMAIN charge : charge'[q] = charge[q] \/ charge[q] = "open"
        /\ UNCHANGED <<subs, invoices, payments, now>>
        /\ DOMAIN charge = DOMAIN payments
    BY <1>2 DEF Settle, RecInv, TypeOK, TablesOK
  <2> QED
    BY <2>1 DEF WorkersWritten
<1>3. ASSUME NEW w \in Workers, SettlePayment(w) \/ RefusePayment(w)
      PROVE  WorkersWritten
  <2>1. PICK st : /\ payments' = [payments EXCEPT ![work[w].ref].status = st]
                  /\ UNCHANGED <<subs, invoices, charge, now>>
    BY <1>3 DEF SettlePayment, RefusePayment
  <2>2. \A p \in DOMAIN payments : payments[p] \in Payment
    BY DEF RecInv, TypeOK, TablesOK
  <2>3. \A p \in DOMAIN payments :
            payments'[p].invoice = payments[p].invoice /\ payments'[p].sub = payments[p].sub
    BY <2>1, <2>2 DEF Payment
  <2> QED
    BY <2>1, <2>3 DEF WorkersWritten
<1>4. ASSUME NEW w \in Workers, MarkInvoicePaid(w)
      PROVE  WorkersWritten
  <2>1. PICK k : /\ invoices' = [invoices EXCEPT ![k].status = "PAID"]
                 /\ UNCHANGED <<subs, payments, charge, now>>
    BY <1>4 DEF MarkInvoicePaid
  <2>2. \A j \in DOMAIN invoices : invoices[j] \in Invoice
    BY DEF RecInv, TypeOK, TablesOK
  <2>3. \A j \in DOMAIN invoices :
            /\ invoices'[j].org = invoices[j].org /\ invoices'[j].sub = invoices[j].sub
            /\ invoices'[j].number = invoices[j].number
    BY <2>1, <2>2 DEF Invoice
  <2> QED
    BY <2>1, <2>3 DEF WorkersWritten
<1>5. ASSUME NEW w \in Workers, Activate(w) \/ MarkPastDue(w) \/ CancelByProvider(w)
      PROVE  WorkersWritten
  <2> DEFINE s == payments[work[w].ref].sub
  <2>1. /\ UNCHANGED <<invoices, payments, charge, now>>
        /\ work[w].ref \in DOMAIN payments /\ s \in DOMAIN subs
        /\ \A t \in DOMAIN subs : subs[t] \in Subscription
    <3>1. /\ UNCHANGED <<invoices, payments, charge, now>>
          /\ work[w].pc \in {"activate", "pastdue", "cancel"}
      BY <1>5 DEF Activate, MarkPastDue, CancelByProvider
    <3>2. work[w].ref \in DOMAIN payments
      <4>1. DOMAIN charge = DOMAIN payments /\ RequestOK(work[w])
        BY DEF RecInv, TypeOK, TablesOK, Requests
      <4> QED
        BY <3>1, <4>1 DEF RequestOK
    <3>3. s \in DOMAIN subs
      BY <3>2 DEF RecInv, PaymentsLinked
    <3>4. \A t \in DOMAIN subs : subs[t] \in Subscription
      BY DEF RecInv, TypeOK, TablesOK
    <3> QED
      BY <3>1, <3>2, <3>3, <3>4
  <2>2. PICK row : /\ subs' = [subs EXCEPT ![s] = row]
                   /\ row.org = subs[s].org
                   /\ row.status = "PAST_DUE" => MarkPastDue(w)
    <3>1. CASE Activate(w) \/ MarkPastDue(w)
      <4>1. PICK st \in {"ACTIVE", "PAST_DUE"} :
                /\ SetStatus(w, st) /\ (st = "PAST_DUE" => MarkPastDue(w))
        BY <3>1 DEF Activate, MarkPastDue
      <4>2. subs' = [subs EXCEPT ![s] = [subs[s] EXCEPT !.status = st]]
        BY <4>1 DEF SetStatus
      <4>3. /\ [subs[s] EXCEPT !.status = st].org = subs[s].org
            /\ [subs[s] EXCEPT !.status = st].status = st
        BY <2>1 DEF Subscription
      <4> HIDE DEF s
      <4> QED
        BY <4>1, <4>2, <4>3
    <3>2. CASE CancelByProvider(w)
      <4> DEFINE row == [subs[s] EXCEPT !.status = "CANCELED", !.end = now]
      <4>1. subs' = [subs EXCEPT ![s] = row]
        BY <3>2 DEF CancelByProvider
      <4>2. row.org = subs[s].org /\ row.status = "CANCELED"
        BY <2>1 DEF Subscription
      <4> HIDE DEF row, s
      <4> QED
        BY <4>1, <4>2
    <3> QED
      BY <1>5, <3>1, <3>2
  <2>3. MarkPastDue(w) => charge[work[w].ref] = "failed"
    BY DEF MarkPastDue, RecInv, Requests, RequestOK
  <2>4. /\ DOMAIN subs' = DOMAIN subs
        /\ \A t \in DOMAIN subs : /\ subs'[t].org = subs[t].org
                                  /\ t # s => subs'[t] = subs[t]
                                  /\ t = s => subs'[t] = row
    BY <2>1, <2>2
  <2> QED
    BY <2>1, <2>2, <2>3, <2>4 DEF WorkersWritten
<1> QED
  BY <1>1, <1>2, <1>3, <1>4, <1>5 DEF Next, Step
==============================================================================

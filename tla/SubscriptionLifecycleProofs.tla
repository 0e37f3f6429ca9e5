--------------------- MODULE SubscriptionLifecycleProofs ---------------------
(***************************************************************************)
(* Theorems about SubscriptionLifecycle, for any organizations, plans,     *)
(* number of overlapping requests and bounds.                              *)
(***************************************************************************)
EXTENDS SubscriptionLifecycle, SumProofs, FiniteSetTheorems, SequenceTheorems,
        WellFoundedInduction, TLAPS

(***************************************************************************)
(* Lemmas about the data                                                   *)
(***************************************************************************)

(* A nonempty set of positions has a last one. *)
LEMMA LastExists ==
  ASSUME NEW n \in Nat, NEW S \in SUBSET (1..n), S # {}
  PROVE  \E s \in S : \A t \in S : t <= s
<1> DEFINE T == {n - s : s \in S}
           Less == OpToRel(<, Nat)
<1>1. \A s \in S : s \in 1..n /\ n - s \in Nat
  OBVIOUS
<1>2. T \in SUBSET Nat /\ T # {}
  BY <1>1, Zenon
<1>3. IsWellFoundedOn(Less, Nat)
  BY NatLessThanWellFounded
<1>4. \A i, j \in Nat : <<i, j>> \in Less <=> i < j
  BY DEF OpToRel
<1> HIDE DEF Less
<1>6. PICK x \in T : \A y \in T : ~(<<y, x>> \in Less)
  BY <1>2, <1>3, WFMin, Zenon
<1>7. \A y \in T : x <= y
  <2> HIDE DEF T
  <2> SUFFICES ASSUME NEW y \in T PROVE x <= y
    OBVIOUS
  <2>1. x \in Nat /\ y \in Nat
    BY <1>2, <1>6
  <2>2. ~(<<y, x>> \in Less)
    BY <1>6
  <2>3. ~(y < x)
    BY <1>4, <2>1, <2>2
  <2> QED
    BY <2>1, <2>3
<1>8. PICK s \in S : x = n - s
  OBVIOUS
<1>9. \A t \in S : n - s <= n - t
  BY <1>7, <1>8
<1> QED
  BY <1>1, <1>8, <1>9

(* Rows are updated in place. *)
LEMMA UpdateRow ==
  ASSUME NEW R, NEW s \in Seq(R), NEW k \in DOMAIN s, NEW r \in R
  PROVE  /\ [s EXCEPT ![k] = r] \in Seq(R)
         /\ DOMAIN [s EXCEPT ![k] = r] = DOMAIN s
         /\ Len([s EXCEPT ![k] = r]) = Len(s)
  BY ExceptSeq

(* Rows are added at the end. *)
LEMMA AddRow ==
  ASSUME NEW R, NEW s \in Seq(R), NEW r \in R
  PROVE  /\ Append(s, r) \in Seq(R)
         /\ Len(Append(s, r)) = Len(s) + 1
         /\ DOMAIN Append(s, r) = DOMAIN s \cup {Len(s) + 1}
         /\ Append(s, r)[Len(s) + 1] = r
         /\ \A k \in DOMAIN s : Append(s, r)[k] = s[k]
  OBVIOUS

LEMMA NumberedIsFinite ==
  ASSUME invoices \in Seq(Invoice)
  PROVE  \A o, m : IsFiniteSet(Numbered(o, m))
<1>1. IsFiniteSet(DOMAIN invoices)
  BY FS_Interval
<1> QED
  BY <1>1, FS_Subset DEF Numbered

(* Newest is a current subscription of the organization. *)
LEMMA NewestIsCurrent ==
  ASSUME subs \in Seq(Subscription), NEW o, Current(o) # {}
  PROVE  Newest(o) \in Current(o)
<1>1. Current(o) \in SUBSET (1..Len(subs)) /\ Len(subs) \in Nat
  BY DEF Current
<1>2. \E s \in Current(o) : \A t \in Current(o) : t <= s
  BY <1>1, LastExists
<1> QED
  BY <1>2 DEF Newest

(***************************************************************************)
(* Type correctness.  A handler updates a row by the id it read, so the    *)
(* types of the tables need that the id names a row and that the plan the  *)
(* handler writes is one.                                                  *)
(***************************************************************************)

Located(r, ids) ==
    /\ r.pc # "idle" => r.org \in Orgs /\ r.op # None
    /\ r.pc = "create" => r.tier \in Tiers /\ r.interval \in Intervals
    /\ r.pc = "update" /\ r.op = "renew" => r.interval \in Intervals
    /\ r.pc = "update" /\ r.op = "change" => r.tier \in Tiers /\ r.interval \in Intervals
    /\ r.pc \notin {"idle", "create"} => r.sub \in ids

TypeInv ==
    /\ TypeOK
    /\ \A h \in Handlers : Located(req[h], DOMAIN subs)

(* Idle is a request, and starting one fills in its fields. *)
LEMMA IdleIsRequest == Idle \in Request
  BY DEF Idle, Request, Pc, Op, InvoiceNumber, None

LEMMA PriceIsNat ==
  ASSUME NEW t \in Tiers, NEW i \in Intervals
  PROVE  Price[t][i] \in Nat /\ Months[i] \in Nat
  BY LifecycleAssumption

LEMMA InitTyped == Init => TypeInv
<1> SUFFICES ASSUME Init PROVE TypeInv
  OBVIOUS
<1>1. TablesOK
  BY DEF Init, EmptyTables, TablesOK
<1>2. revenue \in Seq(RevenueEvent) /\ req \in [Handlers -> Request]
  BY IdleIsRequest DEF Init
<1>3. \A h \in Handlers : Located(req[h], DOMAIN subs)
  BY DEF Init, Located, Idle
<1> QED
  BY <1>1, <1>2, <1>3 DEF TypeInv, TypeOK

(* What a step of handler h owes to the type invariant when it changes no  *)
(* row of subs' ids: the tables it writes, and its own request.            *)
LEMMA HandlerStep ==
  ASSUME TypeInv, NEW h \in Handlers, NEW r \in Request,
         req' = [req EXCEPT ![h] = r], TablesOK', revenue' \in Seq(RevenueEvent),
         DOMAIN subs \subseteq DOMAIN subs', Located(r, DOMAIN subs')
  PROVE  TypeInv'
<1>1. req' \in [Handlers -> Request]
  BY DEF TypeInv, TypeOK
<1>2. ASSUME NEW g \in Handlers PROVE Located(req'[g], DOMAIN subs')
  <2>1. CASE g = h
    <3>1. req'[g] = r
      BY <2>1 DEF TypeInv, TypeOK
    <3> QED
      BY <3>1 DEF Located
  <2>2. CASE g # h
    <3>1. req'[g] = req[g]
      BY <2>2 DEF TypeInv, TypeOK
    <3> QED
      BY <3>1 DEF TypeInv, Located
  <2> QED
    BY <2>1, <2>2
<1> QED
  BY <1>1, <1>2 DEF TypeInv, TypeOK

(* A handler that ends. *)
LEMMA ForgetTyped ==
  ASSUME TypeInv, NEW h \in Handlers, req' = [req EXCEPT ![h] = Idle],
         UNCHANGED tables, revenue' \in Seq(RevenueEvent)
  PROVE  TypeInv'
<1>1. TablesOK' /\ subs' = subs
  BY DEF TypeInv, TypeOK, TablesOK, tables
<1>2. Located(Idle, DOMAIN subs')
  BY DEF Located, Idle
<1> QED
  BY <1>1, <1>2, IdleIsRequest, HandlerStep

LEMMA StartTyped ==
  ASSUME TypeInv, NEW h \in Handlers, Start(h)
  PROVE  TypeInv'
<1>1. /\ subs \in Seq(Subscription)
      /\ \A o \in Orgs : HasCurrent(o) => Newest(o) \in DOMAIN subs
  BY NewestIsCurrent DEF TypeInv, TypeOK, TablesOK, HasCurrent, Current
<1>2. UNCHANGED <<tables, revenue>> => TablesOK' /\ revenue' \in Seq(RevenueEvent)
  BY DEF TypeInv, TypeOK, TablesOK, tables
<1>3. PICK o \in Orgs :
         \/ Renew(h, o)
         \/ Cancel(h, o)
         \/ \E t \in Tiers, i \in Intervals : Subscribe(h, o, t, i) \/ ChangePlan(h, o, t, i)
  BY DEF Start
<1>4. CASE Renew(h, o)
  <2> DEFINE s == Newest(o)
             r == [Idle EXCEPT !.pc = "update", !.op = "renew",
                      !.org = o, !.sub = s, !.interval = subs[s].interval,
                      !.due = subs[s].end,
                      !.amount = Price[subs[s].tier][subs[s].interval]]
  <2>1. s \in DOMAIN subs /\ subs[s] \in Subscription /\ s \in Nat
    BY <1>1, <1>4 DEF Renew
  <2>2. Price[subs[s].tier][subs[s].interval] \in Int
    BY <2>1, PriceIsNat DEF Subscription
  <2>7. subs[s].interval \in Intervals /\ subs[s].end \in Nat
    BY <2>1 DEF Subscription
  <2>3. r \in Request
    <3> HIDE DEF s
    <3> QED BY <2>1, <2>2, <2>7, IdleIsRequest DEF Request, Pc, Op
  <2>4. subs' = subs /\ req' = [req EXCEPT ![h] = r]
    BY <1>4 DEF Renew, tables
  <2>5. Located(r, DOMAIN subs')
    <3> HIDE DEF s
    <3> QED BY <2>1, <2>4, <2>7 DEF Located, Idle, None
  <2>6. UNCHANGED <<tables, revenue>>
    BY <1>4 DEF Renew
  <2> HIDE DEF r
  <2> QED
    BY <1>2, <2>3, <2>4, <2>5, <2>6, HandlerStep
<1>5. CASE Cancel(h, o)
  <2> DEFINE r == [Idle EXCEPT !.pc = "update", !.op = "cancel",
                      !.org = o, !.sub = Newest(o)]
  <2>1. Newest(o) \in DOMAIN subs /\ Newest(o) \in Nat
    BY <1>1, <1>5 DEF Cancel
  <2>2. r \in Request
    BY <2>1, IdleIsRequest DEF Request, Pc, Op
  <2>3. UNCHANGED <<tables, revenue>> /\ req' = [req EXCEPT ![h] = r]
    BY <1>5 DEF Cancel
  <2>4. Located(r, DOMAIN subs') /\ subs' = subs
    BY <2>1, <2>3 DEF Located, Idle, None, tables
  <2> HIDE DEF r
  <2> QED
    BY <1>2, <2>2, <2>3, <2>4, HandlerStep
<1>6. ASSUME NEW t \in Tiers, NEW i \in Intervals, Subscribe(h, o, t, i)
      PROVE  TypeInv'
  <2> DEFINE r == [Idle EXCEPT !.pc = "create", !.op = "subscribe",
                  !.org = o, !.tier = t, !.interval = i, !.amount = Price[t][i]]
  <2>4. Price[t][i] \in Int
    BY PriceIsNat
  <2>1. r \in Request
    BY <2>4, IdleIsRequest DEF Request, Pc, Op
  <2>2. UNCHANGED <<tables, revenue>> /\ req' = [req EXCEPT ![h] = r]
    BY <1>6 DEF Subscribe
  <2>3. Located(r, DOMAIN subs') /\ subs' = subs
    BY <2>2 DEF Located, Idle, None, tables
  <2> HIDE DEF r
  <2> QED
    BY <1>2, <2>1, <2>2, <2>3, HandlerStep
<1>7. ASSUME NEW t \in Tiers, NEW i \in Intervals, ChangePlan(h, o, t, i)
      PROVE  TypeInv'
  <2> DEFINE s == Newest(o)
             r == [Idle EXCEPT !.pc = "update", !.op = "change",
                      !.org = o, !.sub = s, !.tier = t, !.interval = i,
                      !.amount = PriceDifference(s, t, i)]
  <2>1. s \in DOMAIN subs /\ subs[s] \in Subscription /\ s \in Nat
    BY <1>1, <1>7 DEF ChangePlan
  <2>2. PriceDifference(s, t, i) \in Int
    BY <2>1, PriceIsNat DEF Subscription, PriceDifference
  <2>3. r \in Request
    <3> HIDE DEF s
    <3> QED BY <2>1, <2>2, IdleIsRequest DEF Request, Pc, Op
  <2>4. UNCHANGED <<tables, revenue>> /\ req' = [req EXCEPT ![h] = r]
    BY <1>7 DEF ChangePlan
  <2>5. Located(r, DOMAIN subs') /\ subs' = subs
    <3> HIDE DEF s
    <3> QED BY <2>1, <2>4 DEF Located, Idle, None, tables
  <2> HIDE DEF r
  <2> QED
    BY <1>2, <2>3, <2>4, <2>5, HandlerStep
<1> QED
  BY <1>3, <1>4, <1>5, <1>6, <1>7

LEMMA ContinueTyped ==
  ASSUME TypeInv, NEW h \in Handlers, Continue(h)
  PROVE  TypeInv'
<1>1. /\ TablesOK
      /\ revenue \in Seq(RevenueEvent)
      /\ req[h] \in Request
      /\ Located(req[h], DOMAIN subs)
      /\ Len(subs) \in Nat
  BY DEF TypeInv, TypeOK, TablesOK
<1>2. CASE CreateSubscription(h)
  <2> DEFINE row == [org |-> req[h].org, tier |-> req[h].tier,
                   interval |-> req[h].interval, status |-> "ACTIVE",
                   end |-> PeriodEnd(now, req[h].interval)]
             r == [req[h] EXCEPT !.pc = "number", !.sub = Len(subs) + 1, !.due = now]
  <2>1. req[h].org \in Orgs /\ req[h].tier \in Tiers /\ req[h].interval \in Intervals
    BY <1>1, <1>2 DEF CreateSubscription, Located
  <2>2. PeriodEnd(now, req[h].interval) \in Nat
    <3>1. Months[req[h].interval] \in Nat /\ now \in Nat
      BY <1>1, <2>1, LifecycleAssumption DEF TablesOK
    <3> QED
      BY <3>1 DEF PeriodEnd
  <2>3. row \in Subscription
    BY <2>1, <2>2 DEF Subscription, SubscriptionStatus
  <2>4. r \in Request
    <3>1. Len(subs) + 1 \in Nat /\ now \in Nat /\ "number" \in Pc
      BY <1>1 DEF Pc, TablesOK
    <3> QED
      BY <1>1, <3>1 DEF Request
  <2>5. /\ subs' = Append(subs, row)
        /\ req' = [req EXCEPT ![h] = r]
        /\ UNCHANGED <<invoices, payments, charge, now, revenue>>
    BY <1>2 DEF CreateSubscription
  <2> HIDE DEF row
  <2>6. subs' \in Seq(Subscription) /\ DOMAIN subs' = DOMAIN subs \cup {Len(subs) + 1}
    BY <1>1, <2>3, <2>5, AddRow DEF TablesOK
  <2>7. TablesOK' /\ revenue' \in Seq(RevenueEvent)
    BY <1>1, <2>5, <2>6 DEF TablesOK
  <2>8. Located(r, DOMAIN subs')
    BY <1>1, <1>2, <2>1, <2>6 DEF Located, CreateSubscription, Request
  <2> HIDE DEF r
  <2> QED
    BY <2>4, <2>5, <2>6, <2>7, <2>8, HandlerStep
<1>3. CASE ExtendPeriod(h)
  <2> DEFINE row == [subs[req[h].sub] EXCEPT !.status = "ACTIVE",
                   !.end = PeriodEnd(req[h].due, req[h].interval)]
             r == [req[h] EXCEPT !.pc = "number"]
  <2>1. req[h].sub \in DOMAIN subs /\ req[h].interval \in Intervals
    BY <1>1, <1>3 DEF ExtendPeriod, Located
  <2>2. PeriodEnd(req[h].due, req[h].interval) \in Nat
    <3>1. Months[req[h].interval] \in Nat /\ req[h].due \in Nat
      BY <1>1, <2>1, LifecycleAssumption DEF Request
    <3> QED
      BY <3>1 DEF PeriodEnd
  <2>3. row \in Subscription
    <3>1. subs[req[h].sub] \in Subscription
      BY <1>1, <2>1 DEF TablesOK
    <3> QED
      BY <2>2, <3>1 DEF Subscription, SubscriptionStatus
  <2>4. r \in Request
    BY <1>1 DEF Request, Pc
  <2>5. /\ subs' = [subs EXCEPT ![req[h].sub] = row]
        /\ req' = [req EXCEPT ![h] = r]
        /\ UNCHANGED <<invoices, payments, charge, now, revenue>>
    BY <1>1, <1>3 DEF ExtendPeriod, TypeInv, TypeOK
  <2> HIDE DEF row
  <2>6. subs' \in Seq(Subscription) /\ DOMAIN subs' = DOMAIN subs
    BY <1>1, <2>1, <2>3, <2>5, UpdateRow DEF TablesOK
  <2>7. TablesOK' /\ revenue' \in Seq(RevenueEvent)
    BY <1>1, <2>5, <2>6 DEF TablesOK
  <2>8. Located(r, DOMAIN subs')
    BY <1>1, <1>3, <2>6 DEF Located, ExtendPeriod, Request
  <2> HIDE DEF r
  <2> QED
    BY <2>4, <2>5, <2>6, <2>7, <2>8, HandlerStep
<1>4. CASE SwitchPlan(h)
  <2> DEFINE row == [subs[req[h].sub] EXCEPT !.status = "ACTIVE",
                   !.tier = req[h].tier, !.interval = req[h].interval]
             r == [req[h] EXCEPT !.due = now,
                  !.pc = IF Billable(req[h].amount) THEN "number" ELSE "recognise"]
  <2>1. req[h].sub \in DOMAIN subs /\ req[h].tier \in Tiers /\ req[h].interval \in Intervals
    BY <1>1, <1>4 DEF SwitchPlan, Located
  <2>2. row \in Subscription
    <3>1. subs[req[h].sub] \in Subscription
      BY <1>1, <2>1 DEF TablesOK
    <3> QED
      BY <2>1, <3>1 DEF Subscription, SubscriptionStatus
  <2>4. r \in Request
    BY <1>1 DEF Request, Pc, TablesOK
  <2>5. /\ subs' = [subs EXCEPT ![req[h].sub] = row]
        /\ req' = [req EXCEPT ![h] = r]
        /\ UNCHANGED <<invoices, payments, charge, now, revenue>>
    BY <1>1, <1>4 DEF SwitchPlan
  <2> HIDE DEF row
  <2>6. subs' \in Seq(Subscription) /\ DOMAIN subs' = DOMAIN subs
    BY <1>1, <2>1, <2>2, <2>5, UpdateRow DEF TablesOK
  <2>7. TablesOK' /\ revenue' \in Seq(RevenueEvent)
    BY <1>1, <2>5, <2>6 DEF TablesOK
  <2>8. Located(r, DOMAIN subs')
    BY <1>1, <1>4, <2>6 DEF Located, SwitchPlan, Request
  <2> HIDE DEF r
  <2> QED
    BY <2>4, <2>5, <2>6, <2>7, <2>8, HandlerStep
<1>5. CASE EndSubscription(h)
  <2> DEFINE row == [subs[req[h].sub] EXCEPT !.status = "CANCELED", !.end = now]
             r == [req[h] EXCEPT !.pc = "recognise"]
  <2>1. req[h].sub \in DOMAIN subs
    BY <1>1, <1>5 DEF EndSubscription, Located
  <2>2. row \in Subscription
    <3>1. subs[req[h].sub] \in Subscription
      BY <1>1, <2>1 DEF TablesOK
    <3> QED
      BY <1>1, <3>1 DEF Subscription, SubscriptionStatus, TablesOK
  <2>4. r \in Request
    BY <1>1 DEF Request, Pc
  <2>5. /\ subs' = [subs EXCEPT ![req[h].sub] = row]
        /\ req' = [req EXCEPT ![h] = r]
        /\ UNCHANGED <<invoices, payments, charge, now, revenue>>
    BY <1>1, <1>5 DEF EndSubscription, TypeInv, TypeOK
  <2> HIDE DEF row
  <2>6. subs' \in Seq(Subscription) /\ DOMAIN subs' = DOMAIN subs
    BY <1>1, <2>1, <2>2, <2>5, UpdateRow DEF TablesOK
  <2>7. TablesOK' /\ revenue' \in Seq(RevenueEvent)
    BY <1>1, <2>5, <2>6 DEF TablesOK
  <2>8. Located(r, DOMAIN subs')
    BY <1>1, <1>5, <2>6 DEF Located, EndSubscription, Request
  <2> HIDE DEF r
  <2> QED
    BY <2>4, <2>5, <2>6, <2>7, <2>8, HandlerStep
<1>6. CASE NumberInvoice(h)
  <2> DEFINE number == [month |-> now, count |-> NextCount(req[h].org, now)]
             r == [req[h] EXCEPT !.pc = "insert", !.number = number]
  <2>1. number \in InvoiceNumber
    <3>1. NextCount(req[h].org, now) \in Nat
      BY <1>1, NumberedIsFinite, FS_CardinalityType DEF NextCount, TablesOK
    <3> QED
      BY <1>1, <3>1 DEF InvoiceNumber, TablesOK
  <2>4. r \in Request
    <3> HIDE DEF number
    <3> QED
      BY <1>1, <2>1 DEF Request, Pc
  <2>5. req' = [req EXCEPT ![h] = r] /\ UNCHANGED <<tables, revenue>>
    BY <1>6 DEF NumberInvoice
  <2>7. TablesOK' /\ revenue' \in Seq(RevenueEvent) /\ subs' = subs
    BY <1>1, <2>5 DEF TablesOK, tables
  <2>8. Located(r, DOMAIN subs')
    BY <1>1, <1>6, <2>7 DEF Located, NumberInvoice, Request
  <2> HIDE DEF r
  <2> QED
    BY <2>4, <2>5, <2>7, <2>8, HandlerStep
<1>7. CASE InsertInvoice(h)
  <2> DEFINE row == [org |-> req[h].org, sub |-> req[h].sub,
                       number |-> req[h].number, due |-> req[h].due,
                       status |-> "ISSUED"]
             r == [req[h] EXCEPT !.invoice = Len(invoices) + 1,
                  !.pc = AfterInvoice(req[h].op)]
  <2>1. row \in Invoice /\ Len(invoices) \in Nat
    <3>1. req[h].org \in Orgs
      BY <1>1, <1>7 DEF InsertInvoice, Located
    <3> QED
      BY <1>1, <3>1 DEF Invoice, InvoiceStatus, Request, TablesOK
  <2>2. AfterInvoice(req[h].op) \in {"recognise", "pay"}
    BY DEF AfterInvoice
  <2>4. r \in Request
    <3>1. Len(invoices) + 1 \in Nat /\ AfterInvoice(req[h].op) \in Pc
      BY <2>1, <2>2 DEF Pc
    <3> QED
      BY <1>1, <3>1 DEF Request
  <2>5. /\ invoices' = Append(invoices, row)
        /\ req' = [req EXCEPT ![h] = r]
        /\ UNCHANGED <<subs, payments, charge, now, revenue>>
    BY <1>7 DEF InsertInvoice
  <2> HIDE DEF row
  <2>6. invoices' \in Seq(Invoice)
    BY <1>1, <2>1, <2>5, AddRow DEF TablesOK
  <2>7. TablesOK' /\ revenue' \in Seq(RevenueEvent)
    BY <1>1, <2>5, <2>6 DEF TablesOK
  <2>8. Located(r, DOMAIN subs')
    BY <1>1, <1>7, <2>2, <2>5 DEF Located, InsertInvoice, Request
  <2> HIDE DEF r
  <2> QED
    BY <2>4, <2>5, <2>7, <2>8, HandlerStep
<1>8. CASE RejectInvoice(h)
  <2>1. req' = [req EXCEPT ![h] = Idle] /\ UNCHANGED <<tables, revenue>>
    BY <1>8 DEF RejectInvoice
  <2>2. UNCHANGED tables /\ revenue' \in Seq(RevenueEvent)
    BY <1>1, <2>1
  <2> QED
    BY <2>1, <2>2, ForgetTyped
<1>9. CASE CreatePayment(h)
  <2> DEFINE r == [req[h] EXCEPT !.pc = "checkout", !.payment = Len(payments) + 1]
  <2>1. NewPayment(req[h]) \in Payment /\ Len(payments) \in Nat
    BY <1>1 DEF NewPayment, Payment, PaymentStatus, Request, TablesOK
  <2>4. r \in Request
    <3>1. Len(payments) + 1 \in Nat /\ "checkout" \in Pc
      BY <2>1 DEF Pc
    <3> QED
      BY <1>1, <3>1 DEF Request
  <2>5. /\ payments' = Append(payments, NewPayment(req[h]))
        /\ charge' = Append(charge, "none")
        /\ req' = [req EXCEPT ![h] = r]
        /\ UNCHANGED <<subs, invoices, now, revenue>>
    BY <1>9 DEF CreatePayment
  <2>6. /\ payments' \in Seq(Payment) /\ Len(payments') = Len(payments) + 1
        /\ charge' \in Seq(ChargeStatus) /\ Len(charge') = Len(charge) + 1
    <3>1. "none" \in ChargeStatus
      BY DEF ChargeStatus
    <3> QED
      BY <1>1, <2>1, <2>5, <3>1, AddRow DEF TablesOK
  <2>7. TablesOK' /\ revenue' \in Seq(RevenueEvent)
    BY <1>1, <2>5, <2>6 DEF TablesOK
  <2>8. Located(r, DOMAIN subs')
    BY <1>1, <1>9, <2>5 DEF Located, CreatePayment, Request
  <2> HIDE DEF r
  <2> QED
    BY <2>4, <2>5, <2>7, <2>8, HandlerStep
<1>10. CASE Checkout(h)
  <2> DEFINE r == [req[h] EXCEPT !.pc = "recognise"]
  <2>4. r \in Request
    BY <1>1 DEF Request, Pc
  <2>5. /\ charge' = [charge EXCEPT ![req[h].payment] = "open"]
        /\ req' = [req EXCEPT ![h] = r]
        /\ UNCHANGED <<subs, invoices, payments, now, revenue>>
    BY <1>1, <1>10 DEF Checkout, TypeInv, TypeOK
  <2>6. charge' \in Seq(ChargeStatus) /\ Len(charge') = Len(charge)
    <3>1. "open" \in ChargeStatus
      BY DEF ChargeStatus
    <3>2. CASE req[h].payment \in DOMAIN charge
      BY <1>1, <2>5, <3>1, <3>2, UpdateRow DEF TablesOK
    <3>3. CASE req[h].payment \notin DOMAIN charge
      <4>1. charge' = charge
        BY <1>1, <2>5, <3>3 DEF TablesOK
      <4> QED
        BY <1>1, <4>1 DEF TablesOK
    <3> QED
      BY <3>2, <3>3
  <2>7. TablesOK' /\ revenue' \in Seq(RevenueEvent)
    BY <1>1, <2>5, <2>6 DEF TablesOK
  <2>8. Located(r, DOMAIN subs')
    BY <1>1, <1>10, <2>5 DEF Located, Checkout, Request
  <2> HIDE DEF r
  <2> QED
    BY <2>4, <2>5, <2>7, <2>8, HandlerStep
<1>11. CASE Recognise(h)
  <2> DEFINE row == [sub |-> req[h].sub, invoice |-> req[h].invoice,
                      type |-> EventType(req[h]), amount |-> Magnitude(req[h].amount)]
  <2>1. row \in RevenueEvent
    <3>1. EventType(req[h]) \in RevenueType
      BY <1>1, <1>11 DEF Recognise, EventType, RevenueType, Located, Request, Op
    <3>2. Magnitude(req[h].amount) \in Nat
      BY <1>1 DEF Magnitude, Request
    <3> QED
      BY <1>1, <3>1, <3>2 DEF RevenueEvent, Request
  <2>2. /\ revenue' = Append(revenue, row)
        /\ req' = [req EXCEPT ![h] = Idle]
        /\ UNCHANGED tables
    BY <1>11 DEF Recognise
  <2> HIDE DEF row
  <2>3. revenue' \in Seq(RevenueEvent)
    BY <1>1, <2>1, <2>2, AddRow
  <2> QED
    BY <2>2, <2>3, ForgetTyped
<1> QED
  BY <1>2, <1>3, <1>4, <1>5, <1>6, <1>7, <1>8, <1>9, <1>10, <1>11 DEF Continue

LEMMA StepTyped == TypeInv /\ [Next]_vars => TypeInv'
<1> SUFFICES ASSUME TypeInv, [Next]_vars PROVE TypeInv'
  OBVIOUS
<1>1. CASE MonthPasses
  BY <1>1 DEF MonthPasses, TypeInv, TypeOK, TablesOK, Located
<1>2. ASSUME NEW h \in Handlers, CallFails(h) PROVE TypeInv'
  BY <1>2, ForgetTyped DEF CallFails, TypeInv, TypeOK, tables
<1>3. CASE UNCHANGED vars
  BY <1>3 DEF vars, TypeInv, TypeOK, TablesOK, Located
<1> QED
  BY <1>1, <1>2, <1>3, StartTyped, ContinueTyped DEF Next

(* Every table and every request keeps its type, whatever overlaps or      *)
(* fails.                                                                  *)
THEOREM TypeCorrect == Spec => []TypeOK
<1>1. TypeInv => TypeOK
  BY DEF TypeInv
<1> QED
  BY <1>1, InitTyped, StepTyped, PTL DEF Spec

(***************************************************************************)
(* Invoice numbers.  That the numbers of an organization and a month are   *)
(* 1..n is not inductive alone: a handler between its count and its        *)
(* create holds a number that other handlers may use meanwhile.  What it   *)
(* holds is at most n + 1, so the unique constraint lets it in only when   *)
(* it is exactly n + 1.                                                    *)
(***************************************************************************)

(* Numbered, their counts and how many they are, of a given table. *)
Of(rows, o, m) == {k \in DOMAIN rows : rows[k].org = o /\ rows[k].number.month = m}
Counts(rows, o, m) == {rows[k].number.count : k \in Of(rows, o, m)}
Many(rows, o, m) == Cardinality(Of(rows, o, m))

NumberingInv ==
    /\ \A o \in Orgs, m \in Nat : Counts(invoices, o, m) = 1..Many(invoices, o, m)
    /\ \A h \in Handlers : req[h].pc = "insert" =>
           req[h].number.count \in 1..(Many(invoices, req[h].org, req[h].number.month) + 1)

LEMMA ManyIsNat ==
  ASSUME NEW rows \in Seq(Invoice), NEW o, NEW m
  PROVE  IsFiniteSet(Of(rows, o, m)) /\ Many(rows, o, m) \in Nat
<1>1. IsFiniteSet(DOMAIN rows) /\ Of(rows, o, m) \subseteq DOMAIN rows
  BY FS_Interval DEF Of
<1>2. IsFiniteSet(Of(rows, o, m))
  BY <1>1, FS_Subset
<1> QED
  BY <1>2, FS_CardinalityType DEF Many

(* A new row is one more invoice of its own organization and month, and of *)
(* no other.                                                               *)
LEMMA AddNumbered ==
  ASSUME NEW rows \in Seq(Invoice), NEW row \in Invoice, NEW o, NEW m
  PROVE  LET mine == row.org = o /\ row.number.month = m
             more == Append(rows, row)
         IN  /\ mine => /\ Counts(more, o, m) = Counts(rows, o, m) \cup {row.number.count}
                        /\ Many(more, o, m) = Many(rows, o, m) + 1
             /\ ~mine => /\ Counts(more, o, m) = Counts(rows, o, m)
                         /\ Many(more, o, m) = Many(rows, o, m)
<1> DEFINE new == Len(rows) + 1
           more == Append(rows, row)
<1>1. /\ DOMAIN more = DOMAIN rows \cup {new}
      /\ more[new] = row
      /\ \A k \in DOMAIN rows : more[k] = rows[k] /\ k # new
  BY AddRow
<1>2. new \notin Of(rows, o, m) /\ Of(rows, o, m) \subseteq DOMAIN rows
  BY <1>1 DEF Of
<1>3. IsFiniteSet(Of(rows, o, m))
  BY ManyIsNat
<1> HIDE DEF new, more
<1>4. ASSUME row.org = o, row.number.month = m
      PROVE  /\ Counts(more, o, m) = Counts(rows, o, m) \cup {row.number.count}
             /\ Many(more, o, m) = Many(rows, o, m) + 1
  <2>1. Of(more, o, m) = Of(rows, o, m) \cup {new}
    BY <1>1, <1>4 DEF Of
  <2>2. Cardinality(Of(rows, o, m) \cup {new}) = Cardinality(Of(rows, o, m)) + 1
    BY <1>2, <1>3, FS_AddElement
  <2>3. Counts(more, o, m) = Counts(rows, o, m) \cup {row.number.count}
    BY <1>1, <1>2, <2>1 DEF Counts
  <2> QED
    BY <2>1, <2>2, <2>3 DEF Many
<1>5. ASSUME ~(row.org = o /\ row.number.month = m)
      PROVE  /\ Counts(more, o, m) = Counts(rows, o, m)
             /\ Many(more, o, m) = Many(rows, o, m)
  <2>1. Of(more, o, m) = Of(rows, o, m)
    BY <1>1, <1>5 DEF Of
  <2> QED
    BY <1>1, <1>2, <2>1 DEF Counts, Many
<1> QED
  BY <1>4, <1>5 DEF more

LEMMA InitNumbering == Init => NumberingInv
<1> SUFFICES ASSUME Init PROVE NumberingInv
  OBVIOUS
<1>1. \A o, m : Of(invoices, o, m) = {}
  BY DEF Init, EmptyTables, Of
<1>2. Cardinality({}) = 0
  BY FS_EmptySet
<1>3. \A h \in Handlers : req[h].pc # "insert"
  BY DEF Init, Idle
<1> QED
  BY <1>1, <1>2, <1>3 DEF NumberingInv, Counts, Many

(* A step that adds no invoice and puts no handler between count and       *)
(* create.                                                                 *)
LEMMA NumberingKept ==
  ASSUME NumberingInv, invoices' = invoices,
         \A h \in Handlers : req'[h].pc = "insert" => req'[h] = req[h]
  PROVE  NumberingInv'
  BY DEF NumberingInv

LEMMA CountedNumbering ==
  ASSUME TypeInv, NumberingInv, NEW h \in Handlers, NumberInvoice(h)
  PROVE  NumberingInv'
<1> DEFINE o == req[h].org
           r == [req[h] EXCEPT !.pc = "insert",
                  !.number = [month |-> now, count |-> NextCount(o, now)]]
<1>1. invoices' = invoices /\ req' = [req EXCEPT ![h] = r]
  BY DEF NumberInvoice, tables
<1>2. /\ req \in [Handlers -> Request] /\ req[h] \in Request
      /\ invoices \in Seq(Invoice)
  BY DEF TypeInv, TypeOK, TablesOK
<1>3. Many(invoices, o, now) \in Nat
  BY <1>2, ManyIsNat
<1>4. r.org = o /\ r.number.month = now /\ r.number.count = NextCount(o, now)
  BY <1>2 DEF Request
<1>5. NextCount(o, now) \in 1..(Many(invoices, o, now) + 1)
  BY <1>3 DEF NextCount, Many, Of, Numbered
<1> HIDE DEF r
<1>6. ASSUME NEW g \in Handlers, req'[g].pc = "insert"
      PROVE  req'[g].number.count
                 \in 1..(Many(invoices', req'[g].org, req'[g].number.month) + 1)
  <2>1. CASE g = h
    <3>1. req'[g] = r
      BY <1>1, <1>2, <2>1
    <3> QED
      BY <1>1, <1>4, <1>5, <3>1
  <2>2. CASE g # h
    <3>1. req'[g] = req[g]
      BY <1>1, <1>2, <2>2
    <3> QED
      BY <1>1, <1>6, <3>1 DEF NumberingInv
  <2> QED
    BY <2>1, <2>2
<1> QED
  BY <1>1, <1>6 DEF NumberingInv

LEMMA InsertedNumbering ==
  ASSUME TypeInv, NumberingInv, NEW h \in Handlers, InsertInvoice(h)
  PROVE  NumberingInv'
<1> DEFINE row == [org |-> req[h].org, sub |-> req[h].sub,
                       number |-> req[h].number, due |-> req[h].due,
                       status |-> "ISSUED"]
<1>1. /\ req \in [Handlers -> Request] /\ req[h] \in Request
      /\ invoices \in Seq(Invoice)
      /\ req[h].org \in Orgs /\ req[h].number \in InvoiceNumber /\ req[h].pc = "insert"
  BY DEF TypeInv, TypeOK, TablesOK, InsertInvoice, Located, Request
<1>2. row \in Invoice
  BY <1>1 DEF Invoice, InvoiceStatus, Request
<1>3. /\ invoices' = Append(invoices, row)
      /\ row.org = req[h].org /\ row.number = req[h].number
      /\ ~NumberTaken(req[h].org, req[h].number)
  BY DEF InsertInvoice
<1> HIDE DEF row
<1>4. \A o, m : Many(invoices, o, m) \in Nat
  BY <1>1, ManyIsNat
<1>5. \A g \in Handlers : req'[g].pc = "insert" => req'[g] = req[g]
  <2>1. AfterInvoice(req[h].op) # "insert"
    BY DEF AfterInvoice
  <2> QED
    BY <1>1, <2>1 DEF InsertInvoice
<1>6. ASSUME NEW o \in Orgs, NEW m \in Nat
      PROVE  /\ Counts(invoices', o, m) = 1..Many(invoices', o, m)
             /\ Many(invoices', o, m) \in {Many(invoices, o, m), Many(invoices, o, m) + 1}
  <2> DEFINE n == Many(invoices, o, m)
             c == row.number.count
  <2>1. Counts(invoices, o, m) = 1..n /\ n \in Nat
    BY <1>4 DEF NumberingInv
  <2>2. CASE row.org = o /\ row.number.month = m
    <3>1. Counts(invoices', o, m) = Counts(invoices, o, m) \cup {c} /\ Many(invoices', o, m) = n + 1
      <4>1. invoices \in Seq(Invoice) /\ invoices' = Append(invoices, row)
        BY <1>1, <1>3
      <4> QED
        BY <1>2, <2>2, <4>1, AddNumbered
    <3>2. c \in 1..(n + 1)
      BY <1>1, <1>3, <2>2 DEF NumberingInv
    <3>3. c \notin Counts(invoices, o, m)
      <4> SUFFICES ASSUME NEW k \in Of(invoices, o, m), invoices[k].number.count = c
                   PROVE  FALSE
        BY DEF Counts
      <4>1. k \in DOMAIN invoices /\ invoices[k].org = o /\ invoices[k].number.month = m
        BY DEF Of
      <4>2. invoices[k].number \in InvoiceNumber /\ row.number \in InvoiceNumber
        <5>1. invoices[k] \in Invoice
          BY <1>1, <4>1
        <5> QED
          BY <1>1, <1>3, <5>1 DEF Invoice
      <4>3. invoices[k].number = row.number
        BY <2>2, <4>1, <4>2 DEF InvoiceNumber
      <4> QED
        BY <1>3, <2>2, <4>1, <4>3 DEF NumberTaken
    <3> HIDE DEF c, n
    <3>4. c = n + 1
      BY <2>1, <3>2, <3>3
    <3>5. 1..(n + 1) = (1..n) \cup {n + 1}
      BY <2>1
    <3> QED
      BY <2>1, <3>1, <3>4, <3>5 DEF n
  <2>3. CASE ~(row.org = o /\ row.number.month = m)
    BY <1>1, <1>2, <1>3, <2>1, <2>3, AddNumbered
  <2> QED
    BY <2>2, <2>3
<1>7. ASSUME NEW g \in Handlers, req'[g].pc = "insert"
      PROVE  req'[g].number.count
                 \in 1..(Many(invoices', req'[g].org, req'[g].number.month) + 1)
  <2> DEFINE o == req[g].org
             m == req[g].number.month
  <2>1. req'[g] = req[g] /\ req[g].pc = "insert"
    BY <1>5, <1>7
  <2>2. o \in Orgs /\ m \in Nat
    BY <1>1, <2>1 DEF TypeInv, Located, Request, InvoiceNumber
  <2>3. req[g].number.count \in 1..(Many(invoices, o, m) + 1)
    BY <2>1 DEF NumberingInv
  <2>4. /\ Many(invoices', o, m) \in {Many(invoices, o, m), Many(invoices, o, m) + 1}
        /\ Many(invoices, o, m) \in Nat
    BY <1>4, <1>6, <2>2
  <2>5. req[g].number.count \in 1..(Many(invoices', o, m) + 1)
    <3> HIDE DEF o, m
    <3> QED
      BY <2>3, <2>4
  <2> QED
    BY <2>1, <2>5
<1> QED
  BY <1>6, <1>7 DEF NumberingInv

LEMMA StepNumbered == TypeInv /\ NumberingInv /\ [Next]_vars => NumberingInv'
<1> SUFFICES ASSUME TypeInv, NumberingInv, [Next]_vars PROVE NumberingInv'
  OBVIOUS
<1>1. req \in [Handlers -> Request]
  BY DEF TypeInv, TypeOK
<1>2. ASSUME NEW h \in Handlers, Start(h) PROVE NumberingInv'
  <2>1. invoices' = invoices
    BY <1>2 DEF Start, Renew, Cancel, Subscribe, ChangePlan, tables
  <2>2. \A g \in Handlers : req'[g].pc = "insert" => req'[g] = req[g]
    BY <1>1, <1>2 DEF Start, Renew, Cancel, Subscribe, ChangePlan, Idle
  <2> QED
    BY <2>1, <2>2, NumberingKept
<1>3. ASSUME NEW h \in Handlers, Continue(h) PROVE NumberingInv'
  <2>1. CASE NumberInvoice(h) \/ InsertInvoice(h)
    BY <2>1, CountedNumbering, InsertedNumbering
  <2>2. CASE ~(NumberInvoice(h) \/ InsertInvoice(h))
    <3>1. invoices' = invoices
      BY <1>3, <2>2 DEF Continue, CreateSubscription, ExtendPeriod, SwitchPlan,
         EndSubscription, RejectInvoice, CreatePayment, Checkout, Recognise, tables
    <3>2. \A g \in Handlers \ {h} : req'[g] = req[g]
      BY <1>1, <1>3, <2>2 DEF Continue, CreateSubscription, ExtendPeriod, SwitchPlan,
         EndSubscription, RejectInvoice, CreatePayment, Checkout, Recognise
    <3>3. req'[h].pc # "insert"
      <4>1. req[h] \in Request
        BY <1>1
      <4>2. CASE CreateSubscription(h) \/ ExtendPeriod(h) \/ EndSubscription(h)
        BY <1>1, <4>1, <4>2 DEF CreateSubscription, ExtendPeriod, EndSubscription, Request
      <4>3. CASE SwitchPlan(h)
        BY <1>1, <4>1, <4>3 DEF SwitchPlan, Request
      <4>4. CASE CreatePayment(h) \/ Checkout(h)
        BY <1>1, <4>1, <4>4 DEF CreatePayment, Checkout, Request
      <4>5. CASE RejectInvoice(h) \/ Recognise(h)
        BY <1>1, <4>5 DEF RejectInvoice, Recognise, Idle
      <4> QED
        BY <1>3, <2>2, <4>2, <4>3, <4>4, <4>5 DEF Continue
    <3> QED
      BY <3>1, <3>2, <3>3, NumberingKept
  <2> QED
    BY <2>1, <2>2
<1>4. ASSUME NEW h \in Handlers, CallFails(h) PROVE NumberingInv'
  <2>1. invoices' = invoices
    BY <1>4 DEF CallFails, tables
  <2>2. \A g \in Handlers : req'[g].pc = "insert" => req'[g] = req[g]
    BY <1>1, <1>4 DEF CallFails, Idle
  <2> QED
    BY <2>1, <2>2, NumberingKept
<1>5. CASE MonthPasses \/ UNCHANGED vars
  BY <1>5, NumberingKept DEF MonthPasses, vars
<1> QED
  BY <1>2, <1>3, <1>4, <1>5 DEF Next

(* The numbers of an organization's invoices of a month are 1..n, however  *)
(* many requests count and create at once and whichever of them fail: the  *)
(* count of generateInvoiceNumber is never below and never above what the  *)
(* unique constraint makes safe.                                           *)
THEOREM NumbersGapFree == Spec => []InvoiceNumbersGapFree
<1>1. TypeInv /\ NumberingInv => InvoiceNumbersGapFree
  <2>1. TypeInv => \A m \in 0..now : m \in Nat
    BY DEF TypeInv, TypeOK, TablesOK
  <2>2. \A o, m : Numbered(o, m) = Of(invoices, o, m)
    BY DEF Numbered, Of
  <2> QED
    BY <2>1, <2>2 DEF NumberingInv, InvoiceNumbersGapFree, Counts, Many
<1> QED
  BY <1>1, InitTyped, StepTyped, InitNumbering, StepNumbered, PTL DEF Spec

(***************************************************************************)
(* Payments and revenue rest on invoices.  A handler that has made an      *)
(* invoice is the only one that holds it, until it has recognised it; it   *)
(* made it for its subscription, which is one of its organization.         *)
(***************************************************************************)

Backs(r) ==
    /\ r.pc \notin {"idle", "create"} => subs[r.sub].org = r.org
    /\ r.pc \in {"idle", "create", "update", "number", "insert"} => r.invoice = 0
    /\ r.pc \in {"pay", "checkout"} => r.invoice # 0
    /\ r.pc = "recognise" /\ (r.op \in {"subscribe", "renew"} \/ (r.op = "change" /\ r.amount > 0))
           => r.invoice # 0
    /\ r.invoice # 0 =>
           /\ r.invoice \in DOMAIN invoices
           /\ invoices[r.invoice].sub = r.sub /\ invoices[r.invoice].org = r.org
           /\ \A e \in DOMAIN revenue : revenue[e].invoice # r.invoice
    /\ r.pc = "pay" => \A p \in DOMAIN payments : payments[p].invoice # r.invoice

BackInv ==
    /\ PaymentsLinked
    /\ RevenueBacked
    /\ \A h \in Handlers : Backs(req[h])
    /\ \A g, h \in Handlers :
           g # h /\ req[g].invoice # 0 => req[g].invoice # req[h].invoice

LEMMA InitBacked == Init => BackInv
  BY DEF Init, EmptyTables, Idle, BackInv, PaymentsLinked, RevenueBacked, Backs

(* Subscriptions keep their organization and invoices stay.                *)
Grows ==
    /\ \A s \in DOMAIN subs : s \in DOMAIN subs' /\ subs'[s].org = subs[s].org
    /\ \A k \in DOMAIN invoices : k \in DOMAIN invoices' /\ invoices'[k] = invoices[k]

LEMMA LinksKept ==
  ASSUME BackInv, Grows
  PROVE  /\ payments' = payments => PaymentsLinked'
         /\ revenue' = revenue => RevenueBacked'
<1>1. ASSUME payments' = payments PROVE PaymentsLinked'
  BY <1>1 DEF BackInv, Grows, PaymentsLinked
<1>2. ASSUME revenue' = revenue PROVE RevenueBacked'
  BY <1>2 DEF BackInv, Grows, RevenueBacked
<1> QED
  BY <1>1, <1>2

(* What a step of handler h owes.                                          *)
LEMMA HandlerBacks ==
  ASSUME TypeInv, BackInv, NEW h \in Handlers, NEW r,
         req' = [req EXCEPT ![h] = r], Grows, Backs(r)',
         \A p \in DOMAIN payments' :
             \/ p \in DOMAIN payments /\ payments'[p] = payments[p]
             \/ payments'[p].invoice = req[h].invoice /\ req[h].invoice # 0,
         \A e \in DOMAIN revenue' :
             \/ e \in DOMAIN revenue /\ revenue'[e] = revenue[e]
             \/ revenue'[e].invoice \in {0, req[h].invoice},
         r.invoice \in {0, req[h].invoice} \/ r.invoice \notin DOMAIN invoices,
         PaymentsLinked', RevenueBacked'
  PROVE  BackInv'
<1>1. /\ req'[h] = r
      /\ \A g \in Handlers : g # h => req'[g] = req[g]
  BY DEF TypeInv, TypeOK
<1>2. \A g \in Handlers : Backs(req[g])'
  <2> SUFFICES ASSUME NEW g \in Handlers, g # h PROVE Backs(req[g])'
    BY <1>1
  <2> DEFINE q == req[g]
  <2>1. /\ req'[g] = q /\ Backs(q) /\ Located(q, DOMAIN subs)
        /\ q.invoice # 0 => q.invoice # req[h].invoice
    BY <1>1 DEF BackInv, TypeInv
  <2>2. q.pc \notin {"idle", "create"} => subs'[q.sub].org = q.org
    BY <2>1 DEF Backs, Located, Grows
  <2>3. q.invoice # 0 =>
           /\ q.invoice \in DOMAIN invoices'
           /\ invoices'[q.invoice].sub = q.sub /\ invoices'[q.invoice].org = q.org
           /\ \A e \in DOMAIN revenue' : revenue'[e].invoice # q.invoice
    BY <2>1 DEF Backs, Grows
  <2>4. q.pc = "pay" => \A p \in DOMAIN payments' : payments'[p].invoice # q.invoice
    BY <2>1 DEF Backs
  <2> HIDE DEF q
  <2> QED
    BY <2>1, <2>2, <2>3, <2>4 DEF Backs
<1>3. \A f, g \in Handlers :
          f # g /\ req'[f].invoice # 0 => req'[f].invoice # req'[g].invoice
  <2>1. \A g \in Handlers : req[g].invoice # 0 => req[g].invoice \in DOMAIN invoices
    BY DEF BackInv, Backs
  <2> QED
    BY <1>1, <2>1 DEF BackInv
<1> QED
  BY <1>2, <1>3 DEF BackInv

(* The same for a handler that goes on without writing payments or events. *)
LEMMA GoesOnBacked ==
  ASSUME TypeInv, BackInv, NEW h \in Handlers, NEW r,
         req' = [req EXCEPT ![h] = r], Grows, Backs(r)', UNCHANGED <<payments, revenue>>,
         r.invoice \in {0, req[h].invoice} \/ r.invoice \notin DOMAIN invoices
  PROVE  BackInv'
  BY HandlerBacks, LinksKept

LEMMA ForgetBacked ==
  ASSUME TypeInv, BackInv, NEW h \in Handlers,
         req' = [req EXCEPT ![h] = Idle], UNCHANGED <<tables, revenue>>
  PROVE  BackInv'
  BY GoesOnBacked DEF Grows, tables, Backs, Idle

LEMMA StartBacked ==
  ASSUME TypeInv, BackInv, NEW h \in Handlers, Start(h)
  PROVE  BackInv'
<1>1. UNCHANGED <<tables, revenue>> /\ Grows
  BY DEF Start, Renew, Cancel, Subscribe, ChangePlan, tables, Grows
<1>2. \A o \in Orgs : HasCurrent(o) => subs[Newest(o)].org = o
  BY NewestIsCurrent DEF TypeInv, TypeOK, TablesOK, HasCurrent, Current
<1>3. PICK o \in Orgs :
         \/ Renew(h, o)
         \/ Cancel(h, o)
         \/ \E t \in Tiers, i \in Intervals : Subscribe(h, o, t, i) \/ ChangePlan(h, o, t, i)
  BY DEF Start
<1>4. PICK r : /\ req' = [req EXCEPT ![h] = r]
               /\ r.pc \in {"create", "update"} /\ r.invoice = 0 /\ r.org = o
               /\ r.pc = "update" => r.sub = Newest(o) /\ HasCurrent(o)
  <2>1. CASE Renew(h, o)
    <3> PICK q : q = [Idle EXCEPT !.pc = "update", !.op = "renew",
                      !.org = o, !.sub = Newest(o), !.interval = subs[Newest(o)].interval,
                      !.due = subs[Newest(o)].end,
                      !.amount = Price[subs[Newest(o)].tier][subs[Newest(o)].interval]]
      OBVIOUS
    <3>1. req' = [req EXCEPT ![h] = q] /\ HasCurrent(o)
      BY <2>1 DEF Renew
    <3>2. q.pc = "update" /\ q.invoice = 0 /\ q.org = o /\ q.sub = Newest(o)
      BY DEF Idle
    <3> QED
      BY <3>1, <3>2
  <2>2. CASE Cancel(h, o)
    <3> PICK q : q = [Idle EXCEPT !.pc = "update", !.op = "cancel",
                      !.org = o, !.sub = Newest(o)]
      OBVIOUS
    <3>1. req' = [req EXCEPT ![h] = q] /\ HasCurrent(o)
      BY <2>2 DEF Cancel
    <3>2. q.pc = "update" /\ q.invoice = 0 /\ q.org = o /\ q.sub = Newest(o)
      BY DEF Idle
    <3> QED
      BY <3>1, <3>2
  <2>3. CASE \E t \in Tiers, i \in Intervals : Subscribe(h, o, t, i)
    <3> PICK t \in Tiers, i \in Intervals : Subscribe(h, o, t, i)
      BY <2>3
    <3> PICK q : q = [Idle EXCEPT !.pc = "create", !.op = "subscribe",
                      !.org = o, !.tier = t, !.interval = i, !.amount = Price[t][i]]
      OBVIOUS
    <3>1. req' = [req EXCEPT ![h] = q]
      BY DEF Subscribe
    <3>2. q.pc = "create" /\ q.invoice = 0 /\ q.org = o
      BY DEF Idle
    <3> QED
      BY <3>1, <3>2
  <2>4. CASE \E t \in Tiers, i \in Intervals : ChangePlan(h, o, t, i)
    <3> PICK t \in Tiers, i \in Intervals : ChangePlan(h, o, t, i)
      BY <2>4
    <3> PICK q : q = [Idle EXCEPT !.pc = "update", !.op = "change",
                      !.org = o, !.sub = Newest(o), !.tier = t, !.interval = i,
                      !.amount = PriceDifference(Newest(o), t, i)]
      OBVIOUS
    <3>1. req' = [req EXCEPT ![h] = q] /\ HasCurrent(o)
      BY DEF ChangePlan
    <3>2. q.pc = "update" /\ q.invoice = 0 /\ q.org = o /\ q.sub = Newest(o)
      BY DEF Idle
    <3> QED
      BY <3>1, <3>2
  <2> QED
    BY <1>3, <2>1, <2>2, <2>3, <2>4
<1>5. Backs(r)'
  BY <1>1, <1>2, <1>4 DEF Backs, tables
<1> QED
  BY <1>1, <1>4, <1>5, GoesOnBacked DEF tables

LEMMA ContinueBacked ==
  ASSUME TypeInv, TypeInv', BackInv, NEW h \in Handlers, Continue(h)
  PROVE  BackInv'
<1>1. /\ TablesOK /\ revenue \in Seq(RevenueEvent)
      /\ req[h] \in Request /\ req \in [Handlers -> Request]
      /\ Located(req[h], DOMAIN subs) /\ Backs(req[h])
  BY DEF TypeInv, TypeOK, BackInv
<1>2. CASE CreateSubscription(h)
  <2> DEFINE row == [org |-> req[h].org, tier |-> req[h].tier,
                   interval |-> req[h].interval, status |-> "ACTIVE",
                   end |-> PeriodEnd(now, req[h].interval)]
  <2> PICK r : r = [req[h] EXCEPT !.pc = "number", !.sub = Len(subs) + 1, !.due = now]
    OBVIOUS
  <2>1. /\ subs' = Append(subs, row) /\ req' = [req EXCEPT ![h] = r]
        /\ UNCHANGED <<invoices, payments, charge, now, revenue>> /\ req[h].pc = "create"
    BY <1>2 DEF CreateSubscription
  <2>2. row.org = req[h].org
    OBVIOUS
  <2> HIDE DEF row
  <2>3. subs'[Len(subs) + 1] = row /\ \A s \in DOMAIN subs : s \in DOMAIN subs' /\ subs'[s] = subs[s]
    BY <1>1, <2>1 DEF TablesOK
  <2>4. Grows
    BY <2>1, <2>3 DEF Grows
  <2>5. r.pc = "number" /\ r.org = req[h].org /\ r.sub = Len(subs) + 1 /\ r.invoice = req[h].invoice
    BY <1>1 DEF Request
  <2>6. Backs(r)'
    BY <1>1, <2>1, <2>2, <2>3, <2>5 DEF Backs
  <2> QED
    BY <2>1, <2>4, <2>5, <2>6, GoesOnBacked
<1>3. CASE ExtendPeriod(h) \/ SwitchPlan(h) \/ EndSubscription(h)
  <2>1. PICK r :
           /\ req' = [req EXCEPT ![h] = r]
           /\ r.org = req[h].org /\ r.sub = req[h].sub /\ r.invoice = req[h].invoice
           /\ r.op = req[h].op /\ r.amount = req[h].amount
           /\ \/ r.pc = "number"
              \/ r.pc = "recognise" /\ r.op = "change" /\ ~(r.amount > 0)
              \/ r.pc = "recognise" /\ r.op = "cancel"
    <3>1. CASE ExtendPeriod(h)
      <4> DEFINE r == [req[h] EXCEPT !.pc = "number"]
      <4>1. req' = [req EXCEPT ![h] = r]
        BY <1>1, <3>1 DEF ExtendPeriod
      <4>2. /\ r.org = req[h].org /\ r.sub = req[h].sub /\ r.invoice = req[h].invoice
            /\ r.op = req[h].op /\ r.amount = req[h].amount /\ r.pc = "number"
        BY <1>1 DEF Request
      <4> HIDE DEF r
      <4> QED
        BY <4>1, <4>2
    <3>2. CASE SwitchPlan(h)
      <4> DEFINE r == [req[h] EXCEPT !.due = now,
                          !.pc = IF Billable(req[h].amount) THEN "number" ELSE "recognise"]
      <4>1. req' = [req EXCEPT ![h] = r] /\ req[h].op = "change"
        BY <1>1, <3>2 DEF SwitchPlan
      <4>2. /\ r.org = req[h].org /\ r.sub = req[h].sub /\ r.invoice = req[h].invoice
            /\ r.op = req[h].op /\ r.amount = req[h].amount
            /\ r.pc = IF req[h].amount > 0 THEN "number" ELSE "recognise"
        BY <1>1 DEF Request, Billable
      <4> HIDE DEF r
      <4> QED
        BY <4>1, <4>2
    <3>3. CASE EndSubscription(h)
      <4> DEFINE r == [req[h] EXCEPT !.pc = "recognise"]
      <4>1. req' = [req EXCEPT ![h] = r] /\ req[h].op = "cancel"
        BY <1>1, <3>3 DEF EndSubscription
      <4>2. /\ r.org = req[h].org /\ r.sub = req[h].sub /\ r.invoice = req[h].invoice
            /\ r.op = req[h].op /\ r.amount = req[h].amount /\ r.pc = "recognise"
        BY <1>1 DEF Request
      <4> HIDE DEF r
      <4> QED
        BY <4>1, <4>2
    <3> QED
      BY <1>3, <3>1, <3>2, <3>3
  <2>2. /\ req[h].pc = "update" /\ UNCHANGED <<invoices, payments, charge, now, revenue>>
        /\ DOMAIN subs' = DOMAIN subs
        /\ \A s \in DOMAIN subs : subs'[s].org = subs[s].org
    <3>1. /\ subs \in Seq(Subscription)
          /\ \A s \in DOMAIN subs : subs[s] \in Subscription
      BY <1>1 DEF TablesOK
    <3>2. CASE ExtendPeriod(h)
      BY <3>1, <3>2 DEF ExtendPeriod, Subscription
    <3>3. CASE SwitchPlan(h)
      BY <3>1, <3>3 DEF SwitchPlan, Subscription
    <3>4. CASE EndSubscription(h)
      BY <3>1, <3>4 DEF EndSubscription, Subscription
    <3> QED
      BY <1>3, <3>2, <3>3, <3>4
  <2>3. Grows
    BY <2>2 DEF Grows
  <2>4. Backs(r)'
    BY <1>1, <2>1, <2>2 DEF Backs, Located
  <2> QED
    BY <2>1, <2>2, <2>3, <2>4, GoesOnBacked
<1>4. CASE NumberInvoice(h)
  <2> PICK r : r = [req[h] EXCEPT !.pc = "insert",
                  !.number = [month |-> now, count |-> NextCount(req[h].org, now)]]
    OBVIOUS
  <2>1. /\ req' = [req EXCEPT ![h] = r] /\ UNCHANGED <<tables, revenue>>
        /\ req[h].pc = "number"
    BY <1>4 DEF NumberInvoice
  <2>2. r.pc = "insert" /\ r.org = req[h].org /\ r.sub = req[h].sub /\ r.invoice = req[h].invoice
    BY <1>1 DEF Request
  <2>3. Grows /\ Backs(r)'
    BY <1>1, <2>1, <2>2 DEF Grows, Backs, tables
  <2> QED
    BY <2>1, <2>2, <2>3, GoesOnBacked DEF tables
<1>5. CASE InsertInvoice(h)
  <2> DEFINE row == [org |-> req[h].org, sub |-> req[h].sub,
                       number |-> req[h].number, due |-> req[h].due,
                       status |-> "ISSUED"]
  <2> PICK k : k = Len(invoices) + 1
    OBVIOUS
  <2> PICK r : r = [req[h] EXCEPT !.invoice = Len(invoices) + 1, !.pc = AfterInvoice(req[h].op)]
    OBVIOUS
  <2>1. /\ invoices' = Append(invoices, row) /\ req' = [req EXCEPT ![h] = r]
        /\ UNCHANGED <<subs, payments, charge, now, revenue>> /\ req[h].pc = "insert"
    BY <1>5 DEF InsertInvoice
  <2>2. row.org = req[h].org /\ row.sub = req[h].sub
    OBVIOUS
  <2> HIDE DEF row
  <2>3. /\ invoices'[k] = row /\ k \in DOMAIN invoices' /\ k \notin DOMAIN invoices /\ k # 0
        /\ \A j \in DOMAIN invoices : j \in DOMAIN invoices' /\ invoices'[j] = invoices[j]
    BY <1>1, <2>1 DEF TablesOK
  <2>4. /\ r.pc \in {"pay", "recognise"} /\ r.org = req[h].org /\ r.sub = req[h].sub
        /\ r.invoice = k
    BY <1>1 DEF Request, AfterInvoice
  <2>5. Grows
    BY <2>1, <2>3 DEF Grows
  <2>6. /\ \A e \in DOMAIN revenue : revenue[e].invoice # k
        /\ \A p \in DOMAIN payments : payments[p].invoice # k
    BY <2>3 DEF BackInv, RevenueBacked, PaymentsLinked
  <2>7. Backs(r)'
    BY <1>1, <2>1, <2>2, <2>3, <2>4, <2>6 DEF Backs
  <2> QED
    BY <2>1, <2>3, <2>4, <2>5, <2>7, GoesOnBacked
<1>6. CASE RejectInvoice(h)
  BY <1>6, ForgetBacked DEF RejectInvoice
<1>7. CASE CreatePayment(h)
  <2> DEFINE row == NewPayment(req[h])
             p == Len(payments) + 1
  <2> PICK k : k = req[h].invoice
    OBVIOUS
  <2> PICK r : r = [req[h] EXCEPT !.pc = "checkout", !.payment = Len(payments) + 1]
    OBVIOUS
  <2>1. /\ payments' = Append(payments, row) /\ req' = [req EXCEPT ![h] = r]
        /\ UNCHANGED <<subs, invoices, now, revenue>> /\ req[h].pc = "pay"
    BY <1>7 DEF CreatePayment
  <2>2. row.invoice = k /\ row.sub = req[h].sub
    BY DEF NewPayment
  <2> HIDE DEF row
  <2>3. /\ payments'[p] = row /\ DOMAIN payments' = DOMAIN payments \cup {p}
        /\ \A q \in DOMAIN payments : payments'[q] = payments[q]
    BY <1>1, <2>1 DEF TablesOK
  <2>4. /\ r.pc = "checkout" /\ r.org = req[h].org /\ r.sub = req[h].sub
        /\ r.invoice = k
    BY <1>1 DEF Request
  <2> HIDE DEF p
  <2>5. /\ k # 0 /\ k \in DOMAIN invoices
        /\ invoices[k].sub = req[h].sub /\ invoices[k].org = req[h].org
        /\ req[h].sub \in DOMAIN subs /\ subs[req[h].sub].org = req[h].org
        /\ \A q \in DOMAIN payments : payments[q].invoice # k
    BY <1>1, <2>1 DEF Backs, Located
  <2>6. Grows
    BY <2>1 DEF Grows
  <2>7. Backs(r)'
    BY <1>1, <2>1, <2>4, <2>5 DEF Backs
  <2>8. PaymentsLinked'
    BY <2>1, <2>2, <2>3, <2>5 DEF BackInv, PaymentsLinked
  <2>9. RevenueBacked'
    BY <2>1, <2>6, LinksKept
  <2>10. \A q \in DOMAIN payments' :
            \/ q \in DOMAIN payments /\ payments'[q] = payments[q]
            \/ payments'[q].invoice = req[h].invoice /\ req[h].invoice # 0
    BY <2>2, <2>3, <2>5
  <2> QED
    BY <2>1, <2>4, <2>6, <2>7, <2>8, <2>9, <2>10, HandlerBacks
<1>8. CASE Checkout(h)
  <2> PICK r : r = [req[h] EXCEPT !.pc = "recognise"]
    OBVIOUS
  <2>1. /\ req' = [req EXCEPT ![h] = r] /\ UNCHANGED <<subs, invoices, payments, now, revenue>>
        /\ req[h].pc = "checkout"
    BY <1>1, <1>8 DEF Checkout
  <2>2. r.pc = "recognise" /\ r.org = req[h].org /\ r.sub = req[h].sub /\ r.invoice = req[h].invoice
    BY <1>1 DEF Request
  <2>3. Grows /\ Backs(r)'
    BY <1>1, <2>1, <2>2 DEF Grows, Backs
  <2> QED
    BY <2>1, <2>2, <2>3, GoesOnBacked
<1>9. CASE Recognise(h)
  <2> DEFINE row == [sub |-> req[h].sub, invoice |-> req[h].invoice,
                      type |-> EventType(req[h]), amount |-> Magnitude(req[h].amount)]
             n == Len(revenue) + 1
  <2> PICK k : k = req[h].invoice
    OBVIOUS
  <2>1. /\ revenue' = Append(revenue, row) /\ req' = [req EXCEPT ![h] = Idle]
        /\ UNCHANGED tables /\ req[h].pc = "recognise"
    BY <1>9 DEF Recognise
  <2>2. /\ row.sub = req[h].sub /\ row.invoice = k
        /\ row.type = EventType(req[h]) /\ row.amount = Magnitude(req[h].amount)
    OBVIOUS
  <2> HIDE DEF row
  <2>3. /\ revenue'[n] = row /\ DOMAIN revenue' = DOMAIN revenue \cup {n}
        /\ \A e \in DOMAIN revenue : revenue'[e] = revenue[e]
    BY <1>1, <2>1
  <2>4. req[h].op # None /\ req[h].op \in Op /\ req[h].amount \in Int
    BY <1>1, <2>1 DEF Located, Request
  <2>5. (row.type \in Periodic \/ (row.type = "UPGRADE" /\ row.amount > 0)) => k # 0
    <3>1. row.type \in Periodic => req[h].op \in {"subscribe", "renew"}
      BY <2>2, <2>4 DEF EventType, Periodic, Op
    <3>2. row.type = "UPGRADE" /\ row.amount > 0 => req[h].op = "change" /\ req[h].amount > 0
      BY <2>2, <2>4 DEF EventType, Magnitude, Op
    <3> QED
      BY <1>1, <2>1, <3>1, <3>2 DEF Backs
  <2>6. /\ req[h].sub \in DOMAIN subs
        /\ k # 0 => /\ k \in DOMAIN invoices /\ invoices[k].sub = req[h].sub
                    /\ \A e \in DOMAIN revenue : revenue[e].invoice # k
    BY <1>1, <2>1 DEF Backs, Located
  <2> HIDE DEF n
  <2>7. Grows
    BY <2>1 DEF Grows, tables
  <2>8. RevenueBacked'
    BY <2>1, <2>2, <2>3, <2>5, <2>6 DEF BackInv, RevenueBacked, tables
  <2>9. PaymentsLinked'
    BY <2>1, <2>7, LinksKept DEF tables
  <2>10. Backs(Idle)' /\ Idle.invoice = 0
    BY DEF Backs, Idle
  <2>11. \A e \in DOMAIN revenue' :
            \/ e \in DOMAIN revenue /\ revenue'[e] = revenue[e]
            \/ revenue'[e].invoice \in {0, req[h].invoice}
    BY <2>2, <2>3
  <2> QED
    BY <2>1, <2>7, <2>8, <2>9, <2>10, <2>11, HandlerBacks DEF tables
<1> QED
  BY <1>2, <1>3, <1>4, <1>5, <1>6, <1>7, <1>8, <1>9 DEF Continue

LEMMA StepBacked == TypeInv /\ TypeInv' /\ BackInv /\ [Next]_vars => BackInv'
<1> SUFFICES ASSUME TypeInv, TypeInv', BackInv, [Next]_vars PROVE BackInv'
  OBVIOUS
<1>1. CASE MonthPasses \/ UNCHANGED vars
  <2>1. UNCHANGED <<subs, invoices, payments, revenue, req>>
    BY <1>1 DEF MonthPasses, vars
  <2> QED
    BY <2>1 DEF BackInv, PaymentsLinked, RevenueBacked, Backs
<1>2. ASSUME NEW h \in Handlers, CallFails(h) PROVE BackInv'
  BY <1>2, ForgetBacked DEF CallFails
<1> QED
  BY <1>1, <1>2, StartBacked, ContinueBacked DEF Next

(* A payment settles one invoice, of its own subscription and that         *)
(* subscription's organization, and no other payment settles it, however   *)
(* many requests overlap or fail (payment.service.ts:21-55).               *)
THEOREM PaymentsStayLinked == Spec => []PaymentsLinked
<1>1. BackInv => PaymentsLinked
  BY DEF BackInv
<1> QED
  BY <1>1, InitTyped, StepTyped, InitBacked, StepBacked, PTL DEF Spec

(* Revenue is recognised only for what was invoiced, and once, however     *)
(* many requests overlap or fail (subscription.service.ts:41-239).         *)
THEOREM RevenueIsBacked == Spec => []RevenueBacked
<1>1. BackInv => RevenueBacked
  BY DEF BackInv
<1> QED
  BY <1>1, InitTyped, StepTyped, InitBacked, StepBacked, PTL DEF Spec
(***************************************************************************)
(* What a step of a request writes, field by field.                        *)
(***************************************************************************)

(* The rest of the requests are left alone, and this one stays what it is. *)
Frame(h) == \A g \in Handlers \ {h} : req'[g] = req[g]
SameRequest(h) ==
    /\ req'[h].org = req[h].org /\ req'[h].op = req[h].op
    /\ req'[h].sub = req[h].sub

LEMMA StartDoes ==
  ASSUME TypeInv, NEW h \in Handlers, Start(h)
  PROVE  /\ UNCHANGED <<subs, invoices, payments, charge, revenue>>
         /\ Frame(h) /\ req[h].pc = "idle" /\ req'[h].org \in Orgs
         /\ req'[h].invoice = 0
         /\ \/ /\ req'[h].pc = "create" /\ req'[h].op = "subscribe"
               /\ Current(req'[h].org) = {}
            \/ /\ req'[h].pc = "update" /\ req'[h].op \in {"renew", "change", "cancel"}
               /\ req'[h].sub \in Current(req'[h].org)
               /\ req'[h].op = "renew" => req'[h].due = subs[req'[h].sub].end
<1>1. req \in [Handlers -> Request] /\ subs \in Seq(Subscription)
  BY DEF TypeInv, TypeOK, TablesOK
<1>2. UNCHANGED <<tables, revenue>> /\ Frame(h) /\ req[h].pc = "idle"
  BY <1>1 DEF Start, Renew, Cancel, Subscribe, ChangePlan, Accepts, Frame
<1>3. \A o \in Orgs : HasCurrent(o) => Newest(o) \in Current(o)
  BY <1>1, NewestIsCurrent DEF HasCurrent
<1>4. PICK o \in Orgs :
         \/ Renew(h, o)
         \/ Cancel(h, o)
         \/ \E t \in Tiers, i \in Intervals : Subscribe(h, o, t, i) \/ ChangePlan(h, o, t, i)
  BY DEF Start
<1>5. CASE Renew(h, o)
  <2>1. /\ req'[h].org = o /\ req'[h].invoice = 0 /\ req'[h].pc = "update"
        /\ req'[h].op = "renew" /\ req'[h].sub = Newest(o)
        /\ req'[h].due = subs[Newest(o)].end
    BY <1>1, <1>5 DEF Renew, Idle
  <2>2. Newest(o) \in Current(o)
    BY <1>3, <1>5 DEF Renew
  <2> QED
    BY <1>2, <2>1, <2>2 DEF tables
<1>6. CASE Cancel(h, o)
  <2>1. /\ req'[h].org = o /\ req'[h].invoice = 0 /\ req'[h].pc = "update"
        /\ req'[h].op = "cancel" /\ req'[h].sub = Newest(o)
    BY <1>1, <1>6 DEF Cancel, Idle
  <2>2. Newest(o) \in Current(o)
    BY <1>3, <1>6 DEF Cancel
  <2> QED
    BY <1>2, <2>1, <2>2 DEF tables
<1>7. ASSUME NEW t \in Tiers, NEW i \in Intervals, Subscribe(h, o, t, i)
      PROVE  /\ req'[h].org = o /\ req'[h].invoice = 0 /\ req'[h].pc = "create"
             /\ req'[h].op = "subscribe" /\ Current(o) = {}
  BY <1>1, <1>7 DEF Subscribe, Idle, HasCurrent
<1>8. ASSUME NEW t \in Tiers, NEW i \in Intervals, ChangePlan(h, o, t, i)
      PROVE  /\ req'[h].org = o /\ req'[h].invoice = 0 /\ req'[h].pc = "update"
             /\ req'[h].op = "change" /\ req'[h].sub = Newest(o) /\ HasCurrent(o)
  BY <1>1, <1>8 DEF ChangePlan, Idle
<1>9. CASE \E t \in Tiers, i \in Intervals : Subscribe(h, o, t, i)
  BY <1>2, <1>7, <1>9 DEF tables
<1>10. CASE \E t \in Tiers, i \in Intervals : ChangePlan(h, o, t, i)
  BY <1>2, <1>3, <1>8, <1>10 DEF tables
<1> QED
  BY <1>4, <1>5, <1>6, <1>9, <1>10

LEMMA CreateDoes ==
  ASSUME TypeInv, NEW h \in Handlers, CreateSubscription(h)
  PROVE  /\ UNCHANGED <<invoices, payments, charge, revenue>>
         /\ Frame(h) /\ req[h].pc = "create" /\ req'[h].pc = "number"
         /\ req'[h].org = req[h].org /\ req'[h].op = req[h].op
         /\ req'[h].invoice = req[h].invoice
         /\ DOMAIN subs' = DOMAIN subs \cup {req'[h].sub}
         /\ req'[h].sub \notin DOMAIN subs
         /\ \A s \in DOMAIN subs : subs'[s] = subs[s]
         /\ subs'[req'[h].sub].org = req[h].org
         /\ subs'[req'[h].sub].status = "ACTIVE"
         /\ req'[h].due < subs'[req'[h].sub].end
<1>1. /\ req \in [Handlers -> Request] /\ req[h] \in Request /\ now \in Nat
      /\ subs \in Seq(Subscription)
      /\ req[h].interval \in Intervals
  BY DEF TypeInv, TypeOK, TablesOK, Located, CreateSubscription
<1>2. now < PeriodEnd(now, req[h].interval)
  <2>1. Months[req[h].interval] \in Nat \ {0}
    BY <1>1, LifecycleAssumption
  <2> QED
    BY <1>1, <2>1 DEF PeriodEnd
<1>3. /\ req'[h].sub = Len(subs) + 1 /\ req'[h].due = now
      /\ Frame(h) /\ req[h].pc = "create" /\ req'[h].pc = "number"
      /\ req'[h].org = req[h].org /\ req'[h].op = req[h].op
      /\ req'[h].invoice = req[h].invoice
  BY <1>1 DEF CreateSubscription, Request, Frame
<1>4. PICK row : /\ row = [org |-> req[h].org, tier |-> req[h].tier,
                   interval |-> req[h].interval, status |-> "ACTIVE",
                   end |-> PeriodEnd(now, req[h].interval)]
                 /\ subs' = Append(subs, row)
                 /\ UNCHANGED <<invoices, payments, charge, revenue>>
  BY DEF CreateSubscription
<1>5. /\ DOMAIN subs' = DOMAIN subs \cup {Len(subs) + 1}
      /\ Len(subs) + 1 \notin DOMAIN subs
      /\ \A s \in DOMAIN subs : subs'[s] = subs[s]
      /\ subs'[Len(subs) + 1] = row
  BY <1>1, <1>4
<1>6. row.org = req[h].org /\ row.status = "ACTIVE" /\ row.end = PeriodEnd(now, req[h].interval)
  BY <1>4
<1> QED
  BY <1>2, <1>3, <1>4, <1>5, <1>6

(* The three updates, told apart by what the request is for. *)
LEMMA UpdateDoes ==
  ASSUME TypeInv, NEW h \in Handlers,
         ExtendPeriod(h) \/ SwitchPlan(h) \/ EndSubscription(h)
  PROVE  LET s == req[h].sub
         IN  /\ UNCHANGED <<invoices, payments, charge, revenue>>
             /\ Frame(h) /\ SameRequest(h) /\ req[h].pc = "update"
             /\ req'[h].invoice = req[h].invoice
             /\ s \in DOMAIN subs /\ DOMAIN subs' = DOMAIN subs
             /\ \A t \in DOMAIN subs \ {s} : subs'[t] = subs[t]
             /\ subs'[s].org = subs[s].org
             /\ \/ /\ req[h].op = "renew" /\ subs'[s].status = "ACTIVE"
                   /\ req'[h].due = req[h].due /\ req[h].due < subs'[s].end
                   /\ req'[h].pc = "number"
                \/ /\ req[h].op = "change" /\ subs'[s].status = "ACTIVE"
                   /\ subs'[s].end = subs[s].end
                   /\ req'[h].pc \in {"number", "recognise"}
                \/ /\ req[h].op = "cancel" /\ subs'[s].status = "CANCELED"
                   /\ req'[h].pc = "recognise"
<1> DEFINE s == req[h].sub
<1>1. /\ req \in [Handlers -> Request] /\ req[h] \in Request /\ now \in Nat
      /\ subs \in Seq(Subscription)
      /\ req[h].pc = "update" /\ s \in DOMAIN subs
      /\ UNCHANGED <<invoices, payments, charge, revenue>>
  BY DEF TypeInv, TypeOK, TablesOK, Located, ExtendPeriod, SwitchPlan, EndSubscription
<1>2. subs[s] \in Subscription
  BY <1>1
<1>3. CASE ExtendPeriod(h)
  <2>1. req[h].due < PeriodEnd(req[h].due, req[h].interval)
    <3>1. req[h].interval \in Intervals
      BY <1>3 DEF TypeInv, Located, ExtendPeriod
    <3>2. Months[req[h].interval] \in Nat \ {0} /\ req[h].due \in Nat
      BY <1>1, <3>1, LifecycleAssumption DEF Request
    <3> QED
      BY <3>2 DEF PeriodEnd
  <2>2. /\ req[h].op = "renew" /\ Frame(h) /\ SameRequest(h)
        /\ req'[h].due = req[h].due /\ req'[h].invoice = req[h].invoice
        /\ req'[h].pc = "number"
    BY <1>1, <1>3 DEF ExtendPeriod, Request, Frame, SameRequest
  <2>3. /\ DOMAIN subs' = DOMAIN subs
        /\ \A t \in DOMAIN subs \ {s} : subs'[t] = subs[t]
        /\ subs'[s].org = subs[s].org /\ subs'[s].status = "ACTIVE"
        /\ subs'[s].end = PeriodEnd(req[h].due, req[h].interval)
    BY <1>1, <1>2, <1>3 DEF ExtendPeriod, Subscription
  <2> QED
    BY <1>1, <2>1, <2>2, <2>3
<1>4. CASE SwitchPlan(h)
  <2>2. /\ req[h].op = "change" /\ Frame(h) /\ SameRequest(h)
        /\ req'[h].invoice = req[h].invoice
        /\ req'[h].pc \in {"number", "recognise"}
    BY <1>1, <1>4 DEF SwitchPlan, Request, Frame, SameRequest
  <2>3. /\ DOMAIN subs' = DOMAIN subs
        /\ \A t \in DOMAIN subs \ {s} : subs'[t] = subs[t]
        /\ subs'[s].org = subs[s].org /\ subs'[s].status = "ACTIVE"
        /\ subs'[s].end = subs[s].end
    BY <1>1, <1>2, <1>4 DEF SwitchPlan, Subscription
  <2> QED
    BY <1>1, <2>2, <2>3
<1>5. CASE EndSubscription(h)
  <2>2. /\ req[h].op = "cancel" /\ Frame(h) /\ SameRequest(h)
        /\ req'[h].invoice = req[h].invoice
        /\ req'[h].pc = "recognise"
    BY <1>1, <1>5 DEF EndSubscription, Request, Frame, SameRequest
  <2>3. /\ DOMAIN subs' = DOMAIN subs
        /\ \A t \in DOMAIN subs \ {s} : subs'[t] = subs[t]
        /\ subs'[s].org = subs[s].org /\ subs'[s].status = "CANCELED"
    BY <1>1, <1>2, <1>5 DEF EndSubscription, Subscription
  <2> QED
    BY <1>1, <2>2, <2>3
<1> QED
  BY <1>3, <1>4, <1>5

(* The rest of a request: no subscription is written any more. *)
LEMMA NumberDoes ==
  ASSUME TypeInv, NEW h \in Handlers, NumberInvoice(h)
  PROVE  /\ UNCHANGED <<subs, invoices, payments, charge, revenue>>
         /\ Frame(h) /\ SameRequest(h) /\ req[h].pc = "number" /\ req'[h].pc = "insert"
         /\ req'[h].invoice = req[h].invoice /\ req'[h].due = req[h].due
         /\ req'[h].number.count = Many(invoices, req[h].org, req'[h].number.month) + 1
<1>1. req \in [Handlers -> Request] /\ req[h] \in Request
  BY DEF TypeInv, TypeOK
<1>2. /\ Frame(h) /\ SameRequest(h) /\ req[h].pc = "number" /\ req'[h].pc = "insert"
      /\ req'[h].invoice = req[h].invoice /\ req'[h].due = req[h].due
      /\ req'[h].number = [month |-> now, count |-> NextCount(req[h].org, now)]
  BY <1>1 DEF NumberInvoice, Request, Frame, SameRequest
<1>3. NextCount(req[h].org, now) = Many(invoices, req[h].org, now) + 1
  BY DEF NextCount, Many, Of, Numbered
<1> QED
  BY <1>2, <1>3 DEF NumberInvoice, tables

LEMMA InsertDoes ==
  ASSUME TypeInv, NEW h \in Handlers, InsertInvoice(h)
  PROVE  /\ UNCHANGED <<subs, payments, charge, revenue>>
         /\ Frame(h) /\ SameRequest(h) /\ req[h].pc = "insert"
         /\ req'[h].pc = IF req[h].op = "renew" THEN "recognise" ELSE "pay"
         /\ req'[h].due = req[h].due
         /\ DOMAIN invoices' = DOMAIN invoices \cup {req'[h].invoice}
         /\ req'[h].invoice \notin DOMAIN invoices
         /\ \A k \in DOMAIN invoices : invoices'[k] = invoices[k]
         /\ \E row \in Invoice : /\ invoices' = Append(invoices, row)
                                 /\ invoices'[req'[h].invoice] = row
                                 /\ row.org = req[h].org /\ row.due = req[h].due
<1>1. /\ req \in [Handlers -> Request] /\ req[h] \in Request
      /\ invoices \in Seq(Invoice) /\ req[h].org \in Orgs
  BY DEF TypeInv, TypeOK, TablesOK, Located, InsertInvoice
<1>2. /\ Frame(h) /\ SameRequest(h) /\ req[h].pc = "insert"
      /\ req'[h].pc = IF req[h].op = "renew" THEN "recognise" ELSE "pay"
      /\ req'[h].due = req[h].due /\ req'[h].invoice = Len(invoices) + 1
  BY <1>1 DEF InsertInvoice, Request, Frame, SameRequest, AfterInvoice
<1>3. PICK row : /\ row = [org |-> req[h].org, sub |-> req[h].sub,
                       number |-> req[h].number, due |-> req[h].due, status |-> "ISSUED"]
                 /\ invoices' = Append(invoices, row)
                 /\ UNCHANGED <<subs, payments, charge, revenue>>
  BY DEF InsertInvoice
<1>4. row \in Invoice /\ row.org = req[h].org /\ row.due = req[h].due
  BY <1>1, <1>3 DEF Invoice, InvoiceStatus, Request
<1>5. /\ DOMAIN invoices' = DOMAIN invoices \cup {Len(invoices) + 1}
      /\ Len(invoices) + 1 \notin DOMAIN invoices
      /\ \A k \in DOMAIN invoices : invoices'[k] = invoices[k]
      /\ invoices'[Len(invoices) + 1] = row
  BY <1>1, <1>3
<1> QED
  BY <1>2, <1>3, <1>4, <1>5

LEMMA PayDoes ==
  ASSUME TypeInv, NEW h \in Handlers, CreatePayment(h)
  PROVE  /\ UNCHANGED <<subs, invoices, revenue>>
         /\ Frame(h) /\ SameRequest(h) /\ req[h].pc = "pay" /\ req'[h].pc = "checkout"
         /\ req'[h].invoice = req[h].invoice /\ req'[h].due = req[h].due
         /\ req'[h].payment \in DOMAIN payments'
         /\ payments'[req'[h].payment].invoice = req[h].invoice
         /\ DOMAIN payments \subseteq DOMAIN payments'
         /\ \A p \in DOMAIN payments : payments'[p] = payments[p] /\ charge'[p] = charge[p]
<1>1. /\ req \in [Handlers -> Request] /\ req[h] \in Request
      /\ payments \in Seq(Payment) /\ charge \in Seq(ChargeStatus) /\ Len(charge) = Len(payments)
  BY DEF TypeInv, TypeOK, TablesOK
<1>2. /\ Frame(h) /\ SameRequest(h) /\ req[h].pc = "pay" /\ req'[h].pc = "checkout"
      /\ req'[h].invoice = req[h].invoice /\ req'[h].due = req[h].due
      /\ req'[h].payment = Len(payments) + 1
  BY <1>1 DEF CreatePayment, Request, Frame, SameRequest
<1>3. PICK row : /\ row = NewPayment(req[h])
                 /\ payments' = Append(payments, row) /\ charge' = Append(charge, "none")
                 /\ UNCHANGED <<subs, invoices, revenue>>
  BY DEF CreatePayment
<1>4. row.invoice = req[h].invoice
  BY <1>3 DEF NewPayment
<1>5. /\ DOMAIN payments' = DOMAIN payments \cup {Len(payments) + 1}
      /\ \A p \in DOMAIN payments : payments'[p] = payments[p] /\ charge'[p] = charge[p]
      /\ payments'[Len(payments) + 1] = row
  BY <1>1, <1>3
<1> QED
  BY <1>2, <1>3, <1>4, <1>5

LEMMA CheckoutDoes ==
  ASSUME TypeInv, NEW h \in Handlers, Checkout(h)
  PROVE  /\ UNCHANGED <<subs, invoices, payments, revenue>>
         /\ Frame(h) /\ SameRequest(h) /\ req[h].pc = "checkout" /\ req'[h].pc = "recognise"
         /\ req'[h].invoice = req[h].invoice /\ req'[h].due = req[h].due
         /\ \A p \in DOMAIN payments : charge'[p] \in {charge[p], "open"}
         /\ req[h].payment \in DOMAIN payments => charge'[req[h].payment] = "open"
<1>1. /\ req \in [Handlers -> Request] /\ req[h] \in Request
      /\ payments \in Seq(Payment) /\ charge \in Seq(ChargeStatus) /\ Len(charge) = Len(payments)
  BY DEF TypeInv, TypeOK, TablesOK
<1>2. /\ Frame(h) /\ SameRequest(h) /\ req[h].pc = "checkout" /\ req'[h].pc = "recognise"
      /\ req'[h].invoice = req[h].invoice /\ req'[h].due = req[h].due
  BY <1>1 DEF Checkout, Request, Frame, SameRequest
<1>3. /\ charge' = [charge EXCEPT ![req[h].payment] = "open"]
      /\ UNCHANGED <<subs, invoices, payments, revenue>>
  BY DEF Checkout
<1>4. DOMAIN payments = DOMAIN charge
  BY <1>1
<1>5. /\ \A p \in DOMAIN payments : charge'[p] \in {charge[p], "open"}
      /\ req[h].payment \in DOMAIN payments => charge'[req[h].payment] = "open"
  BY <1>3, <1>4
<1> QED
  BY <1>2, <1>3, <1>5

LEMMA RecogniseDoes ==
  ASSUME TypeInv, NEW h \in Handlers, Recognise(h)
  PROVE  /\ UNCHANGED <<subs, invoices, payments, charge>>
         /\ Frame(h) /\ req[h].pc = "recognise" /\ req'[h] = Idle
         /\ \E n : /\ DOMAIN revenue' = DOMAIN revenue \cup {n} /\ n \notin DOMAIN revenue
                   /\ \A e \in DOMAIN revenue : revenue'[e] = revenue[e]
                   /\ revenue'[n].sub = req[h].sub /\ revenue'[n].invoice = req[h].invoice
                   /\ revenue'[n].type = EventType(req[h])
<1>1. req \in [Handlers -> Request] /\ revenue \in Seq(RevenueEvent)
  BY DEF TypeInv, TypeOK
<1>2. Frame(h) /\ req[h].pc = "recognise" /\ req'[h] = Idle
  BY <1>1 DEF Recognise, Frame
<1>3. PICK row : /\ row = [sub |-> req[h].sub, invoice |-> req[h].invoice,
                      type |-> EventType(req[h]), amount |-> Magnitude(req[h].amount)]
                 /\ revenue' = Append(revenue, row) /\ UNCHANGED tables
  BY DEF Recognise
<1>4. row.sub = req[h].sub /\ row.invoice = req[h].invoice /\ row.type = EventType(req[h])
  BY <1>3
<1>5. /\ DOMAIN revenue' = DOMAIN revenue \cup {Len(revenue) + 1}
      /\ Len(revenue) + 1 \notin DOMAIN revenue
      /\ \A e \in DOMAIN revenue : revenue'[e] = revenue[e]
      /\ revenue'[Len(revenue) + 1] = row
  BY <1>1, <1>3
<1> QED
  BY <1>2, <1>3, <1>4, <1>5 DEF tables

(* A request that ends early. *)
LEMMA EndDoes ==
  ASSUME TypeInv, NEW h \in Handlers, RejectInvoice(h) \/ CallFails(h)
  PROVE  /\ UNCHANGED <<subs, invoices, payments, charge, revenue>>
         /\ Frame(h) /\ req'[h] = Idle
  BY DEF TypeInv, TypeOK, RejectInvoice, CallFails, Frame, tables
(***************************************************************************)
(* One current subscription.  createSubscription and the three updates     *)
(* look before they write; what they saw still stands when they write if   *)
(* no other request of the organization ran in between.                    *)
(***************************************************************************)

Standing(r) ==
    /\ r.pc = "create" => Current(r.org) = {}
    /\ r.pc = "update" => r.sub \in Current(r.org)

StandingInv ==
    /\ \A o \in Orgs : \A s, t \in Current(o) : s = t
    /\ \A h \in Handlers : Standing(req[h])

LEMMA InitStanding == Init => StandingInv
<1> SUFFICES ASSUME Init PROVE StandingInv
  OBVIOUS
<1>1. \A o \in Orgs : Current(o) = {}
  BY DEF Init, EmptyTables, Current
<1>2. \A h \in Handlers : req[h].pc = "idle"
  BY DEF Init, Idle
<1> QED
  BY <1>1, <1>2 DEF StandingInv, Standing

(* A busy request of another organization than that of the busy request h. *)
LEMMA OthersElsewhere ==
  ASSUME Serialized, NEW h \in Handlers, req[h].pc # "idle",
         NEW g \in Handlers \ {h}, req[g].pc # "idle"
  PROVE  req[g].org # req[h].org
  BY DEF Serialized, Busy

(* A step that leaves the current subscriptions of the other organizations *)
(* as they are owes only what concerns its own.                            *)
LEMMA StandingKept ==
  ASSUME TypeInv, StandingInv, Serialized, NEW h \in Handlers, Frame(h),
         req[h].pc # "idle", req'[h].pc \notin {"create", "update"},
         NEW p, p = req[h].org,
         \A o \in Orgs : o # p => Current(o)' = Current(o),
         \A s, t \in Current(p)' : s = t
  PROVE  StandingInv'
<1>1. ASSUME NEW o \in Orgs, NEW s \in Current(o)', NEW t \in Current(o)' PROVE s = t
  BY <1>1 DEF StandingInv
<1>2. ASSUME NEW g \in Handlers PROVE Standing(req[g])'
  <2>1. CASE g = h
    BY <2>1 DEF Standing
  <2>2. CASE g # h
    <3>1. req'[g] = req[g]
      BY <2>2 DEF Frame
    <3>2. CASE req[g].pc = "idle"
      BY <3>1, <3>2 DEF Standing
    <3>3. CASE req[g].pc # "idle"
      <4>1. req[g].org # req[h].org /\ req[g].org \in Orgs
        BY <2>2, <3>3, OthersElsewhere DEF TypeInv, Located
      <4>2. Current(req[g].org)' = Current(req[g].org)
        BY <3>1, <4>1
      <4> QED
        BY <3>1, <4>2 DEF StandingInv, Standing
    <3> QED
      BY <3>2, <3>3
  <2> QED
    BY <2>1, <2>2
<1> QED
  BY <1>1, <1>2 DEF StandingInv

(* No subscription is written.                                             *)
LEMMA StandingUntouched ==
  ASSUME StandingInv, NEW h \in Handlers, Frame(h), subs' = subs,
         Standing(req[h])'
  PROVE  StandingInv'
<1>1. \A o \in Orgs : Current(o)' = Current(o)
  BY DEF Current
<1>2. ASSUME NEW g \in Handlers PROVE Standing(req[g])'
  <2>1. CASE g # h
    <3>1. req'[g] = req[g]
      BY <2>1 DEF Frame
    <3>2. Current(req[g].org)' = Current(req[g].org)
      BY <3>1 DEF Current
    <3> QED
      BY <3>1, <3>2 DEF StandingInv, Standing
  <2> QED
    BY <2>1
<1> QED
  BY <1>1, <1>2 DEF StandingInv

LEMMA StepStanding ==
  TypeInv /\ BackInv /\ Serialized /\ StandingInv /\ [Next]_vars => StandingInv'
<1> SUFFICES ASSUME TypeInv, BackInv, Serialized, StandingInv, [Next]_vars PROVE StandingInv'
  OBVIOUS
<1>1. CASE MonthPasses \/ UNCHANGED vars
  <2>1. subs' = subs /\ req' = req
    BY <1>1 DEF MonthPasses, vars
  <2> QED
    BY <2>1 DEF StandingInv, Standing, Current
<1>2. ASSUME NEW h \in Handlers, Start(h) PROVE StandingInv'
  <2>1. Standing(req[h])'
    <3>1. Current(req'[h].org) = {} => Current(req[h].org)' = {}
      BY <1>2, StartDoes DEF Current
    <3>2. req'[h].sub \in Current(req'[h].org) => req'[h].sub \in Current(req[h].org)'
      BY <1>2, StartDoes DEF Current
    <3> QED
      BY <1>2, <3>1, <3>2, StartDoes DEF Standing
  <2> QED
    BY <1>2, <2>1, StartDoes, StandingUntouched
<1>3. ASSUME NEW h \in Handlers, CreateSubscription(h) PROVE StandingInv'
  <2> PICK p : p = req[h].org
    OBVIOUS
  <2>1. Current(p) = {}
    BY <1>3, CreateDoes DEF StandingInv, Standing
  <2>2. \A s \in Current(p)' : s = req'[h].sub
    BY <1>3, <2>1, CreateDoes DEF Current
  <2>3. \A o \in Orgs : o # p => Current(o)' = Current(o)
    <3> SUFFICES ASSUME NEW o \in Orgs, o # p PROVE Current(o)' = Current(o)
      OBVIOUS
    <3>1. subs'[req'[h].sub].org # o
      BY <1>3, CreateDoes
    <3>2. /\ DOMAIN subs' = DOMAIN subs \cup {req'[h].sub}
          /\ \A s \in DOMAIN subs : subs'[s] = subs[s]
      BY <1>3, CreateDoes
    <3> QED
      BY <3>1, <3>2 DEF Current
  <2>4. req[h].pc = "create" /\ req'[h].pc = "number" /\ Frame(h)
    BY <1>3, CreateDoes
  <2> QED
    BY <2>2, <2>3, <2>4, StandingKept
<1>4. ASSUME NEW h \in Handlers, ExtendPeriod(h) \/ SwitchPlan(h) \/ EndSubscription(h)
      PROVE  StandingInv'
  <2> PICK p : p = req[h].org
    OBVIOUS
  <2>1. req[h].sub \in Current(p) /\ p \in Orgs
    BY <1>4, UpdateDoes DEF StandingInv, Standing, TypeInv, Located
  <2>2. \A s \in Current(p)' : s \in Current(p)
    BY <1>4, <2>1, UpdateDoes DEF Current
  <2>3. \A o \in Orgs : o # p => Current(o)' = Current(o)
    BY <1>4, <2>1, UpdateDoes DEF Current
  <2>4. req[h].pc = "update" /\ req'[h].pc \in {"number", "recognise"} /\ Frame(h)
    BY <1>4, UpdateDoes
  <2>5. \A s, t \in Current(p)' : s = t
    BY <2>1, <2>2 DEF StandingInv
  <2> QED
    BY <2>3, <2>4, <2>5, StandingKept
<1>5. ASSUME NEW h \in Handlers,
             \/ NumberInvoice(h) \/ InsertInvoice(h) \/ RejectInvoice(h) \/ CreatePayment(h)
             \/ Checkout(h) \/ Recognise(h) \/ CallFails(h)
      PROVE  StandingInv'
  <2>1. subs' = subs /\ Frame(h) /\ req'[h].pc \notin {"create", "update"}
    <3>1. CASE NumberInvoice(h) \/ CreatePayment(h) \/ Checkout(h)
      BY <3>1, NumberDoes, PayDoes, CheckoutDoes
    <3>2. CASE InsertInvoice(h)
      BY <3>2, InsertDoes
    <3>3. CASE Recognise(h)
      BY <3>3, RecogniseDoes DEF Idle
    <3>4. CASE RejectInvoice(h) \/ CallFails(h)
      BY <3>4, EndDoes DEF Idle
    <3> QED
      BY <1>5, <3>1, <3>2, <3>3, <3>4
  <2>2. Standing(req[h])'
    BY <2>1 DEF Standing
  <2> QED
    BY <2>1, <2>2, StandingUntouched
<1> QED
  BY <1>1, <1>2, <1>3, <1>4, <1>5 DEF Next, Continue

(* createSubscription's 'Organization already has an active subscription': *)
(* an organization whose requests do not overlap never has two current     *)
(* subscriptions, whatever the other organizations do and whichever calls  *)
(* fail (subscription.service.ts:41-95).  With overlapping requests it may *)
(* (the check and the create are two calls).                               *)
THEOREM OneCurrentIfSerialized == Spec /\ []Serialized => []OneCurrent
<1>1. TypeInv /\ StandingInv => OneCurrent
  <2> SUFFICES ASSUME TypeInv, StandingInv, NEW o \in Orgs
               PROVE  Cardinality(Current(o)) <= 1
    BY DEF OneCurrent
  <2>1. \A s, t \in Current(o) : s = t
    BY DEF StandingInv
  <2>2. CASE Current(o) = {}
    BY <2>2, FS_EmptySet
  <2>3. CASE Current(o) # {}
    <3>1. PICK s : Current(o) = {s}
      BY <2>1, <2>3
    <3> QED
      BY <3>1, FS_Singleton
  <2> QED
    BY <2>2, <2>3
<1> QED
  BY <1>1, InitTyped, StepTyped, InitBacked, StepBacked, InitStanding, StepStanding, PTL DEF Spec

(* A subscription that was canceled is not current again: no renewal, plan *)
(* change or second cancellation that read it before reaches it after, if  *)
(* the requests of its organization do not overlap                         *)
(* (subscription.service.ts:97-239).                                       *)
THEOREM CanceledStaysCanceledIfSerialized ==
  Spec /\ []Serialized => CanceledStaysCanceled
<1> DEFINE Stays == \A s \in DOMAIN subs :
                        subs[s].status = "CANCELED" => subs'[s].status = "CANCELED"
<1>1. TypeInv /\ StandingInv /\ [Next]_vars => [Stays]_vars
  <2> SUFFICES ASSUME TypeInv, StandingInv, Next,
                      NEW s \in DOMAIN subs, subs[s].status = "CANCELED"
               PROVE  subs'[s].status = "CANCELED"
    BY DEF vars
  <2>1. ASSUME NEW h \in Handlers, ExtendPeriod(h) \/ SwitchPlan(h) \/ EndSubscription(h)
        PROVE  subs'[s].status = "CANCELED"
    <3>1. req[h].sub \in Current(req[h].org)
      BY <2>1, UpdateDoes DEF StandingInv, Standing
    <3>2. s # req[h].sub
      BY <3>1 DEF Current, CurrentStatuses
    <3> QED
      BY <2>1, <3>2, UpdateDoes
  <2>2. ASSUME NEW h \in Handlers, CreateSubscription(h) PROVE subs'[s].status = "CANCELED"
    BY <2>2, CreateDoes
  <2>3. ASSUME NEW h \in Handlers,
               \/ Start(h) \/ NumberInvoice(h) \/ InsertInvoice(h) \/ RejectInvoice(h)
               \/ CreatePayment(h) \/ Checkout(h) \/ Recognise(h) \/ CallFails(h)
        PROVE  subs' = subs
    BY <2>3, StartDoes, NumberDoes, InsertDoes, PayDoes, CheckoutDoes, RecogniseDoes, EndDoes
  <2>4. MonthPasses => subs' = subs
    BY DEF MonthPasses
  <2> QED
    BY <2>1, <2>2, <2>3, <2>4 DEF Next, Continue
<1> QED
  BY <1>1, InitTyped, StepTyped, InitBacked, StepBacked, InitStanding, StepStanding, PTL
  DEF Spec, CanceledStaysCanceled
(***************************************************************************)
(* Periods.  A subscription's periods are billed in order: whatever was    *)
(* recognised as the start of a period is due before the period that the   *)
(* row ends with, and a request that is billing a period is past all of    *)
(* them and still inside that end.                                         *)
(***************************************************************************)

PeriodicOf(s) ==
    {e \in DOMAIN revenue : revenue[e].sub = s /\ revenue[e].type \in Periodic}
DueOf(e) == invoices[revenue[e].invoice].due
IsCurrent(s) == subs[s].status \in CurrentStatuses

Billing(r) == r.op \in {"subscribe", "renew"} /\ r.pc \notin {"idle", "create", "update"}

Bills(r) ==
    /\ r.pc = "update" /\ r.op = "renew" => r.due = subs[r.sub].end
    /\ Billing(r) =>
           /\ IsCurrent(r.sub)
           /\ r.due < subs[r.sub].end
           /\ \A e \in PeriodicOf(r.sub) : DueOf(e) < r.due
           /\ r.invoice # 0 => invoices[r.invoice].due = r.due

PeriodsInv ==
    /\ NoPeriodBilledTwice
    /\ \A s \in DOMAIN subs :
           IsCurrent(s) => \A e \in PeriodicOf(s) : DueOf(e) < subs[s].end
    /\ \A h \in Handlers : Bills(req[h])

LEMMA InitPeriods == Init => PeriodsInv
  BY DEF Init, EmptyTables, PeriodsInv, NoPeriodBilledTwice, Bills, Billing, Idle

(* Events stay, and so does what they are due for.                         *)
LEMMA DuesKept ==
  ASSUME TypeInv, BackInv, NEW e \in DOMAIN revenue, revenue[e].type \in Periodic,
         \A k \in DOMAIN invoices : invoices'[k] = invoices[k],
         revenue'[e] = revenue[e]
  PROVE  /\ DueOf(e)' = DueOf(e) /\ DueOf(e) \in Nat
         /\ revenue[e].sub \in DOMAIN subs
<1>1. revenue[e].invoice \in DOMAIN invoices /\ revenue[e].sub \in DOMAIN subs
  BY DEF BackInv, RevenueBacked
<1>2. invoices[revenue[e].invoice] \in Invoice
  BY <1>1 DEF TypeInv, TypeOK, TablesOK
<1>3. DueOf(e) \in Nat
  BY <1>2 DEF DueOf, Invoice
<1> QED
  BY <1>1, <1>3 DEF DueOf

(* A step that recognises nothing.                                         *)
LEMMA QuietDues ==
  ASSUME TypeInv, BackInv, revenue' = revenue,
         \A k \in DOMAIN invoices : invoices'[k] = invoices[k]
  PROVE  \A s : /\ PeriodicOf(s)' = PeriodicOf(s)
                /\ \A e \in PeriodicOf(s) : /\ DueOf(e)' = DueOf(e)
                                            /\ DueOf(e) \in Nat
                                            /\ s \in DOMAIN subs
<1> SUFFICES ASSUME NEW s
             PROVE  /\ PeriodicOf(s)' = PeriodicOf(s)
                    /\ \A e \in PeriodicOf(s) : /\ DueOf(e)' = DueOf(e)
                                                /\ DueOf(e) \in Nat
                                                /\ s \in DOMAIN subs
  OBVIOUS
<1>1. PeriodicOf(s)' = PeriodicOf(s)
  BY DEF PeriodicOf
<1>2. ASSUME NEW e \in PeriodicOf(s)
      PROVE  DueOf(e)' = DueOf(e) /\ DueOf(e) \in Nat /\ s \in DOMAIN subs
  BY DuesKept DEF PeriodicOf
<1> QED
  BY <1>1, <1>2

LEMMA QuietPeriods ==
  ASSUME TypeInv, BackInv, PeriodsInv, revenue' = revenue,
         \A k \in DOMAIN invoices : invoices'[k] = invoices[k]
  PROVE  NoPeriodBilledTwice'
<1> SUFFICES ASSUME NEW e \in DOMAIN revenue, NEW f \in DOMAIN revenue, e # f,
                    revenue[e].sub = revenue[f].sub,
                    revenue[e].type \in Periodic, revenue[f].type \in Periodic
             PROVE  invoices'[revenue[e].invoice].due # invoices'[revenue[f].invoice].due
  BY DEF NoPeriodBilledTwice
<1>1. DueOf(e)' = DueOf(e) /\ DueOf(f)' = DueOf(f)
  BY DuesKept
<1>2. DueOf(e) # DueOf(f)
  BY DEF PeriodsInv, NoPeriodBilledTwice, DueOf
<1> QED
  BY <1>1, <1>2 DEF DueOf

(* A request of another organization is untouched by a step of h: it looks *)
(* at other subscriptions.                                                 *)
LEMMA BillsElsewhere ==
  ASSUME TypeInv, BackInv, PeriodsInv, Serialized, NEW h \in Handlers, Frame(h),
         req[h].pc # "idle",
         \A s \in DOMAIN subs : subs[s].org # req[h].org => subs'[s] = subs[s],
         \A k \in DOMAIN invoices : invoices'[k] = invoices[k],
         \A e \in DOMAIN revenue' :
             \/ e \in DOMAIN revenue /\ revenue'[e] = revenue[e]
             \/ revenue'[e].sub = req[h].sub /\ req[h].pc = "recognise"
  PROVE  \A g \in Handlers \ {h} : Bills(req[g])'
<1> SUFFICES ASSUME NEW g \in Handlers \ {h} PROVE Bills(req[g])'
  OBVIOUS
<1>1. req'[g] = req[g] /\ Bills(req[g]) /\ Backs(req[g]) /\ Backs(req[h])
  BY DEF Frame, PeriodsInv, BackInv
<1> PICK q : q = req[g]
  OBVIOUS
<1>2. CASE q.pc \in {"idle", "create"}
  BY <1>1, <1>2 DEF Bills, Billing
<1>3. CASE q.pc \notin {"idle", "create"}
  <2>1. q.org # req[h].org
    BY <1>3, OthersElsewhere
  <2>2. q.sub \in DOMAIN subs /\ subs[q.sub].org = q.org
    BY <1>1, <1>3 DEF TypeInv, Located, Backs
  <2>3. subs'[q.sub] = subs[q.sub]
    BY <2>1, <2>2
  <2>4. req[h].pc = "recognise" => req[h].sub # q.sub
    BY <1>1, <2>1, <2>2 DEF Backs
  <2>5. \A e \in PeriodicOf(q.sub)' : e \in PeriodicOf(q.sub) /\ DueOf(e)' = DueOf(e)
    <3> SUFFICES ASSUME NEW e \in PeriodicOf(q.sub)'
                 PROVE  e \in PeriodicOf(q.sub) /\ DueOf(e)' = DueOf(e)
      OBVIOUS
    <3>1. e \in DOMAIN revenue' /\ revenue'[e].sub = q.sub /\ revenue'[e].type \in Periodic
      BY DEF PeriodicOf
    <3>2. e \in DOMAIN revenue /\ revenue'[e] = revenue[e]
      BY <2>4, <3>1
    <3> QED
      BY <3>1, <3>2, DuesKept DEF PeriodicOf
  <2>6. q.invoice # 0 => invoices'[q.invoice] = invoices[q.invoice]
    BY <1>1 DEF Backs
  <2>7. Bills(q)
    BY <1>1
  <2>8. Bills(q)'
    BY <2>3, <2>5, <2>6, <2>7 DEF Bills, Billing, IsCurrent
  <2> QED
    BY <1>1, <2>8 DEF Bills, Billing
<1> QED
  BY <1>2, <1>3

LEMMA StepPeriods ==
  TypeInv /\ BackInv /\ Serialized /\ StandingInv /\ PeriodsInv /\ [Next]_vars => PeriodsInv'
<1> SUFFICES ASSUME TypeInv, BackInv, Serialized, StandingInv, PeriodsInv, [Next]_vars
             PROVE  PeriodsInv'
  OBVIOUS
<1>1. CASE MonthPasses \/ UNCHANGED vars
  <2>1. UNCHANGED <<subs, invoices, revenue, req>>
    BY <1>1 DEF MonthPasses, vars
  <2> QED
    BY <2>1 DEF PeriodsInv, NoPeriodBilledTwice, Bills, Billing, IsCurrent, PeriodicOf, DueOf
<1>2. ASSUME NEW h \in Handlers, Start(h) PROVE PeriodsInv'
  <2>1. UNCHANGED <<subs, invoices, revenue>> /\ Frame(h)
    BY <1>2, StartDoes
  <2>2. ASSUME NEW g \in Handlers \ {h} PROVE Bills(req[g])'
    <3>1. req'[g] = req[g] /\ Bills(req[g])
      BY <2>1 DEF Frame, PeriodsInv
    <3> QED
      BY <2>1, <3>1 DEF Bills, Billing, IsCurrent, PeriodicOf, DueOf
  <2>3. Bills(req[h])'
    BY <1>2, StartDoes DEF Bills, Billing
  <2>4. NoPeriodBilledTwice'
    BY <2>1 DEF PeriodsInv, NoPeriodBilledTwice
  <2> QED
    BY <2>1, <2>2, <2>3, <2>4 DEF PeriodsInv, IsCurrent, PeriodicOf, DueOf
<1>3. ASSUME NEW h \in Handlers, CreateSubscription(h) PROVE PeriodsInv'
  <2> PICK n : n = req'[h].sub
    OBVIOUS
  <2>1. /\ UNCHANGED <<invoices, revenue>> /\ Frame(h) /\ req[h].pc = "create"
        /\ DOMAIN subs' = DOMAIN subs \cup {n} /\ n \notin DOMAIN subs
        /\ \A s \in DOMAIN subs : subs'[s] = subs[s]
        /\ subs'[n].status = "ACTIVE" /\ req'[h].due < subs'[n].end
        /\ req'[h].invoice = req[h].invoice /\ req'[h].pc = "number"
    BY <1>3, CreateDoes
  <2>2. \A s : /\ PeriodicOf(s)' = PeriodicOf(s)
               /\ \A e \in PeriodicOf(s) : DueOf(e)' = DueOf(e) /\ s \in DOMAIN subs
    BY <2>1, QuietDues
  <2>3. PeriodicOf(n)' = {}
    BY <2>1, <2>2
  <2>4. Bills(req[h])'
    <3>1. req[h].invoice = 0
      BY <2>1 DEF BackInv, Backs
    <3>2. PeriodicOf(req[h].sub)' = {} /\ IsCurrent(req[h].sub)'
      BY <2>1, <2>3 DEF PeriodicOf, IsCurrent, CurrentStatuses
    <3> QED
      BY <2>1, <3>1, <3>2 DEF Bills, Billing
  <2>5. \A g \in Handlers \ {h} : Bills(req[g])'
    BY <2>1, BillsElsewhere
  <2>6. ASSUME NEW s \in DOMAIN subs', IsCurrent(s)', NEW e \in PeriodicOf(s)'
        PROVE  DueOf(e)' < subs'[s].end
    BY <2>1, <2>2, <2>6 DEF PeriodsInv, IsCurrent
  <2>7. NoPeriodBilledTwice'
    BY <2>1, QuietPeriods
  <2> QED
    BY <2>4, <2>5, <2>6, <2>7 DEF PeriodsInv
<1>4. ASSUME NEW h \in Handlers, ExtendPeriod(h) \/ SwitchPlan(h) \/ EndSubscription(h)
      PROVE  PeriodsInv'
  <2> PICK n : n = req[h].sub
    OBVIOUS
  <2>1. /\ UNCHANGED <<invoices, revenue>> /\ Frame(h) /\ req[h].pc = "update"
        /\ DOMAIN subs' = DOMAIN subs /\ n \in DOMAIN subs /\ req'[h].sub = n
        /\ \A s \in DOMAIN subs \ {n} : subs'[s] = subs[s]
        /\ req'[h].invoice = req[h].invoice /\ req'[h].op = req[h].op
    BY <1>4, UpdateDoes DEF SameRequest
  <2>2. \/ /\ req[h].op = "renew" /\ subs'[n].status = "ACTIVE"
           /\ req'[h].due = req[h].due /\ req[h].due < subs'[n].end
           /\ req'[h].pc = "number"
        \/ /\ req[h].op = "change" /\ subs'[n].end = subs[n].end
           /\ req'[h].pc \in {"number", "recognise"}
        \/ /\ req[h].op = "cancel" /\ subs'[n].status = "CANCELED"
           /\ req'[h].pc = "recognise"
    BY <1>4, UpdateDoes
  <2>3. \A s : /\ PeriodicOf(s)' = PeriodicOf(s)
               /\ \A e \in PeriodicOf(s) : DueOf(e)' = DueOf(e) /\ DueOf(e) \in Nat
    BY <2>1, QuietDues
  <2>4. n \in Current(req[h].org) /\ Bills(req[h]) /\ Backs(req[h])
    BY <2>1 DEF StandingInv, Standing, PeriodsInv, BackInv
  <2>5. /\ IsCurrent(n) /\ \A e \in PeriodicOf(n) : DueOf(e) < subs[n].end
        /\ req[h].op = "renew" => req[h].due = subs[n].end
        /\ subs[n].org = req[h].org /\ req[h].invoice = 0
    BY <2>1, <2>4 DEF Current, IsCurrent, PeriodsInv, Bills, Backs
  <2>6. subs[n].end \in Nat /\ subs'[n].end \in Nat
    <3>1. TypeInv'
      BY StepTyped
    <3>2. subs[n] \in Subscription /\ subs'[n] \in Subscription
      BY <2>1, <3>1 DEF TypeInv, TypeOK, TablesOK
    <3> QED
      BY <3>2 DEF Subscription
  <2>7. Bills(req[h])'
    <3>1. req'[h].op = "renew" =>
             /\ subs'[n].status = "ACTIVE" /\ req'[h].due < subs'[n].end
             /\ \A e \in PeriodicOf(n)' : DueOf(e)' < req'[h].due
      BY <2>1, <2>2, <2>3, <2>5
    <3>2. PeriodicOf(req[h].sub)' = PeriodicOf(n)' /\ IsCurrent(req[h].sub)' = IsCurrent(n)'
      BY <2>1 DEF PeriodicOf, IsCurrent
    <3>3. subs'[n].status = "ACTIVE" => IsCurrent(n)'
      BY DEF IsCurrent, CurrentStatuses
    <3>4. req'[h].pc # "update" /\ req'[h].op # "subscribe" /\ req'[h].invoice = 0
      BY <2>1, <2>2, <2>5
    <3> QED
      BY <2>1, <3>1, <3>2, <3>3, <3>4 DEF Bills, Billing
  <2>8. \A g \in Handlers \ {h} : Bills(req[g])'
    BY <2>1, <2>5, BillsElsewhere
  <2>9. ASSUME NEW s \in DOMAIN subs', IsCurrent(s)', NEW e \in PeriodicOf(s)'
        PROVE  DueOf(e)' < subs'[s].end
    <3>1. CASE s # n
      BY <2>1, <2>3, <2>9, <3>1 DEF PeriodsInv, IsCurrent
    <3>2. CASE s = n
      <4>1. DueOf(e)' < subs[n].end /\ DueOf(e)' \in Nat
        BY <2>3, <2>5, <3>2
      <4>2. subs'[n].status # "CANCELED"
        BY <2>9, <3>2 DEF IsCurrent, CurrentStatuses
      <4>3. subs[n].end <= subs'[n].end
        BY <2>2, <2>5, <2>6, <4>2
      <4> QED
        BY <2>6, <3>2, <4>1, <4>3
    <3> QED
      BY <3>1, <3>2
  <2>10. NoPeriodBilledTwice'
    BY <2>1, QuietPeriods
  <2> QED
    BY <2>7, <2>8, <2>9, <2>10 DEF PeriodsInv
<1>5. ASSUME NEW h \in Handlers,
             \/ NumberInvoice(h) \/ InsertInvoice(h) \/ CreatePayment(h) \/ Checkout(h)
      PROVE  PeriodsInv'
  <2>1. /\ UNCHANGED <<subs, revenue>> /\ Frame(h) /\ SameRequest(h)
        /\ req[h].pc \in {"number", "insert", "pay", "checkout"}
        /\ req'[h].pc \notin {"idle", "create", "update"}
        /\ req'[h].due = req[h].due
        /\ \A k \in DOMAIN invoices : invoices'[k] = invoices[k]
    BY <1>5, NumberDoes, InsertDoes, PayDoes, CheckoutDoes
  <2>2. \/ req'[h].invoice = req[h].invoice
        \/ invoices'[req'[h].invoice].due = req[h].due
    BY <1>5, NumberDoes, InsertDoes, PayDoes, CheckoutDoes
  <2>3. \A s : /\ PeriodicOf(s)' = PeriodicOf(s)
               /\ \A e \in PeriodicOf(s) : DueOf(e)' = DueOf(e)
    BY <2>1, QuietDues
  <2>4. Bills(req[h])'
    <3>1. Bills(req[h]) /\ Backs(req[h])
      BY DEF PeriodsInv, BackInv
    <3>2. PeriodicOf(req[h].sub)' = PeriodicOf(req[h].sub) /\ req'[h].sub = req[h].sub
          /\ req'[h].op = req[h].op
      BY <2>1, <2>3 DEF SameRequest, PeriodicOf
    <3>3. req[h].invoice # 0 => invoices'[req[h].invoice] = invoices[req[h].invoice]
      BY <2>1, <3>1 DEF Backs
    <3>4. IsCurrent(req[h].sub)' = IsCurrent(req[h].sub)
      BY <2>1, <3>2 DEF IsCurrent
    <3> QED
      BY <2>1, <2>2, <2>3, <3>1, <3>2, <3>3, <3>4 DEF Bills, Billing
  <2>5. \A g \in Handlers \ {h} : Bills(req[g])'
    BY <2>1, BillsElsewhere
  <2>6. ASSUME NEW s \in DOMAIN subs', IsCurrent(s)', NEW e \in PeriodicOf(s)'
        PROVE  DueOf(e)' < subs'[s].end
    BY <2>1, <2>3, <2>6 DEF PeriodsInv, IsCurrent
  <2>7. NoPeriodBilledTwice'
    BY <2>1, QuietPeriods
  <2> QED
    BY <2>4, <2>5, <2>6, <2>7 DEF PeriodsInv
<1>6. ASSUME NEW h \in Handlers, RejectInvoice(h) \/ CallFails(h) PROVE PeriodsInv'
  <2>1. UNCHANGED <<subs, invoices, revenue>> /\ Frame(h) /\ req'[h] = Idle
    BY <1>6, EndDoes
  <2>2. ASSUME NEW g \in Handlers PROVE Bills(req[g])'
    <3>1. CASE g = h
      BY <2>1, <3>1 DEF Bills, Billing, Idle
    <3>2. CASE g # h
      <4>1. req'[g] = req[g] /\ Bills(req[g])
        BY <2>1, <3>2 DEF Frame, PeriodsInv
      <4> QED
        BY <2>1, <4>1 DEF Bills, Billing, IsCurrent, PeriodicOf, DueOf
    <3> QED
      BY <3>1, <3>2
  <2>3. NoPeriodBilledTwice'
    BY <2>1 DEF PeriodsInv, NoPeriodBilledTwice
  <2> QED
    BY <2>1, <2>2, <2>3 DEF PeriodsInv, IsCurrent, PeriodicOf, DueOf
<1>7. ASSUME NEW h \in Handlers, Recognise(h) PROVE PeriodsInv'
  <2>1. /\ UNCHANGED <<subs, invoices>> /\ Frame(h) /\ req[h].pc = "recognise"
        /\ req'[h] = Idle
    BY <1>7, RecogniseDoes
  <2>2. PICK n : /\ DOMAIN revenue' = DOMAIN revenue \cup {n} /\ n \notin DOMAIN revenue
                 /\ \A e \in DOMAIN revenue : revenue'[e] = revenue[e]
                 /\ revenue'[n].sub = req[h].sub /\ revenue'[n].invoice = req[h].invoice
                 /\ revenue'[n].type = EventType(req[h])
    BY <1>7, RecogniseDoes
  <2>3. ASSUME revenue'[n].type \in Periodic
        PROVE  /\ IsCurrent(req[h].sub) /\ req[h].due < subs[req[h].sub].end
               /\ \A e \in PeriodicOf(req[h].sub) : DueOf(e) < req[h].due
               /\ DueOf(n)' = req[h].due /\ req[h].due \in Nat
    <3>1. req[h].op \in {"subscribe", "renew"}
      <4>1. req[h].op \in Op \ {None}
        BY <2>1 DEF TypeInv, TypeOK, Located, Request
      <4> QED
        BY <2>2, <2>3, <4>1 DEF EventType, Periodic, Op
    <3>2. Bills(req[h]) /\ Backs(req[h])
      BY DEF PeriodsInv, BackInv
    <3>3. req[h].invoice # 0
      BY <2>1, <3>1, <3>2 DEF Backs
    <3>4. req[h].due \in Nat
      BY DEF TypeInv, TypeOK, Request
    <3> QED
      BY <2>1, <2>2, <3>1, <3>2, <3>3, <3>4 DEF Bills, Billing, DueOf
  <2>4. \A e \in DOMAIN revenue : revenue[e].type \in Periodic =>
           DueOf(e)' = DueOf(e) /\ DueOf(e) \in Nat
    BY <2>1, <2>2, DuesKept
  <2>5. NoPeriodBilledTwice'
    <3> SUFFICES ASSUME NEW e \in DOMAIN revenue', NEW f \in DOMAIN revenue', e # f,
                        revenue'[e].sub = revenue'[f].sub,
                        revenue'[e].type \in Periodic, revenue'[f].type \in Periodic
                 PROVE  DueOf(e)' # DueOf(f)'
      BY DEF NoPeriodBilledTwice, DueOf
    <3>1. CASE e # n /\ f # n
      <4>1. DueOf(e) # DueOf(f)
        BY <2>2, <3>1 DEF PeriodsInv, NoPeriodBilledTwice, DueOf
      <4> QED
        BY <2>2, <2>4, <3>1, <4>1
    <3>2. CASE e = n
      <4>1. f \in PeriodicOf(req[h].sub) /\ f \in DOMAIN revenue
        BY <2>2, <3>2 DEF PeriodicOf
      <4>2. DueOf(f)' \in Nat /\ DueOf(f)' < DueOf(n)' /\ DueOf(n)' \in Nat
        BY <2>2, <2>3, <2>4, <3>2, <4>1
      <4> QED
        BY <3>2, <4>2
    <3>3. CASE f = n
      <4>1. e \in PeriodicOf(req[h].sub) /\ e \in DOMAIN revenue
        BY <2>2, <3>3 DEF PeriodicOf
      <4>2. DueOf(e)' \in Nat /\ DueOf(e)' < DueOf(n)' /\ DueOf(n)' \in Nat
        BY <2>2, <2>3, <2>4, <3>3, <4>1
      <4> QED
        BY <3>3, <4>2
    <3> QED
      BY <3>1, <3>2, <3>3
  <2>6. ASSUME NEW s \in DOMAIN subs', IsCurrent(s)', NEW e \in PeriodicOf(s)'
        PROVE  DueOf(e)' < subs'[s].end
    <3>1. e \in DOMAIN revenue' /\ revenue'[e].sub = s /\ revenue'[e].type \in Periodic
      BY DEF PeriodicOf
    <3>2. CASE e = n
      BY <2>1, <2>2, <2>3, <3>1, <3>2
    <3>3. CASE e # n
      <4>1. e \in PeriodicOf(s) /\ DueOf(e)' = DueOf(e)
        BY <2>2, <2>4, <3>1, <3>3 DEF PeriodicOf
      <4> QED
        BY <2>1, <2>6, <4>1 DEF PeriodsInv, IsCurrent
    <3> QED
      BY <3>2, <3>3
  <2>7. \A g \in Handlers \ {h} : Bills(req[g])'
    BY <2>1, <2>2, BillsElsewhere
  <2>8. Bills(req[h])'
    BY <2>1 DEF Bills, Billing, Idle
  <2> QED
    BY <2>5, <2>6, <2>7, <2>8 DEF PeriodsInv
<1> QED
  BY <1>1, <1>2, <1>3, <1>4, <1>5, <1>6, <1>7 DEF Next, Continue

(* No period of a subscription is billed twice: the start and the renewals *)
(* recognised of one subscription have invoices with different due dates,  *)
(* if the requests of its organization do not overlap, whichever calls     *)
(* fail (renewSubscription, subscription.service.ts:97-139).               *)
THEOREM NoPeriodBilledTwiceIfSerialized == Spec /\ []Serialized => []NoPeriodBilledTwice
<1>1. PeriodsInv => NoPeriodBilledTwice
  BY DEF PeriodsInv
<1> QED
  BY <1>1, InitTyped, StepTyped, InitBacked, StepBacked, InitStanding, StepStanding,
     InitPeriods, StepPeriods, PTL DEF Spec
(***************************************************************************)
(* Nothing half done.  What a request has written and not finished yet it  *)
(* still holds; and the number it counted is still free when it creates    *)
(* the invoice, so that the constraint does not end it half way.           *)
(***************************************************************************)

IsStarted(s) ==
    \E e \in DOMAIN revenue :
        revenue[e].sub = s /\ revenue[e].type = "SUBSCRIPTION_STARTED"
HasCheckout(k) ==
    \E p \in DOMAIN payments : payments[p].invoice = k /\ charge[p] # "none"
IsDone(k) ==
    \E e \in DOMAIN revenue :
        /\ revenue[e].invoice = k
        /\ revenue[e].type # "SUBSCRIPTION_RENEWED" => HasCheckout(k)

Starting(r, s) == r.op = "subscribe" /\ r.pc \notin {"idle", "create"} /\ r.sub = s
Holding(r, k) == r.pc \in {"pay", "checkout", "recognise"} /\ r.invoice = k

Finishes(r) ==
    /\ r.pc = "create" => r.op = "subscribe"
    /\ r.pc = "insert" => r.number.count = Many(invoices, r.org, r.number.month) + 1
    /\ r.pc = "checkout" =>
           r.payment \in DOMAIN payments /\ payments[r.payment].invoice = r.invoice
    /\ r.pc = "recognise" /\ r.invoice # 0 /\ r.op # "renew" => HasCheckout(r.invoice)

WholeInv ==
    /\ \A s \in DOMAIN subs : IsStarted(s) \/ \E h \in Handlers : Starting(req[h], s)
    /\ \A k \in DOMAIN invoices : IsDone(k) \/ \E h \in Handlers : Holding(req[h], k)
    /\ \A h \in Handlers : Finishes(req[h])

LEMMA InitWhole == Init => WholeInv
  BY DEF Init, EmptyTables, WholeInv, Finishes, Idle

(* Payments and their checkouts stay.                                      *)
CheckoutsStay ==
    /\ DOMAIN payments \subseteq DOMAIN payments'
    /\ \A p \in DOMAIN payments :
           payments'[p] = payments[p] /\ charge'[p] \in {charge[p], "open"}

LEMMA CheckoutKept ==
  ASSUME CheckoutsStay, NEW k, HasCheckout(k)
  PROVE  HasCheckout(k)'
<1>1. PICK p \in DOMAIN payments : payments[p].invoice = k /\ charge[p] # "none"
  BY DEF HasCheckout
<1>2. p \in DOMAIN payments' /\ payments'[p].invoice = k /\ charge'[p] # "none"
  BY <1>1 DEF CheckoutsStay
<1> QED
  BY <1>2 DEF HasCheckout

(* What a step of h owes: its own request, what it held, and what it adds. *)
LEMMA WholeKept ==
  ASSUME TypeInv, WholeInv, Serialized, NEW h \in Handlers, Frame(h), CheckoutsStay,
         invoices' = invoices \/ \E row \in Invoice : /\ req[h].pc # "idle"
                                                      /\ row.org = req[h].org
                                                      /\ invoices' = Append(invoices, row),
         \A e \in DOMAIN revenue : e \in DOMAIN revenue' /\ revenue'[e] = revenue[e],
         Finishes(req[h])',
         \A s \in DOMAIN subs' : \/ s \in DOMAIN subs /\ ~Starting(req[h], s)
                                 \/ IsStarted(s)' \/ Starting(req[h], s)',
         \A k \in DOMAIN invoices' : \/ k \in DOMAIN invoices /\ ~Holding(req[h], k)
                                     \/ IsDone(k)' \/ Holding(req[h], k)'
  PROVE  WholeInv'
<1>1. \A g \in Handlers \ {h} : req'[g] = req[g]
  BY DEF Frame
<1>2. ASSUME NEW s \in DOMAIN subs' PROVE IsStarted(s)' \/ \E g \in Handlers : Starting(req[g], s)'
  <2>1. IsStarted(s) => IsStarted(s)'
    BY DEF IsStarted
  <2>2. \A g \in Handlers \ {h} : Starting(req[g], s) => Starting(req[g], s)'
    BY <1>1 DEF Starting
  <2> QED
    BY <2>1, <2>2 DEF WholeInv
<1>3. ASSUME NEW k \in DOMAIN invoices' PROVE IsDone(k)' \/ \E g \in Handlers : Holding(req[g], k)'
  <2>1. IsDone(k) => IsDone(k)'
    BY CheckoutKept DEF IsDone
  <2>2. \A g \in Handlers \ {h} : Holding(req[g], k) => Holding(req[g], k)'
    BY <1>1 DEF Holding
  <2> QED
    BY <2>1, <2>2 DEF WholeInv
<1>4. ASSUME NEW g \in Handlers \ {h} PROVE Finishes(req[g])'
  <2> PICK q : q = req[g]
    OBVIOUS
  <2>1. req'[g] = q /\ Finishes(q)
    BY <1>1 DEF WholeInv
  <2>2. q.pc = "insert" => Many(invoices', q.org, q.number.month) = Many(invoices, q.org, q.number.month)
    <3> SUFFICES ASSUME q.pc = "insert", invoices' # invoices
                 PROVE  Many(invoices', q.org, q.number.month)
                            = Many(invoices, q.org, q.number.month)
      OBVIOUS
    <3>1. PICK row \in Invoice : /\ req[h].pc # "idle" /\ row.org = req[h].org
                                 /\ invoices' = Append(invoices, row)
      OBVIOUS
    <3>2. q.org # row.org
      BY <3>1, OthersElsewhere
    <3>3. invoices \in Seq(Invoice)
      BY DEF TypeInv, TypeOK, TablesOK
    <3> QED
      BY <3>1, <3>2, <3>3, AddNumbered
  <2>3. HasCheckout(q.invoice) => HasCheckout(q.invoice)'
    BY CheckoutKept
  <2>4. q.payment \in DOMAIN payments =>
           q.payment \in DOMAIN payments' /\ payments'[q.payment] = payments[q.payment]
    BY DEF CheckoutsStay
  <2>5. Finishes(q)'
    BY <2>1, <2>2, <2>3, <2>4 DEF Finishes
  <2> QED
    BY <2>1, <2>5 DEF Finishes, HasCheckout
<1> QED
  BY <1>2, <1>3, <1>4 DEF WholeInv

(* Numbers are free when they are used, so no invoice is rejected.         *)
LEMMA NumberIsFree ==
  ASSUME TypeInv, NumberingInv, WholeInv, NEW h \in Handlers, RejectInvoice(h)
  PROVE  FALSE
<1>1. /\ req[h].pc = "insert" /\ NumberTaken(req[h].org, req[h].number)
      /\ req[h].org \in Orgs /\ req[h].number.month \in Nat
      /\ invoices \in Seq(Invoice)
  BY DEF RejectInvoice, TypeInv, TypeOK, TablesOK, Located, Request, InvoiceNumber
<1> PICK o, m, c : o = req[h].org /\ m = req[h].number.month /\ c = req[h].number.count
  OBVIOUS
<1>2. c = Many(invoices, o, m) + 1 /\ Many(invoices, o, m) \in Nat
  BY <1>1, ManyIsNat DEF WholeInv, Finishes
<1>3. c \in Counts(invoices, o, m)
  BY <1>1 DEF NumberTaken, Counts, Of
<1>4. c \in 1..Many(invoices, o, m)
  BY <1>1, <1>3 DEF NumberingInv
<1> QED
  BY <1>2, <1>4

LEMMA StepWhole ==
  ASSUME ~CallsFail, TypeInv, NumberingInv, BackInv, Serialized, WholeInv, [Next]_vars
  PROVE  WholeInv'
<1>1. CASE MonthPasses \/ UNCHANGED vars
  <2>1. UNCHANGED <<subs, invoices, payments, charge, revenue, req>>
    BY <1>1 DEF MonthPasses, vars
  <2> QED
    BY <2>1 DEF WholeInv, IsStarted, IsDone, HasCheckout, Starting, Holding, Finishes
<1>2. ASSUME NEW h \in Handlers, Start(h) PROVE WholeInv'
  <2>1. /\ UNCHANGED <<subs, invoices, payments, charge, revenue>> /\ Frame(h)
        /\ req[h].pc = "idle" /\ req'[h].pc \in {"create", "update"}
        /\ req'[h].pc = "create" => req'[h].op = "subscribe"
    BY <1>2, StartDoes
  <2>2. CheckoutsStay
    BY <2>1 DEF CheckoutsStay
  <2>3. Finishes(req[h])'
    BY <2>1 DEF Finishes
  <2>4. \A x : ~Starting(req[h], x) /\ ~Holding(req[h], x)
    BY <2>1 DEF Starting, Holding
  <2> QED
    BY <2>1, <2>2, <2>3, <2>4, WholeKept
<1>3. ASSUME NEW h \in Handlers, CreateSubscription(h) PROVE WholeInv'
  <2>1. /\ UNCHANGED <<invoices, payments, charge, revenue>> /\ Frame(h)
        /\ req[h].pc = "create" /\ req'[h].pc = "number" /\ req'[h].op = req[h].op
        /\ DOMAIN subs' = DOMAIN subs \cup {req'[h].sub}
    BY <1>3, CreateDoes
  <2>2. CheckoutsStay
    BY <2>1 DEF CheckoutsStay
  <2>3. Finishes(req[h])' /\ req[h].op = "subscribe"
    BY <2>1 DEF WholeInv, Finishes
  <2>4. \A s \in DOMAIN subs' : (s \in DOMAIN subs /\ ~Starting(req[h], s)) \/ Starting(req[h], s)'
    BY <2>1, <2>3 DEF Starting
  <2>5. \A k : ~Holding(req[h], k)
    BY <2>1 DEF Holding
  <2> QED
    BY <2>1, <2>2, <2>3, <2>4, <2>5, WholeKept
<1>4. ASSUME NEW h \in Handlers, ExtendPeriod(h) \/ SwitchPlan(h) \/ EndSubscription(h)
      PROVE  WholeInv'
  <2>1. /\ UNCHANGED <<invoices, payments, charge, revenue>> /\ Frame(h)
        /\ req[h].pc = "update" /\ req'[h].pc \in {"number", "recognise"}
        /\ req[h].op # "subscribe" /\ DOMAIN subs' = DOMAIN subs
        /\ req'[h].invoice = req[h].invoice
    BY <1>4, UpdateDoes
  <2>2. CheckoutsStay
    BY <2>1 DEF CheckoutsStay
  <2>3. Finishes(req[h])'
    <3>1. req[h].invoice = 0
      BY <2>1 DEF BackInv, Backs
    <3> QED
      BY <2>1, <3>1 DEF Finishes
  <2>4. \A x : ~Starting(req[h], x) /\ ~Holding(req[h], x)
    BY <2>1 DEF Starting, Holding
  <2> QED
    BY <2>1, <2>2, <2>3, <2>4, WholeKept
<1>5. ASSUME NEW h \in Handlers, NumberInvoice(h) PROVE WholeInv'
  <2>1. /\ UNCHANGED <<subs, invoices, payments, charge, revenue>> /\ Frame(h)
        /\ SameRequest(h) /\ req[h].pc = "number" /\ req'[h].pc = "insert"
        /\ req'[h].number.count = Many(invoices, req[h].org, req'[h].number.month) + 1
    BY <1>5, NumberDoes
  <2>2. CheckoutsStay
    BY <2>1 DEF CheckoutsStay
  <2>3. Finishes(req[h])'
    BY <2>1 DEF Finishes, SameRequest
  <2>4. \A s : Starting(req[h], s) => Starting(req[h], s)'
    BY <2>1 DEF Starting, SameRequest
  <2>5. \A k : ~Holding(req[h], k)
    BY <2>1 DEF Holding
  <2> QED
    BY <2>1, <2>2, <2>3, <2>4, <2>5, WholeKept
<1>6. ASSUME NEW h \in Handlers, InsertInvoice(h) PROVE WholeInv'
  <2>1. /\ UNCHANGED <<subs, payments, charge, revenue>> /\ Frame(h)
        /\ SameRequest(h) /\ req[h].pc = "insert"
        /\ req'[h].pc = IF req[h].op = "renew" THEN "recognise" ELSE "pay"
        /\ DOMAIN invoices' = DOMAIN invoices \cup {req'[h].invoice}
    BY <1>6, InsertDoes
  <2>2. CheckoutsStay
    BY <2>1 DEF CheckoutsStay
  <2>3. Finishes(req[h])'
    BY <2>1 DEF Finishes, SameRequest
  <2>4. \A s : Starting(req[h], s) => Starting(req[h], s)'
    BY <2>1 DEF Starting, SameRequest
  <2>5. \A k \in DOMAIN invoices' : \/ k \in DOMAIN invoices /\ ~Holding(req[h], k)
                                \/ Holding(req[h], k)'
    BY <2>1 DEF Holding
  <2>6. \E row \in Invoice : row.org = req[h].org /\ invoices' = Append(invoices, row)
    BY <1>6, InsertDoes
  <2> QED
    BY <2>1, <2>2, <2>3, <2>4, <2>5, <2>6, WholeKept
<1>7. ASSUME NEW h \in Handlers, RejectInvoice(h) PROVE FALSE
  BY <1>7, NumberIsFree
<1>8. ASSUME NEW h \in Handlers, CreatePayment(h) PROVE WholeInv'
  <2>1. /\ UNCHANGED <<subs, invoices, revenue>> /\ Frame(h)
        /\ SameRequest(h) /\ req[h].pc = "pay" /\ req'[h].pc = "checkout"
        /\ req'[h].invoice = req[h].invoice
        /\ req'[h].payment \in DOMAIN payments'
        /\ payments'[req'[h].payment].invoice = req[h].invoice
    BY <1>8, PayDoes
  <2>2. CheckoutsStay
    BY <1>8, PayDoes DEF CheckoutsStay
  <2>3. Finishes(req[h])'
    BY <2>1 DEF Finishes
  <2>4. \A s : Starting(req[h], s) => Starting(req[h], s)'
    BY <2>1 DEF Starting, SameRequest
  <2>5. \A k : Holding(req[h], k) => Holding(req[h], k)'
    BY <2>1 DEF Holding
  <2> QED
    BY <2>1, <2>2, <2>3, <2>4, <2>5, WholeKept
<1>9. ASSUME NEW h \in Handlers, Checkout(h) PROVE WholeInv'
  <2>1. /\ UNCHANGED <<subs, invoices, payments, revenue>> /\ Frame(h)
        /\ SameRequest(h) /\ req[h].pc = "checkout" /\ req'[h].pc = "recognise"
        /\ req'[h].invoice = req[h].invoice
        /\ req[h].payment \in DOMAIN payments => charge'[req[h].payment] = "open"
    BY <1>9, CheckoutDoes
  <2>2. CheckoutsStay
    BY <1>9, CheckoutDoes DEF CheckoutsStay
  <2>3. Finishes(req[h])'
    <3>1. req[h].payment \in DOMAIN payments /\ payments[req[h].payment].invoice = req[h].invoice
      BY <2>1 DEF WholeInv, Finishes
    <3>2. HasCheckout(req[h].invoice)'
      BY <2>1, <3>1 DEF HasCheckout
    <3> QED
      BY <2>1, <3>2 DEF Finishes
  <2>4. \A s : Starting(req[h], s) => Starting(req[h], s)'
    BY <2>1 DEF Starting, SameRequest
  <2>5. \A k : Holding(req[h], k) => Holding(req[h], k)'
    BY <2>1 DEF Holding
  <2> QED
    BY <2>1, <2>2, <2>3, <2>4, <2>5, WholeKept
<1>10. ASSUME NEW h \in Handlers, Recognise(h) PROVE WholeInv'
  <2>1. /\ UNCHANGED <<subs, invoices, payments, charge>> /\ Frame(h)
        /\ req[h].pc = "recognise" /\ req'[h] = Idle
    BY <1>10, RecogniseDoes
  <2>2. PICK n : /\ DOMAIN revenue' = DOMAIN revenue \cup {n} /\ n \notin DOMAIN revenue
                 /\ \A e \in DOMAIN revenue : revenue'[e] = revenue[e]
                 /\ revenue'[n].sub = req[h].sub /\ revenue'[n].invoice = req[h].invoice
                 /\ revenue'[n].type = EventType(req[h])
    BY <1>10, RecogniseDoes
  <2>3. CheckoutsStay
    BY <2>1 DEF CheckoutsStay
  <2>4. Finishes(req[h])'
    BY <2>1 DEF Finishes, Idle
  <2>5. ASSUME NEW s \in DOMAIN subs', Starting(req[h], s) PROVE IsStarted(s)'
    BY <2>2, <2>5 DEF Starting, IsStarted, EventType
  <2>6. ASSUME NEW k \in DOMAIN invoices', Holding(req[h], k) PROVE IsDone(k)'
    <3>1. req[h].invoice = k /\ k # 0
      <4>1. invoices \in Seq(Invoice)
        BY DEF TypeInv, TypeOK, TablesOK
      <4> QED
        BY <2>1, <2>6, <4>1 DEF Holding
    <3>2. req[h].op = "renew" => revenue'[n].type = "SUBSCRIPTION_RENEWED"
      BY <2>2 DEF EventType
    <3>3. req[h].op # "renew" => HasCheckout(k)'
      <4>1. req[h].op # "renew" => HasCheckout(k)
        BY <2>1, <3>1 DEF WholeInv, Finishes
      <4> QED
        BY <2>3, <4>1, CheckoutKept
    <3> QED
      BY <2>2, <3>1, <3>2, <3>3 DEF IsDone
  <2> QED
    BY <2>1, <2>2, <2>3, <2>4, <2>5, <2>6, WholeKept
<1> QED
  BY <1>1, <1>2, <1>3, <1>4, <1>5, <1>6, <1>7, <1>8, <1>9, <1>10
  DEF Next, Continue, CallFails

(* While no call fails, the requests of an organization that do not        *)
(* overlap leave nothing half done: when none is in progress every         *)
(* subscription was recognised as started, every invoice is recognised,    *)
(* and every invoice but a renewal's has its checkout                      *)
(* (subscription.service.ts:41-239).                                       *)
THEOREM NothingHalfDoneIfSerialized ==
  ASSUME ~CallsFail
  PROVE  Spec /\ []Serialized => []NothingHalfDone
<1>1. WholeInv => NothingHalfDone
  <2> SUFFICES ASSUME WholeInv, Busy = {} PROVE NothingHalfDone
    BY DEF NothingHalfDone
  <2>1. \A h \in Handlers : \A x : ~Starting(req[h], x) /\ ~Holding(req[h], x)
    BY DEF Busy, Starting, Holding
  <2>2. /\ \A s \in DOMAIN subs : IsStarted(s)
        /\ \A k \in DOMAIN invoices : IsDone(k)
    BY <2>1 DEF WholeInv
  <2> QED
    BY <2>2 DEF NothingHalfDone, IsStarted, IsDone, HasCheckout
<1>2. TypeInv /\ NumberingInv /\ BackInv /\ Serialized /\ WholeInv /\ [Next]_vars => WholeInv'
  BY StepWhole
<1> QED
  BY <1>1, <1>2, InitTyped, StepTyped, InitNumbering, StepNumbered, InitBacked, StepBacked,
     InitWhole, PTL DEF Spec

(***************************************************************************)
(* The ledger.  What the events of a subscription add up to is the price   *)
(* of its plan, but for what the request that works on it has still to     *)
(* recognise.                                                              *)
(***************************************************************************)

AmountsOf(rows) == [e \in DOMAIN rows |-> rows[e].amount]
EventsOf(rows, s, type) == {e \in DOMAIN rows : rows[e].sub = s /\ rows[e].type = type}
SumIn(rows, s, type) == Total(AmountsOf(rows), EventsOf(rows, s, type))
Balance(rows, s) ==
    SumIn(rows, s, "SUBSCRIPTION_STARTED") + SumIn(rows, s, "UPGRADE") - SumIn(rows, s, "DOWNGRADE")

LEMMA SumOfIsTotal ==
  ASSUME revenue \in Seq(RevenueEvent), NEW s, NEW type
  PROVE  SumOf(s, type) = SumIn(revenue, s, type)
<1> DEFINE E == EventsOf(revenue, s, type)
           f == AmountsOf(revenue)
           P(iter) == iter = [t \in SUBSET E |->
                                 IF t = {} THEN 0
                                 ELSE LET x == CHOOSE x \in t : TRUE
                                      IN  revenue[x].amount + iter[t \ {x}]]
<1>1. IsFiniteSet(E)
  BY FS_Interval, FS_Subset DEF EventsOf
<1>2. SumOf(s, type) = (CHOOSE iter : P(iter))[E]
  BY Zenon DEF SumOf, MapThenSumSet, MapThenFoldSet, EventsOf
<1>3. PICK g : IsSum(g, f, E) /\ Total(f, E) = g[E]
  BY <1>1, TotalIsSum
<1>4. \A iter : P(iter) <=> IsSum(iter, f, E)
  <2>1. \A t \in SUBSET E : t # {} => f[Picked(t)] = revenue[Picked(t)].amount
    BY PickedIsIn DEF EventsOf, AmountsOf
  <2> HIDE DEF f
  <2> QED
    BY <2>1 DEF IsSum, Picked
<1> HIDE DEF P, E, f
<1>5. P(CHOOSE iter : P(iter))
  BY <1>3, <1>4, Zenon
<1>6. IsSum(CHOOSE iter : P(iter), f, E)
  BY <1>4, <1>5, Zenon
<1>7. E \in SUBSET E
  OBVIOUS
<1>8. \A h : IsSum(h, f, E) => g[E] = h[E]
  BY <1>1, <1>3, <1>7, SumIsUnique
<1>9. g[E] = (CHOOSE iter : P(iter))[E]
  BY <1>6, <1>8, Zenon
<1>10. SumOf(s, type) = Total(f, E)
  BY <1>2, <1>3, <1>9, Zenon
<1> QED
  BY <1>10 DEF SumIn, E, f

LEMMA AmountIsNat ==
  ASSUME NEW rows \in Seq(RevenueEvent)
  PROVE  \A e \in DOMAIN rows : rows[e].amount \in Nat /\ AmountsOf(rows)[e] = rows[e].amount
<1>1. \A e \in DOMAIN rows : rows[e] \in RevenueEvent
  OBVIOUS
<1>2. \A r \in RevenueEvent : r.amount \in Nat
  BY DEF RevenueEvent
<1> QED
  BY <1>1, <1>2 DEF AmountsOf

LEMMA SumInType ==
  ASSUME NEW rows \in Seq(RevenueEvent), NEW s, NEW type
  PROVE  SumIn(rows, s, type) \in Int /\ IsFiniteSet(EventsOf(rows, s, type))
<1>1. IsFiniteSet(EventsOf(rows, s, type))
  BY FS_Interval, FS_Subset DEF EventsOf
<1>2. \A e \in EventsOf(rows, s, type) : AmountsOf(rows)[e] \in Int
  BY AmountIsNat DEF EventsOf
<1> QED
  BY <1>1, <1>2, TotalType DEF SumIn

LEMMA SumOfOneMore ==
  ASSUME NEW rows \in Seq(RevenueEvent), NEW row \in RevenueEvent, NEW s, NEW type
  PROVE  SumIn(Append(rows, row), s, type) =
             SumIn(rows, s, type) + (IF row.sub = s /\ row.type = type THEN row.amount ELSE 0)
<1> DEFINE n == Len(rows) + 1
           more == Append(rows, row)
           E == EventsOf(rows, s, type)
           f == AmountsOf(rows)
           g == AmountsOf(more)
<1>1. /\ DOMAIN more = DOMAIN rows \cup {n} /\ more[n] = row /\ n \notin DOMAIN rows
      /\ \A e \in DOMAIN rows : more[e] = rows[e]
      /\ \A e \in DOMAIN rows : rows[e].amount \in Int
  BY AddRow, AmountIsNat
<1>2. row.amount \in Int
  BY DEF RevenueEvent
<1> HIDE DEF n, more
<1>3. IsFiniteSet(E) /\ n \notin E /\ E \subseteq DOMAIN rows
  <2>1. E \subseteq DOMAIN rows
    BY DEF EventsOf
  <2>2. IsFiniteSet(E)
    BY SumInType
  <2> QED
    BY <1>1, <2>1, <2>2
<1>4. /\ \A e \in E : f[e] = g[e] /\ g[e] \in Int
      /\ g[n] = row.amount
  BY <1>1, <1>3 DEF AmountsOf
<1>5. EventsOf(more, s, type) = IF row.sub = s /\ row.type = type THEN E \cup {n} ELSE E
  BY <1>1 DEF EventsOf
<1>6. SumIn(rows, s, type) = Total(f, E) /\ SumIn(more, s, type) = Total(g, EventsOf(more, s, type))
  BY DEF SumIn
<1> HIDE DEF E, f, g
<1>7. Total(f, E) = Total(g, E) /\ Total(g, E) \in Int
  BY <1>3, <1>4, TotalAgrees, TotalType
<1>8. Total(g, E \cup {n}) = row.amount + Total(g, E)
  BY <1>2, <1>3, <1>4, TotalAdds
<1>9. SumIn(more, s, type) = SumIn(rows, s, type)
                              + (IF row.sub = s /\ row.type = type THEN row.amount ELSE 0)
  BY <1>2, <1>5, <1>6, <1>7, <1>8
<1> QED
  BY <1>9 DEF more

(* A subscription that no event is of has the balance 0.                   *)
LEMMA NoEventNoBalance ==
  ASSUME NEW rows \in Seq(RevenueEvent), NEW s, \A e \in DOMAIN rows : rows[e].sub # s
  PROVE  Balance(rows, s) = 0
<1>1. \A type : EventsOf(rows, s, type) = {}
  BY DEF EventsOf
<1>2. \A type : SumIn(rows, s, type) = 0
  BY <1>1, TotalOfNothing DEF SumIn
<1> QED
  BY <1>2 DEF Balance
(* A row is recognised: the balance of its subscription moves by the       *)
(* signed amount of the request, if it started or changed the plan.        *)
Moves(r) == IF r.op \in {"subscribe", "change"} THEN r.amount ELSE 0

LEMMA BalanceType ==
  ASSUME NEW rows \in Seq(RevenueEvent), NEW s
  PROVE  Balance(rows, s) \in Int
  BY SumInType DEF Balance

LEMMA RecognisedBalance ==
  ASSUME NEW rows \in Seq(RevenueEvent), NEW r \in Request, NEW row \in RevenueEvent,
         r.op \in {"subscribe", "renew", "change", "cancel"},
         r.op = "subscribe" => r.amount >= 0,
         row.sub = r.sub, row.type = EventType(r), row.amount = Magnitude(r.amount), NEW s
  PROVE  Balance(Append(rows, row), s) = Balance(rows, s) + (IF s = r.sub THEN Moves(r) ELSE 0)
<1> DEFINE Started(x) == SumIn(x, s, "SUBSCRIPTION_STARTED")
           Up(x) == SumIn(x, s, "UPGRADE")
           Down(x) == SumIn(x, s, "DOWNGRADE")
           more == Append(rows, row)
           a == r.amount
           m == row.amount
           By(type) == IF s = r.sub /\ row.type = type THEN m ELSE 0
<1>1. /\ Started(more) = Started(rows) + By("SUBSCRIPTION_STARTED")
      /\ Up(more) = Up(rows) + By("UPGRADE")
      /\ Down(more) = Down(rows) + By("DOWNGRADE")
  <2>1. \A type : SumIn(more, s, type) = SumIn(rows, s, type)
                     + (IF row.sub = s /\ row.type = type THEN row.amount ELSE 0)
    BY SumOfOneMore
  <2> HIDE DEF more
  <2> QED
    BY <2>1
<1>2. Started(rows) \in Int /\ Up(rows) \in Int /\ Down(rows) \in Int
  BY SumInType
<1>3. /\ Balance(more, s) = Started(more) + Up(more) - Down(more)
      /\ Balance(rows, s) = Started(rows) + Up(rows) - Down(rows)
  BY DEF Balance
<1>4. a \in Int /\ m = (IF a < 0 THEN -a ELSE a)
  BY DEF Magnitude, Request
<1>5. CASE r.op = "subscribe"
  <2>1. row.type = "SUBSCRIPTION_STARTED" /\ Moves(r) = a /\ m = a
    BY <1>4, <1>5 DEF EventType, Moves
  <2>2. By("SUBSCRIPTION_STARTED") = (IF s = r.sub THEN a ELSE 0) /\ By("UPGRADE") = 0 /\ By("DOWNGRADE") = 0
    BY <2>1
  <2> HIDE DEF Started, Up, Down, more, a, m, By
  <2> QED
    BY <1>1, <1>2, <1>3, <1>4, <2>1, <2>2 DEF more
<1>6. CASE r.op = "change"
  <2>1. row.type = (IF a >= 0 THEN "UPGRADE" ELSE "DOWNGRADE") /\ Moves(r) = a
    BY <1>6 DEF EventType, Moves
  <2>2. /\ By("SUBSCRIPTION_STARTED") = 0
        /\ By("UPGRADE") = (IF s = r.sub /\ a >= 0 THEN a ELSE 0)
        /\ By("DOWNGRADE") = (IF s = r.sub /\ ~(a >= 0) THEN -a ELSE 0)
    BY <1>4, <2>1
  <2> HIDE DEF Started, Up, Down, more, a, m, By
  <2> QED
    BY <1>1, <1>2, <1>3, <1>4, <2>1, <2>2 DEF more
<1>7. CASE r.op \in {"renew", "cancel"}
  <2>1. row.type \in {"SUBSCRIPTION_RENEWED", "REFUND"} /\ Moves(r) = 0
    BY <1>7 DEF EventType, Moves
  <2>2. By("SUBSCRIPTION_STARTED") = 0 /\ By("UPGRADE") = 0 /\ By("DOWNGRADE") = 0
    BY <2>1
  <2> HIDE DEF Started, Up, Down, more, a, m, By
  <2> QED
    BY <1>1, <1>2, <1>3, <2>1, <2>2 DEF more
<1> QED
  BY <1>5, <1>6, <1>7

(***************************************************************************)
(* The invariant.                                                          *)
(***************************************************************************)

PlanPrice(row) == Price[row.tier][row.interval]

Owing(r, s) ==
    r.op \in {"subscribe", "change"} /\ r.pc \notin {"idle", "create", "update"} /\ r.sub = s

Settles(r) ==
    /\ r.pc # "idle" /\ r.op = "subscribe" => r.amount >= 0
    /\ r.pc = "create" => r.op = "subscribe" /\ r.amount = Price[r.tier][r.interval]
    /\ r.pc = "update" /\ r.op = "change" =>
           r.amount = Price[r.tier][r.interval] - PlanPrice(subs[r.sub])
    /\ Owing(r, r.sub) => Balance(revenue, r.sub) + r.amount = PlanPrice(subs[r.sub])

LedgerInv ==
    /\ \A h \in Handlers : Settles(req[h])
    /\ \A s \in DOMAIN subs : \/ \E h \in Handlers : Owing(req[h], s)
                              \/ Balance(revenue, s) = PlanPrice(subs[s])

LEMMA InitLedger == Init => LedgerInv
  BY DEF Init, EmptyTables, LedgerInv, Settles, Owing, Idle

LEMMA PlanPriceIsNat ==
  ASSUME TypeInv
  PROVE  \A s \in DOMAIN subs : /\ PlanPrice(subs[s]) \in Int
                                /\ subs[s].tier \in Tiers /\ subs[s].interval \in Intervals
<1>1. \A s \in DOMAIN subs : subs[s] \in Subscription
  BY DEF TypeInv, TypeOK, TablesOK
<1>2. \A s \in DOMAIN subs : subs[s].tier \in Tiers /\ subs[s].interval \in Intervals
  BY <1>1 DEF Subscription
<1> QED
  BY <1>2, PriceIsNat DEF PlanPrice

(* The request of another organization works on another subscription.      *)
LEMMA SubElsewhere ==
  ASSUME TypeInv, BackInv, Serialized, NEW h \in Handlers, NEW g \in Handlers \ {h},
         req[g].pc \notin {"idle", "create"}
  PROVE  /\ req[g].sub \in DOMAIN subs
         /\ req[h].pc \notin {"idle", "create"} => req[g].sub # req[h].sub
<1>1. req[g].sub \in DOMAIN subs
  BY DEF TypeInv, Located
<1>2. subs[req[g].sub].org = req[g].org
  BY DEF BackInv, Backs
<1>3. req[h].pc \notin {"idle", "create"} => /\ subs[req[h].sub].org = req[h].org
                                             /\ req[g].org # req[h].org
  BY OthersElsewhere DEF BackInv, Backs
<1> QED
  BY <1>1, <1>2, <1>3

(* What a step of h owes, when it works on the subscription t.             *)
LEMMA LedgerKept ==
  ASSUME LedgerInv, NEW h \in Handlers, NEW t, Frame(h),
         \A g \in Handlers \ {h} :
             req[g].pc \notin {"idle", "create"} => req[g].sub \in DOMAIN subs \ {t},
         \A s \in DOMAIN subs \ {t} : /\ PlanPrice(subs'[s]) = PlanPrice(subs[s])
                                      /\ Balance(revenue', s) = Balance(revenue, s),
         Settles(req[h])',
         \A s \in DOMAIN subs' : \/ s \in DOMAIN subs \ {t} /\ ~Owing(req[h], s)
                                 \/ Owing(req'[h], s)
                                 \/ Balance(revenue', s) = PlanPrice(subs'[s])
  PROVE  LedgerInv'
<1>1. ASSUME NEW g \in Handlers PROVE Settles(req[g])'
  <2>1. CASE g = h
    BY <2>1
  <2>2. CASE g # h
    <3> PICK q : q = req[g]
      OBVIOUS
    <3>1. req'[g] = q /\ Settles(q)
      BY <2>2 DEF Frame, LedgerInv
    <3>2. q.pc \notin {"idle", "create"} =>
             /\ PlanPrice(subs'[q.sub]) = PlanPrice(subs[q.sub])
             /\ Balance(revenue', q.sub) = Balance(revenue, q.sub)
      BY <2>2
    <3>3. Settles(q)'
      BY <3>1, <3>2 DEF Settles, Owing
    <3>4. req[g]' = q
      BY <3>1
    <3> QED
      BY <3>3, <3>4 DEF Settles, Owing
  <2> QED
    BY <2>1, <2>2
<1>2. ASSUME NEW s \in DOMAIN subs'
      PROVE  \/ \E g \in Handlers : Owing(req'[g], s)
             \/ Balance(revenue', s) = PlanPrice(subs'[s])
  <2>1. CASE s \in DOMAIN subs \ {t} /\ ~Owing(req[h], s)
    <3>1. \A g \in Handlers : Owing(req[g], s) => req'[g] = req[g]
      BY <2>1 DEF Frame
    <3>2. \/ \E g \in Handlers : Owing(req[g], s)
          \/ Balance(revenue, s) = PlanPrice(subs[s])
      BY <2>1 DEF LedgerInv
    <3> QED
      BY <2>1, <3>1, <3>2
  <2> QED
    BY <2>1
<1> QED
  BY <1>1, <1>2 DEF LedgerInv
LEMMA StartSettles ==
  ASSUME TypeInv, NEW h \in Handlers, Start(h)
  PROVE  Settles(req[h])'
<1>1. /\ UNCHANGED <<subs, revenue>> /\ req[h].pc = "idle"
      /\ \/ req'[h].pc = "create" /\ req'[h].op = "subscribe"
         \/ req'[h].pc = "update" /\ req'[h].op \in {"renew", "change", "cancel"}
  BY StartDoes
<1>2. /\ req'[h].pc = "create" => /\ req'[h].amount = Price[req'[h].tier][req'[h].interval]
                                  /\ req'[h].amount >= 0
      /\ req'[h].op = "change" =>
             req'[h].amount = Price[req'[h].tier][req'[h].interval] - PlanPrice(subs[req'[h].sub])
  <2>1. PICK o \in Orgs :
           \/ Renew(h, o)
           \/ Cancel(h, o)
           \/ \E t \in Tiers, i \in Intervals : Subscribe(h, o, t, i) \/ ChangePlan(h, o, t, i)
    BY DEF Start
  <2>2. CASE Renew(h, o) \/ Cancel(h, o)
    BY <2>2 DEF Renew, Cancel, Idle, TypeInv, TypeOK
  <2>3. ASSUME NEW t \in Tiers, NEW i \in Intervals, Subscribe(h, o, t, i)
        PROVE  <1>2!1 /\ req'[h].op # "change"
    <3>1. Price[t][i] \in Nat
      BY PriceIsNat
    <3>2. /\ req'[h].op = "subscribe" /\ req'[h].amount = Price[t][i]
          /\ req'[h].tier = t /\ req'[h].interval = i
      BY <2>3 DEF Subscribe, Idle, TypeInv, TypeOK
    <3> QED
      BY <3>1, <3>2
  <2>4. ASSUME NEW t \in Tiers, NEW i \in Intervals, ChangePlan(h, o, t, i)
        PROVE  req'[h].pc # "create" /\ <1>2!2
    <3>1. /\ req'[h].pc = "update" /\ req'[h].sub = Newest(o)
          /\ req'[h].amount = PriceDifference(Newest(o), t, i)
          /\ req'[h].tier = t /\ req'[h].interval = i
      BY <2>4 DEF ChangePlan, Idle, TypeInv, TypeOK
    <3> QED
      BY <3>1 DEF PriceDifference, PlanPrice
  <2> QED
    BY <2>1, <2>2, <2>3, <2>4
<1> QED
  BY <1>1, <1>2 DEF Settles, Owing

LEMMA CreateSettles ==
  ASSUME TypeInv, BackInv, LedgerInv, NEW h \in Handlers, CreateSubscription(h)
  PROVE  Settles(req[h])' /\ Owing(req'[h], req'[h].sub)
<1>1. /\ UNCHANGED revenue /\ req[h].pc = "create" /\ req'[h].pc = "number"
      /\ req'[h].op = req[h].op /\ req'[h].sub \notin DOMAIN subs
      /\ DOMAIN subs' = DOMAIN subs \cup {req'[h].sub}
  BY CreateDoes
<1>2. req[h].op = "subscribe" /\ req[h].amount >= 0 /\ req[h].amount = Price[req[h].tier][req[h].interval]
  BY <1>1 DEF LedgerInv, Settles
<1>3. /\ req'[h].sub = Len(subs) + 1 /\ req'[h].amount = req[h].amount
      /\ subs'[Len(subs) + 1].tier = req[h].tier /\ subs'[Len(subs) + 1].interval = req[h].interval
  <2>1. req'[h].sub = Len(subs) + 1 /\ req'[h].amount = req[h].amount
    BY DEF CreateSubscription, TypeInv, TypeOK, Request
  <2>2. PICK row : /\ row.tier = req[h].tier /\ row.interval = req[h].interval
                   /\ subs' = Append(subs, row)
    BY DEF CreateSubscription
  <2>3. subs'[Len(subs) + 1] = row
    BY <2>2 DEF TypeInv, TypeOK, TablesOK
  <2> QED
    BY <2>1, <2>2, <2>3
<1>4. \A e \in DOMAIN revenue : revenue[e].sub # req'[h].sub
  BY <1>1 DEF BackInv, RevenueBacked
<1>5. Balance(revenue, req'[h].sub) = 0
  BY <1>4, NoEventNoBalance DEF TypeInv, TypeOK
<1>6. req[h].amount \in Int
  BY DEF TypeInv, TypeOK, Request
<1>7. Balance(revenue', req'[h].sub) + req'[h].amount = PlanPrice(subs'[req'[h].sub])
  BY <1>1, <1>2, <1>3, <1>5, <1>6 DEF PlanPrice
<1> QED
  BY <1>1, <1>2, <1>3, <1>7 DEF Settles, Owing

LEMMA UpdateSettles ==
  ASSUME TypeInv, LedgerInv, NEW h \in Handlers,
         ExtendPeriod(h) \/ SwitchPlan(h) \/ EndSubscription(h),
         Balance(revenue, req[h].sub) = PlanPrice(subs[req[h].sub])
  PROVE  /\ Settles(req[h])' 
         /\ \/ Owing(req'[h], req[h].sub)
            \/ PlanPrice(subs'[req[h].sub]) = PlanPrice(subs[req[h].sub])
<1> DEFINE s == req[h].sub
<1>1. /\ UNCHANGED revenue /\ req[h].pc = "update" /\ s \in DOMAIN subs
      /\ req'[h].sub = s /\ req'[h].op = req[h].op
      /\ req'[h].pc \in {"number", "recognise"}
      /\ req[h].op \in {"renew", "change", "cancel"}
  BY UpdateDoes DEF SameRequest
<1>2. req'[h].amount = req[h].amount /\ req[h].amount \in Int
  BY DEF ExtendPeriod, SwitchPlan, EndSubscription, TypeInv, TypeOK, Request
<1>3. /\ PlanPrice(subs[s]) \in Int
      /\ subs \in Seq(Subscription) /\ subs[s] \in Subscription
  BY <1>1, PlanPriceIsNat DEF TypeInv, TypeOK, TablesOK
<1>4. CASE ExtendPeriod(h) \/ EndSubscription(h)
  <2>1. req[h].op # "change"
    BY <1>4 DEF ExtendPeriod, EndSubscription
  <2>2. subs'[s].tier = subs[s].tier /\ subs'[s].interval = subs[s].interval
    BY <1>1, <1>3, <1>4 DEF ExtendPeriod, EndSubscription, Subscription
  <2> QED
    BY <1>1, <2>1, <2>2 DEF Settles, Owing, PlanPrice
<1>5. CASE SwitchPlan(h)
  <2>1. req[h].op = "change"
    BY <1>5 DEF SwitchPlan
  <2>2. subs'[s].tier = req[h].tier /\ subs'[s].interval = req[h].interval
    BY <1>1, <1>3, <1>5 DEF SwitchPlan, Subscription
  <2>3. req[h].amount = Price[req[h].tier][req[h].interval] - PlanPrice(subs[s])
    BY <1>1, <2>1 DEF LedgerInv, Settles
  <2>4. Price[req[h].tier][req[h].interval] \in Int
    BY <1>1, <2>1, PriceIsNat DEF TypeInv, Located
  <2>5. Balance(revenue, s) + req[h].amount = PlanPrice(subs'[s])
    <3>1. PlanPrice(subs'[s]) = Price[req[h].tier][req[h].interval]
      BY <2>2 DEF PlanPrice
    <3> DEFINE a == req[h].amount
               old == PlanPrice(subs[s])
               new == Price[req[h].tier][req[h].interval]
    <3>2. a = new - old /\ old \in Int /\ new \in Int /\ Balance(revenue, s) = old
      BY <1>3, <2>3, <2>4
    <3> HIDE DEF a, old, new
    <3>3. Balance(revenue, s) + a = new
      BY <3>2
    <3> QED
      BY <3>1, <3>3 DEF a, new
  <2> QED
    BY <1>1, <1>2, <2>1, <2>5 DEF Settles, Owing
<1> QED
  BY <1>4, <1>5

LEMMA RecogniseSettles ==
  ASSUME TypeInv, TypeInv', LedgerInv, NEW h \in Handlers, Recognise(h)
  PROVE  \A s : Balance(revenue', s) = Balance(revenue, s) + (IF s = req[h].sub THEN Moves(req[h]) ELSE 0)
<1> PICK r : r = req[h]
  OBVIOUS
<1>1. /\ r \in Request /\ r.pc = "recognise" /\ revenue \in Seq(RevenueEvent)
      /\ r.op \in {"subscribe", "renew", "change", "cancel"}
  BY DEF TypeInv, TypeOK, Located, Recognise, Request, Op
<1>2. r.op = "subscribe" => r.amount >= 0
  BY <1>1 DEF LedgerInv, Settles
<1>3. PICK row : /\ row = [sub |-> r.sub, invoice |-> r.invoice,
                           type |-> EventType(r), amount |-> Magnitude(r.amount)]
                 /\ revenue' = Append(revenue, row)
  BY DEF Recognise
<1>4. row.sub = r.sub /\ row.type = EventType(r) /\ row.amount = Magnitude(r.amount)
  BY <1>3
<1>5. row \in RevenueEvent
  <2>1. revenue' \in Seq(RevenueEvent)
    BY DEF TypeInv, TypeOK
  <2>2. Len(revenue) + 1 \in DOMAIN revenue' /\ revenue'[Len(revenue) + 1] = row
    BY <1>1, <1>3
  <2> QED
    BY <2>1, <2>2
<1> QED
  BY <1>1, <1>2, <1>3, <1>4, <1>5, RecognisedBalance
LEMMA StepLedger ==
  ~CallsFail /\ TypeInv /\ TypeInv' /\ NumberingInv /\ BackInv /\ WholeInv /\ Serialized /\ LedgerInv
      /\ [Next]_vars => LedgerInv'
<1> SUFFICES ASSUME ~CallsFail, TypeInv, TypeInv', NumberingInv, BackInv, WholeInv, Serialized,
                    LedgerInv, [Next]_vars
             PROVE  LedgerInv'
  OBVIOUS
<1>1. CASE MonthPasses \/ UNCHANGED vars
  <2>1. UNCHANGED <<subs, revenue, req>>
    BY <1>1 DEF MonthPasses, vars
  <2> QED
    BY <2>1 DEF LedgerInv, Settles, Owing
<1>2. ASSUME NEW h \in Handlers, Start(h) PROVE LedgerInv'
  <2>1. /\ UNCHANGED <<subs, revenue>> /\ Frame(h) /\ req[h].pc = "idle"
    BY <1>2, StartDoes
  <2>2. 0 \notin DOMAIN subs
    BY DEF TypeInv, TypeOK, TablesOK
  <2>3. /\ \A g \in Handlers \ {h} :
              req[g].pc \notin {"idle", "create"} => req[g].sub \in DOMAIN subs \ {0}
        /\ \A s : ~Owing(req[h], s)
    BY <2>1, <2>2, SubElsewhere DEF Owing
  <2>4. Settles(req[h])'
    BY <1>2, StartSettles
  <2>5. \A s \in DOMAIN subs \ {0} : /\ PlanPrice(subs'[s]) = PlanPrice(subs[s])
                                     /\ Balance(revenue', s) = Balance(revenue, s)
    BY <2>1
  <2>6. \A s \in DOMAIN subs' : s \in DOMAIN subs \ {0} /\ ~Owing(req[h], s)
    BY <2>1, <2>2, <2>3
  <2> QED
    BY <2>1, <2>3, <2>4, <2>5, <2>6, LedgerKept
<1>3. ASSUME NEW h \in Handlers, CreateSubscription(h) PROVE LedgerInv'
  <2> PICK t : t = req'[h].sub
    OBVIOUS
  <2>1. /\ UNCHANGED revenue /\ Frame(h) /\ req[h].pc = "create"
        /\ DOMAIN subs' = DOMAIN subs \cup {t} /\ t \notin DOMAIN subs
        /\ \A s \in DOMAIN subs : subs'[s] = subs[s]
    BY <1>3, CreateDoes
  <2>2. Settles(req[h])' /\ Owing(req'[h], t)
    BY <1>3, CreateSettles
  <2>3. /\ \A g \in Handlers \ {h} :
              req[g].pc \notin {"idle", "create"} => req[g].sub \in DOMAIN subs \ {t}
        /\ \A s : ~Owing(req[h], s)
    BY <2>1, SubElsewhere DEF Owing
  <2>4. \A s \in DOMAIN subs \ {t} : /\ PlanPrice(subs'[s]) = PlanPrice(subs[s])
                                     /\ Balance(revenue', s) = Balance(revenue, s)
    BY <2>1
  <2> QED
    BY <2>1, <2>2, <2>3, <2>4, LedgerKept
<1>4. ASSUME NEW h \in Handlers, ExtendPeriod(h) \/ SwitchPlan(h) \/ EndSubscription(h)
      PROVE  LedgerInv'
  <2> PICK t : t = req[h].sub
    OBVIOUS
  <2>1. /\ UNCHANGED revenue /\ Frame(h) /\ req[h].pc = "update"
        /\ DOMAIN subs' = DOMAIN subs /\ t \in DOMAIN subs
        /\ \A s \in DOMAIN subs \ {t} : subs'[s] = subs[s]
    BY <1>4, UpdateDoes
  <2>2. /\ \A g \in Handlers \ {h} :
              req[g].pc \notin {"idle", "create"} => req[g].sub \in DOMAIN subs \ {t}
        /\ \A s : ~Owing(req[h], s)
    BY <2>1, SubElsewhere DEF Owing
  <2>3. Balance(revenue, t) = PlanPrice(subs[t])
    <3>1. \A g \in Handlers : ~Owing(req[g], t)
      BY <2>2 DEF Owing
    <3> QED
      BY <2>1, <3>1 DEF LedgerInv
  <2>4. Settles(req[h])' /\ (Owing(req'[h], t) \/ PlanPrice(subs'[t]) = PlanPrice(subs[t]))
    BY <1>4, <2>3, UpdateSettles
  <2>5. \A s \in DOMAIN subs \ {t} : /\ PlanPrice(subs'[s]) = PlanPrice(subs[s])
                                     /\ Balance(revenue', s) = Balance(revenue, s)
    BY <2>1
  <2>6. Balance(revenue', t) = Balance(revenue, t)
    BY <2>1
  <2> QED
    BY <2>1, <2>2, <2>3, <2>4, <2>5, <2>6, LedgerKept
<1>5. ASSUME NEW h \in Handlers,
             NumberInvoice(h) \/ InsertInvoice(h) \/ CreatePayment(h) \/ Checkout(h)
      PROVE  LedgerInv'
  <2>1. /\ UNCHANGED <<subs, revenue>> /\ Frame(h) /\ SameRequest(h)
        /\ req[h].pc \notin {"idle", "create", "update"}
        /\ req'[h].pc \notin {"idle", "create", "update"}
    BY <1>5, NumberDoes, InsertDoes, PayDoes, CheckoutDoes
  <2>2. req'[h].amount = req[h].amount
    BY <1>5 DEF NumberInvoice, InsertInvoice, CreatePayment, Checkout, TypeInv, TypeOK, Request
  <2>3. 0 \notin DOMAIN subs
    BY DEF TypeInv, TypeOK, TablesOK
  <2>4. \A g \in Handlers \ {h} :
            req[g].pc \notin {"idle", "create"} => req[g].sub \in DOMAIN subs \ {0}
    BY <2>3, SubElsewhere
  <2>5. \A s : Owing(req[h], s) <=> Owing(req'[h], s)
    BY <2>1 DEF Owing, SameRequest
  <2>6. Settles(req[h])'
    <3>1. Settles(req[h])
      BY DEF LedgerInv
    <3> QED
      BY <2>1, <2>2, <3>1 DEF Settles, Owing, SameRequest
  <2>7. \A s \in DOMAIN subs \ {0} : /\ PlanPrice(subs'[s]) = PlanPrice(subs[s])
                                     /\ Balance(revenue', s) = Balance(revenue, s)
    BY <2>1
  <2>8. \A s \in DOMAIN subs' : (s \in DOMAIN subs \ {0} /\ ~Owing(req[h], s)) \/ Owing(req'[h], s)
    BY <2>1, <2>3, <2>5
  <2> QED
    BY <2>1, <2>4, <2>6, <2>7, <2>8, LedgerKept
<1>6. ASSUME NEW h \in Handlers, Recognise(h) PROVE LedgerInv'
  <2> PICK t : t = req[h].sub
    OBVIOUS
  <2>1. /\ UNCHANGED subs /\ Frame(h) /\ req[h].pc = "recognise" /\ req'[h] = Idle
    BY <1>6, RecogniseDoes
  <2>2. \A g \in Handlers \ {h} :
            req[g].pc \notin {"idle", "create"} => req[g].sub \in DOMAIN subs \ {t}
    BY <2>1, SubElsewhere
  <2>3. /\ \A s \in DOMAIN subs \ {t} : Balance(revenue', s) = Balance(revenue, s)
        /\ Balance(revenue', t) = Balance(revenue, t) + Moves(req[h])
    <3>1. \A s : Balance(revenue, s) \in Int
      BY BalanceType DEF TypeInv, TypeOK
    <3>2. \A s : Balance(revenue', s) = Balance(revenue, s) + (IF s = req[h].sub THEN Moves(req[h]) ELSE 0)
      BY <1>6, RecogniseSettles
    <3>3. \A s : s # t => Balance(revenue', s) = Balance(revenue, s)
      <4> SUFFICES ASSUME NEW s, s # t PROVE Balance(revenue', s) = Balance(revenue, s)
        OBVIOUS
      <4>1. Balance(revenue', s) = Balance(revenue, s) + 0
        BY <3>2
      <4> QED
        BY <3>1, <4>1
    <3> QED
      BY <3>2, <3>3
  <2>4. Settles(req[h])'
    BY <2>1 DEF Settles, Owing, Idle
  <2>5. Balance(revenue', t) = PlanPrice(subs'[t])
    <3>1. t \in DOMAIN subs /\ Balance(revenue, t) \in Int
      BY <2>1, BalanceType DEF TypeInv, TypeOK, Located
    <3>2. CASE req[h].op \in {"subscribe", "change"}
      <4>1. Owing(req[h], t)
        BY <2>1, <3>2 DEF Owing
      <4>2. Balance(revenue, t) + req[h].amount = PlanPrice(subs[t])
        BY <4>1 DEF LedgerInv, Settles
      <4> QED
        BY <2>1, <2>3, <3>2, <4>2 DEF Moves
    <3>3. CASE req[h].op \notin {"subscribe", "change"}
      <4>1. \A g \in Handlers : ~Owing(req[g], t)
        BY <2>2, <3>3 DEF Owing
      <4>2. Balance(revenue, t) = PlanPrice(subs[t])
        BY <3>1, <4>1 DEF LedgerInv
      <4>3. Moves(req[h]) = 0
        BY <3>3 DEF Moves
      <4> QED
        BY <2>1, <2>3, <3>1, <4>2, <4>3
    <3> QED
      BY <3>2, <3>3
  <2>6. \A s \in DOMAIN subs' : \/ s \in DOMAIN subs \ {t} /\ ~Owing(req[h], s)
                                \/ Balance(revenue', s) = PlanPrice(subs'[s])
    BY <2>1, <2>5 DEF Owing
  <2> QED
    BY <2>1, <2>2, <2>3, <2>4, <2>6, LedgerKept
<1> QED
  BY <1>1, <1>2, <1>3, <1>4, <1>5, <1>6, NumberIsFree DEF Next, Continue, CallFails

(* While no call fails, the revenue events of a subscription add up to the *)
(* price of its plan, if the requests of an organization do not overlap:   *)
(* SUBSCRIPTION_STARTED, plus UPGRADE, minus DOWNGRADE, whatever was       *)
(* renewed, changed and canceled in between                                *)
(* (subscription.service.ts:41-239, createRevenueEvent).                   *)
THEOREM LedgerAddsUpIfSerialized ==
  ASSUME ~CallsFail
  PROVE  Spec /\ []Serialized => []LedgerAddsUp
<1>1. TypeInv /\ LedgerInv => LedgerAddsUp
  <2> SUFFICES ASSUME TypeInv, LedgerInv, Busy = {}, NEW s \in DOMAIN subs
               PROVE  SumOf(s, "SUBSCRIPTION_STARTED") + SumOf(s, "UPGRADE") - SumOf(s, "DOWNGRADE")
                          = Price[subs[s].tier][subs[s].interval]
    BY DEF LedgerAddsUp
  <2>1. \A h \in Handlers : ~Owing(req[h], s)
    BY DEF Busy, Owing
  <2>2. Balance(revenue, s) = PlanPrice(subs[s])
    BY <2>1 DEF LedgerInv
  <2>3. revenue \in Seq(RevenueEvent)
    BY DEF TypeInv, TypeOK
  <2>4. \A type : SumOf(s, type) = SumIn(revenue, s, type)
    BY <2>3, SumOfIsTotal
  <2> QED
    BY <2>2, <2>4 DEF Balance, PlanPrice
<1>2. TypeInv /\ TypeInv' /\ NumberingInv /\ BackInv /\ WholeInv /\ Serialized /\ LedgerInv
          /\ [Next]_vars => LedgerInv'
  BY StepLedger
<1>3. TypeInv /\ NumberingInv /\ BackInv /\ Serialized /\ WholeInv /\ [Next]_vars => WholeInv'
  BY StepWhole
<1> QED
  BY <1>1, <1>2, <1>3, InitTyped, StepTyped, InitNumbering, StepNumbered, InitBacked, StepBacked,
     InitWhole, InitLedger, PTL DEF Spec

(* One request at a time is a special case: what the sequential runs of    *)
(* TLC check is an instance of the theorems above.                         *)
LEMMA OneAtATimeIsSerialized ==
  ASSUME \A g, h \in Handlers : g = h
  PROVE  Spec => []Serialized
<1>1. Serialized
  BY DEF Serialized, Busy
<1> QED
  BY <1>1, PTL
(***************************************************************************)
(* What requests leave to the others that work on the tables: a checkout   *)
(* is opened once, for a payment whose charge the provider has not heard   *)
(* of, and no step rewrites a row but the subscription it read.            *)
(***************************************************************************)

Checks(r) ==
    r.pc = "checkout" =>
        /\ r.payment \in DOMAIN payments
        /\ payments[r.payment].invoice = r.invoice
        /\ charge[r.payment] = "none"

ChecksInv == \A h \in Handlers : Checks(req[h])

LEMMA InitChecks == Init => ChecksInv
  BY DEF Init, Idle, ChecksInv, Checks

(* What one step writes. *)
TablesWritten ==
    /\ DOMAIN subs \subseteq DOMAIN subs' /\ DOMAIN invoices \subseteq DOMAIN invoices'
    /\ DOMAIN payments \subseteq DOMAIN payments'
    /\ \A s \in DOMAIN subs' : \/ s \in DOMAIN subs /\ subs'[s] = subs[s]
                               \/ subs'[s].status \in {"ACTIVE", "CANCELED"}
    /\ \A k \in DOMAIN invoices' : \/ k \in DOMAIN invoices /\ invoices'[k] = invoices[k]
                                   \/ k \notin DOMAIN invoices /\ invoices'[k].status = "ISSUED"
    /\ \A p \in DOMAIN payments' : \/ p \in DOMAIN payments /\ payments'[p] = payments[p]
                                   \/ p \notin DOMAIN payments /\ payments'[p].status = "PENDING"
    /\ \A p \in DOMAIN payments : charge'[p] = charge[p] \/ charge[p] = "none"

LEMMA TypedPayments ==
  ASSUME TypeInv
  PROVE  /\ subs \in Seq(Subscription) /\ invoices \in Seq(Invoice)
         /\ payments \in Seq(Payment) /\ charge \in Seq(ChargeStatus)
         /\ Len(charge) = Len(payments) /\ req \in [Handlers -> Request]
         /\ DOMAIN charge = DOMAIN payments
  BY DEF TypeInv, TypeOK, TablesOK

LEMMA PayWrites ==
  ASSUME TypeInv, NEW h \in Handlers, CreatePayment(h)
  PROVE  /\ TablesWritten
         /\ \A p \in DOMAIN payments : payments'[p] = payments[p] /\ charge'[p] = charge[p]
         /\ Checks(req[h])'
<1>1. /\ subs' = subs /\ invoices' = invoices /\ req'[h].pc = "checkout"
      /\ req'[h].payment = Len(payments) + 1 /\ req'[h].invoice = req[h].invoice
  BY TypedPayments DEF CreatePayment, Request
<1>2. PICK row : /\ row.status = "PENDING" /\ row.invoice = req[h].invoice
                 /\ payments' = Append(payments, row) /\ charge' = Append(charge, "none")
  BY DEF CreatePayment, NewPayment
<1>3. /\ DOMAIN payments' = DOMAIN payments \cup {Len(payments) + 1}
      /\ Len(payments) + 1 \notin DOMAIN payments
      /\ \A p \in DOMAIN payments : payments'[p] = payments[p] /\ charge'[p] = charge[p]
      /\ payments'[Len(payments) + 1] = row /\ charge'[Len(payments) + 1] = "none"
  BY <1>2, TypedPayments
<1> QED
  BY <1>1, <1>2, <1>3 DEF TablesWritten, Checks

LEMMA CheckoutWrites ==
  ASSUME TypeInv, ChecksInv, NEW h \in Handlers, Checkout(h)
  PROVE  /\ TablesWritten
         /\ UNCHANGED payments
         /\ \A p \in DOMAIN payments : p # req[h].payment => charge'[p] = charge[p]
<1>1. /\ UNCHANGED <<subs, invoices, payments>> /\ req[h].pc = "checkout"
      /\ charge' = [charge EXCEPT ![req[h].payment] = "open"]
  BY DEF Checkout
<1>2. \A p \in DOMAIN payments : p # req[h].payment => charge'[p] = charge[p]
  BY <1>1, TypedPayments
<1>3. charge[req[h].payment] = "none"
  BY <1>1 DEF ChecksInv, Checks
<1> QED
  BY <1>1, <1>2, <1>3 DEF TablesWritten

LEMMA StepWrites ==
  ASSUME TypeInv, ChecksInv, [Next]_vars
  PROVE  TablesWritten
<1>1. CASE MonthPasses \/ UNCHANGED vars
  BY <1>1 DEF MonthPasses, vars, TablesWritten
<1>2. ASSUME NEW h \in Handlers, CreateSubscription(h) PROVE TablesWritten
  BY <1>2, CreateDoes DEF TablesWritten
<1>3. ASSUME NEW h \in Handlers, ExtendPeriod(h) \/ SwitchPlan(h) \/ EndSubscription(h)
      PROVE  TablesWritten
  BY <1>3, UpdateDoes DEF TablesWritten
<1>4. ASSUME NEW h \in Handlers, InsertInvoice(h) PROVE TablesWritten
  <2>1. PICK row : /\ row.status = "ISSUED" /\ invoices' = Append(invoices, row)
                   /\ UNCHANGED <<subs, payments, charge>>
    BY <1>4 DEF InsertInvoice
  <2>2. /\ DOMAIN invoices' = DOMAIN invoices \cup {Len(invoices) + 1}
        /\ Len(invoices) + 1 \notin DOMAIN invoices
        /\ \A k \in DOMAIN invoices : invoices'[k] = invoices[k]
        /\ invoices'[Len(invoices) + 1] = row
    BY <2>1, TypedPayments
  <2> QED
    BY <2>1, <2>2 DEF TablesWritten
<1>5. ASSUME NEW h \in Handlers,
             \/ Start(h) \/ NumberInvoice(h) \/ RejectInvoice(h) \/ Recognise(h) \/ CallFails(h)
      PROVE  TablesWritten
  <2>1. UNCHANGED <<subs, invoices, payments, charge>>
    BY <1>5, StartDoes, NumberDoes, RecogniseDoes, EndDoes
  <2> QED
    BY <2>1 DEF TablesWritten
<1> QED
  BY <1>1, <1>2, <1>3, <1>4, <1>5, PayWrites, CheckoutWrites DEF Next, Continue

LEMMA StepChecks == TypeInv /\ BackInv /\ ChecksInv /\ [Next]_vars => ChecksInv'
<1> SUFFICES ASSUME TypeInv, BackInv, ChecksInv, [Next]_vars PROVE ChecksInv'
  OBVIOUS
<1>1. CASE MonthPasses \/ UNCHANGED vars
  <2>1. UNCHANGED <<payments, charge, req>>
    BY <1>1 DEF MonthPasses, vars
  <2> QED
    BY <2>1 DEF ChecksInv, Checks
<1>2. ASSUME NEW h \in Handlers, Frame(h), Checks(req[h])',
             \A p \in DOMAIN payments : /\ p \in DOMAIN payments' /\ payments'[p] = payments[p]
                                        /\ \/ charge'[p] = charge[p]
                                           \/ req[h].pc = "checkout" /\ p = req[h].payment
      PROVE  ChecksInv'
  <2> SUFFICES ASSUME NEW g \in Handlers \ {h}, req[g].pc = "checkout" PROVE Checks(req[g])'
    BY <1>2 DEF ChecksInv, Checks, Frame
  <2>1. req'[g] = req[g] /\ Checks(req[g])
    BY <1>2 DEF Frame, ChecksInv
  <2>2. req[h].pc = "checkout" => req[g].payment # req[h].payment
    <3> SUFFICES ASSUME req[h].pc = "checkout" PROVE req[g].payment # req[h].payment
      OBVIOUS
    <3>1. req[g].invoice # 0 /\ req[g].invoice # req[h].invoice
      BY DEF BackInv, Backs
    <3>2. Checks(req[h])
      BY DEF ChecksInv
    <3> QED
      BY <2>1, <3>1, <3>2 DEF Checks
  <2> QED
    BY <1>2, <2>1, <2>2 DEF Checks
<1>3. ASSUME NEW h \in Handlers,
             \/ Start(h) \/ CreateSubscription(h) \/ ExtendPeriod(h) \/ SwitchPlan(h)
             \/ EndSubscription(h) \/ NumberInvoice(h) \/ InsertInvoice(h) \/ RejectInvoice(h)
             \/ Recognise(h) \/ CallFails(h)
      PROVE  ChecksInv'
  <2>1. /\ Frame(h) /\ UNCHANGED <<payments, charge>> /\ req'[h].pc # "checkout"
    <3>1. CASE Start(h) \/ CreateSubscription(h) \/ NumberInvoice(h) \/ InsertInvoice(h)
      BY <3>1, StartDoes, CreateDoes, NumberDoes, InsertDoes
    <3>2. CASE ExtendPeriod(h) \/ SwitchPlan(h) \/ EndSubscription(h)
      BY <3>2, UpdateDoes
    <3>3. CASE RejectInvoice(h) \/ Recognise(h) \/ CallFails(h)
      BY <3>3, RecogniseDoes, EndDoes DEF Idle
    <3> QED
      BY <1>3, <3>1, <3>2, <3>3
  <2> QED
    BY <1>2, <2>1 DEF Checks
<1>4. ASSUME NEW h \in Handlers, CreatePayment(h) PROVE ChecksInv'
  BY <1>2, <1>4, PayWrites, PayDoes
<1>5. ASSUME NEW h \in Handlers, Checkout(h) PROVE ChecksInv'
  <2>1. Checks(req[h])' /\ Frame(h) /\ req[h].pc = "checkout"
    BY <1>5, CheckoutDoes DEF Checks
  <2> QED
    BY <1>2, <1>5, <2>1, CheckoutWrites
<1> QED
  BY <1>1, <1>3, <1>4, <1>5 DEF Next, Continue
==============================================================================

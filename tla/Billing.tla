------------------------------- MODULE Billing -------------------------------
(***************************************************************************)
(* The billing module of the API as one process runs it: the handlers of   *)
(* SubscriptionLifecycle and the workers of PaymentReconciliation over the *)
(* same tables.  Each component's steps leave the other's own state alone. *)
(***************************************************************************)
EXTENDS BillingTables

CONSTANTS
    Handlers, Price, Months, CallsFail, MaxSubs, MaxInvoices, MaxEvents,
    MaxNow, MaxEnd,
    Workers, Events, References, Outcomes, OpenPayments, MaxFaults

ASSUME BillingAssumption ==
    /\ Price \in [Tiers -> [Intervals -> Nat]]
    /\ Months \in [Intervals -> Nat \ {0}]
    /\ CallsFail \in BOOLEAN
    /\ None \notin Orgs \cup Tiers \cup Intervals
    /\ Orgs # {} /\ Tiers # {} /\ Intervals # {}
    /\ Events \subseteq [kind : {"payment.success", "payment.failed",
                                  "subscription.renewed", "subscription.canceled"},
                          ref : Nat]
    /\ References \subseteq Nat
    /\ Outcomes \subseteq {"success", "failed"}
    /\ OpenPayments \in Nat
    /\ MaxFaults \in Nat

VARIABLES revenue, req, hook, acked, work, faults

Lifecycle == INSTANCE SubscriptionLifecycle
Reconciliation == INSTANCE PaymentReconciliation

vars == <<tables, revenue, req, hook, acked, work, faults>>

Init == Lifecycle!Init /\ Reconciliation!InitWork

Next ==
    \/ Lifecycle!Next /\ UNCHANGED <<hook, acked, work, faults>>
    \/ Reconciliation!Next /\ UNCHANGED <<revenue, req>>

Spec == Init /\ [][Next]_vars

TypeOK == Lifecycle!TypeOK /\ Reconciliation!TypeOK

(* PAID and SUCCESS mean collected also for the rows that the handlers add *)
(* while the workers run: see PaymentReconciliation.                       *)
PaidOnlyIfCollected == Reconciliation!PaidOnlyIfCollected

(* A subscription goes past due only because the provider refused one of   *)
(* its payments: no interleaving of the two components' status updates     *)
(* puts the status of one subscription on another.                         *)
PastDueOnlyIfRefused ==
    \A s \in DOMAIN subs : subs[s].status = "PAST_DUE" =>
        \E p \in DOMAIN payments : payments[p].sub = s /\ charge[p] = "failed"
==============================================================================

------------------------------ MODULE MCBilling ------------------------------
(* Instances of Billing for TLC. *)
EXTENDS Billing, TLC

CONSTANTS o1, starter, growth, monthly

MCPrice == [t \in Tiers |-> [i \in Intervals |-> IF t = starter THEN 1 ELSE 3]]
MCMonths == [i \in Intervals |-> 1]

Event(kind, ref) == [kind |-> kind, ref |-> ref]

(* The old payment can succeed late; the new one can be refused, renewed   *)
(* and canceled.                                                           *)
MCEvents == {Event("payment.success", 1), Event("payment.failed", 2),
             Event("subscription.renewed", 1), Event("subscription.canceled", 2)}
==============================================================================

----------------------- MODULE MCSubscriptionLifecycle -----------------------
(***************************************************************************)
(* Instances of SubscriptionLifecycle for TLC.  The prices keep the order  *)
(* of BILLING_PLAN_PRICES (billing.constants.ts), where a year costs twelve*)
(* months.                                                                 *)
(***************************************************************************)
EXTENDS SubscriptionLifecycle, TLC

CONSTANTS starter, growth, monthly, yearly

MCPrice == [t \in Tiers |-> [i \in Intervals |->
               (IF t = starter THEN 1 ELSE 3) * (IF i = monthly THEN 1 ELSE 2)]]
MCMonths == [i \in Intervals |-> IF i = monthly THEN 1 ELSE 2]

Requests == Permutations(Handlers)
==============================================================================

----------------------- MODULE MCPaymentReconciliation -----------------------
(* Instances of PaymentReconciliation for TLC. *)
EXTENDS PaymentReconciliation, TLC

CONSTANTS o1, starter, monthly

(* The events about the one payment that change its rows. *)
MCEvents == [kind : Kinds \ {"subscription.renewed"}, ref : {1}]
==============================================================================

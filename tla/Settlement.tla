------------------------------ MODULE Settlement ------------------------------
(***************************************************************************)
(* What the billing promises about payments, whatever requests, webhooks,  *)
(* failures and restarts there are: the provider settles every charge once,*)
(* and the books follow it.  A payment is booked as its charge was settled *)
(* or as not settled yet; an invoice for which a charge was collected may  *)
(* be marked as paid, and stays so; a subscription changes its standing by *)
(* a charge of its own, or because the provider cancels it.                *)
(*                                                                         *)
(* A verification that asked before the charge was settled may still write *)
(* 'not settled' afterwards (payment.service.ts:97), so that only what the *)
(* provider and the invoices say is final.                                 *)
(***************************************************************************)
VARIABLES
    charge,     \* the provider's record of each payment
    bill,       \* the invoice and the subscription of each payment
    booked,     \* the status of each payment in the books
    received,   \* the invoices that are marked as paid
    standing    \* the status of each subscription

settlementVars == <<charge, bill, booked, received, standing>>

SettlementInit ==
    /\ \A p \in DOMAIN charge : charge[p] = "open" /\ booked[p] = "PENDING"
    /\ DOMAIN booked = DOMAIN charge /\ DOMAIN bill = DOMAIN charge
    /\ received = {}

(* The provider collects or refuses what it has not settled yet.           *)
SettleCharge(p) ==
    /\ charge[p] = "open"
    /\ \E outcome \in {"success", "failed"} : charge' = [charge EXCEPT ![p] = outcome]
    /\ UNCHANGED <<bill, booked, received, standing>>

Book(p) ==
    /\ \/ booked' = [booked EXCEPT ![p] = "PENDING"]
       \/ charge[p] = "success" /\ booked' = [booked EXCEPT ![p] = "SUCCESS"]
       \/ charge[p] = "failed" /\ booked' = [booked EXCEPT ![p] = "FAILED"]
    /\ UNCHANGED <<charge, bill, received, standing>>

MarkPaid(p) ==
    /\ charge[p] = "success"
    /\ received' = received \cup {bill[p].invoice}
    /\ UNCHANGED <<charge, bill, booked, standing>>

Restate(p) ==
    /\ \/ charge[p] = "success" /\ standing' = [standing EXCEPT ![bill[p].sub] = "ACTIVE"]
       \/ charge[p] = "failed" /\ standing' = [standing EXCEPT ![bill[p].sub] = "PAST_DUE"]
       \/ standing' = [standing EXCEPT ![bill[p].sub] = "CANCELED"]
    /\ UNCHANGED <<charge, bill, booked, received>>

SettlementNext ==
    \E p \in DOMAIN charge : SettleCharge(p) \/ Book(p) \/ MarkPaid(p) \/ Restate(p)

SettlementSpec == SettlementInit /\ [][SettlementNext]_settlementVars
===============================================================================

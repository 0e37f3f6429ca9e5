---------------------------- MODULE BillingAccess ----------------------------
(***************************************************************************)
(* BillingAccessService.assertFeatureAccess: what the plan of the current  *)
(* subscription of an organization gives access to.  "none" is no          *)
(* subscription that is ACTIVE, TRIAL or PAST_DUE.                         *)
(***************************************************************************)
EXTENDS Naturals

CONSTANT OrgTier        \* the plan of the organization

PlanTier == {"Starter", "Growth", "Enterprise"}
BillingFeature == {"analytics.basic", "analytics.full", "integrations.list",
                   "integrations.connect", "ai.full", "forecasting.advanced"}

STARTER_INTEGRATION_LIMIT == 2

ASSUME BillingAccessAssumption == OrgTier \in PlanTier \cup {"none"}

(* integrations is the count of the organization's integrations. *)
HasFeature(tier, feature, integrations) ==
    /\ tier \in PlanTier
    /\ feature \in {"analytics.full", "ai.full"} => tier # "Starter"
    /\ feature = "forecasting.advanced" => tier = "Enterprise"
    /\ feature = "integrations.connect" /\ tier = "Starter" =>
           integrations < STARTER_INTEGRATION_LIMIT
==============================================================================

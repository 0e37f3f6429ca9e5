------------------------------ MODULE Onboarding ------------------------------
(***************************************************************************)
(* OnboardingService: the checklist of a workspace, one JSON row that is   *)
(* read, changed in memory and written back whole, and the gate that it    *)
(* opens.  A request of any component may pass through here, so that the   *)
(* steps below are parts of the actions of Operations and Reports.  Each   *)
(* call of the service first asserts that there is a current subscription; *)
(* that it may refuse is one of the ways in which a request gives up.      *)
(*                                                                         *)
(* The operators named Bug... are faulty variants of definitions after     *)
(* them; no specification uses them.                                       *)
(***************************************************************************)
EXTENDS Naturals

CONSTANTS
    Steps,      \* the milestones of the checklist (OnboardingStep)
    Begun,      \* how far the onboarding of the workspace may have got
    None        \* no value: no row, nothing read yet

ADVANCED_GATING_STEPS == {"connect_integration", "setup_billing",
                          "invite_team", "create_first_order"}
OnboardingStep == ADVANCED_GATING_STEPS \cup
    {"resolve_first_message", "configure_alert_rule", "schedule_first_report"}

ASSUME OnboardingAssumption ==
    /\ Steps \subseteq OnboardingStep
    /\ {"create_first_order", "resolve_first_message"} \subseteq Steps
    /\ None \notin [Steps -> BOOLEAN]
    /\ Begun \subseteq [Steps -> BOOLEAN] \cup {None}

VARIABLE
    checklist   \* the onboarding_progress row, None before there is one

Checklist == [Steps -> BOOLEAN]
DEFAULT_CHECKLIST == [s \in Steps |-> FALSE]

OnboardingTypeOK == checklist \in Checklist \cup {None}

OnboardingInit == checklist \in Begun

(* gates.advancedWorkflowsEnabled of a checklist that was read. *)
GateOpen(list) == \A s \in Steps \cap ADVANCED_GATING_STEPS : list[s]

(* fetchOrCreateRecord: the SELECT finds the row, or the INSERT ... ON     *)
(* CONFLICT DO NOTHING makes one, which the second SELECT then finds.      *)
RowFound == checklist # None
InsertRow == checklist = None /\ checklist' = DEFAULT_CHECKLIST

BugSaveOnlyStep(seen, step, completed) ==
    checklist' = [DEFAULT_CHECKLIST EXCEPT ![step] = completed]

(* updateStep writes the whole checklist that it read, with its own step. *)
SaveStep(seen, step, completed) ==
    checklist' = [seen EXCEPT ![step] = completed]
===============================================================================

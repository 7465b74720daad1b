-------------------------- MODULE FeatureLifecycle --------------------------
(***************************************************************************)
(* What a feature request promises whoever watches it, with no database,   *)
(* queue or process in sight: its status moves along the transition table, *)
(* a build job is attached to it from the start of a build until the build *)
(* is settled, and it is product-approved only by a user.                  *)
(***************************************************************************)
EXTENDS StateMachine

CONSTANTS Users, None

VARIABLES
    status,     \* the feature's status
    active,     \* TRUE while a build job is attached
    approver    \* who approved the product, or None

lifecycleVars == <<status, active, approver>>

LifecycleInit ==
    /\ status \in {"NEEDS_INFO", "READY_FOR_BUILD"}
    /\ active = FALSE
    /\ approver = None

ValidateSpec(valid) ==
    /\ status' = StatusAfterValidation(status, valid)
    /\ UNCHANGED <<active, approver>>

StartBuild ==
    /\ CanPerform(status, "start_build")
    /\ status' = "BUILDING"
    /\ active' = TRUE
    /\ UNCHANGED approver

(* The worker detaches the job when it is done; an external runner that    *)
(* announces its PR leaves it attached until the preview is settled.       *)
OpenPr ==
    /\ CanPerform(status, "opened_pr")
    /\ status' = "PR_OPENED"
    /\ active' \in {active, FALSE}
    /\ UNCHANGED approver

(* The build is over one way or the other, from BUILDING or from PR_OPENED; *)
(* the same verdict may be announced again.                                *)
Settle(new) ==
    /\ \/ Allowed(status, new)
       \/ Allowed(status, "PR_OPENED") /\ Allowed("PR_OPENED", new)
       \/ status = new
    /\ new \in {"PREVIEW_READY", "FAILED_BUILD", "FAILED_PREVIEW"}
    /\ status' = new
    /\ active' = FALSE
    /\ UNCHANGED approver

(* A queued job that finds the feature ready builds it in one go. *)
BuildAtOnce(new) ==
    /\ CanPerform(status, "start_build")
    /\ new \in {"PR_OPENED", "PREVIEW_READY", "FAILED_BUILD"}
    /\ status' = new
    /\ active' = FALSE
    /\ UNCHANGED approver

ApproveProduct(user) ==
    /\ CanPerform(status, "approve")
    /\ status' = "PRODUCT_APPROVED"
    /\ approver' = user
    /\ UNCHANGED active

LifecycleNext ==
    \/ \E valid \in BOOLEAN : ValidateSpec(valid)
    \/ StartBuild \/ OpenPr
    \/ \E new \in Status : Settle(new) \/ BuildAtOnce(new)
    \/ \E user \in Users : ApproveProduct(user)

LifecycleSpec == LifecycleInit /\ [][LifecycleNext]_lifecycleVars

-----------------------------------------------------------------------------
(* A job is attached only to a build that is running or waits for its      *)
(* preview: nothing else clears active_build_job_id in a later status.     *)
JobOnlyWhileBuilding == active => status \in {"BUILDING", "PR_OPENED"}
=============================================================================

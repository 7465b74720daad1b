---------------------------- MODULE StateMachine ----------------------------
(***************************************************************************)
(* The status machine of a feature request: the statuses, the transition   *)
(* table every handler consults before it assigns a status, the status     *)
(* each named action leads to, and the status a spec validation leads to.  *)
(* This module has constants-level definitions only.                       *)
(***************************************************************************)

Status ==
    {"NEW", "NEEDS_INFO", "READY_FOR_BUILD", "BUILDING", "PR_OPENED",
     "PREVIEW_READY", "PRODUCT_APPROVED", "READY_TO_MERGE", "MERGED",
     "FAILED_SPEC", "FAILED_BUILD", "FAILED_PREVIEW", "NEEDS_HUMAN"}

Terminal == {"MERGED"}

(* The statuses validate_transition accepts after each status. *)
Successors(current) ==
    CASE current = "NEW"              -> {"NEEDS_INFO", "READY_FOR_BUILD", "FAILED_SPEC"}
      [] current = "NEEDS_INFO"       -> {"READY_FOR_BUILD", "FAILED_SPEC"}
      [] current = "READY_FOR_BUILD"  -> {"BUILDING", "NEEDS_INFO"}
      [] current = "BUILDING"         -> {"PR_OPENED", "FAILED_BUILD"}
      [] current = "PR_OPENED"        -> {"PREVIEW_READY", "FAILED_PREVIEW", "FAILED_BUILD"}
      [] current = "PREVIEW_READY"    -> {"PRODUCT_APPROVED", "NEEDS_INFO"}
      [] current = "PRODUCT_APPROVED" -> {"READY_TO_MERGE", "NEEDS_INFO"}
      [] current = "READY_TO_MERGE"   -> {"MERGED", "NEEDS_HUMAN"}
      [] current = "MERGED"           -> {}
      [] current = "FAILED_SPEC"      -> {"NEEDS_INFO", "READY_FOR_BUILD"}
      [] current = "FAILED_BUILD"     -> {"READY_FOR_BUILD", "NEEDS_HUMAN"}
      [] current = "FAILED_PREVIEW"   -> {"READY_FOR_BUILD", "NEEDS_HUMAN"}
      [] current = "NEEDS_HUMAN"      -> {"READY_FOR_BUILD", "NEEDS_INFO"}

(* validate_transition returns rather than raises. *)
Allowed(current, new) == new \in Successors(current)

(* perform_action: the status an action leads to, whatever the current one. *)
ActionResult ==
    [start_build |-> "BUILDING",        opened_pr      |-> "PR_OPENED",
     preview_ready |-> "PREVIEW_READY", fail_build     |-> "FAILED_BUILD",
     fail_preview |-> "FAILED_PREVIEW", approve        |-> "PRODUCT_APPROVED",
     ready_to_merge |-> "READY_TO_MERGE", merge        |-> "MERGED",
     needs_human |-> "NEEDS_HUMAN"]

(* An action a handler performs goes through both functions. *)
CanPerform(current, action) == Allowed(current, ActionResult[action])

(* _status_after_validation: only a status that waits for a spec moves. *)
StatusAfterValidation(current, valid) ==
    IF valid
    THEN IF current \in {"NEW", "NEEDS_INFO", "FAILED_SPEC"} THEN "READY_FOR_BUILD" ELSE current
    ELSE IF current \in {"NEW", "READY_FOR_BUILD", "FAILED_SPEC"} THEN "NEEDS_INFO" ELSE current

=============================================================================

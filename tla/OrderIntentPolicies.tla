------------------------ MODULE OrderIntentPolicies ------------------------
(***************************************************************************)
(* order_lifecycle/policies.py: what an OrderFlowPermission lets through.  *)
(* A permission is the set of its flags that are true.                     *)
(***************************************************************************)
OrderIntentKinds ==
    {"ENTRY", "EXIT", "REDUCE_ONLY", "PROTECTIVE_STOP",
     "PROTECTIVE_TAKE_PROFIT", "EMERGENCY_CLOSE"}

OrderFlowFlags ==
    {"allow_new_entries", "allow_entry_order_cancel", "allow_exit_orders",
     "allow_reduce_only_orders", "allow_exit_order_cancel",
     "allow_emergency_close", "guardian_required",
     "manual_intervention_required"}

ManualInterventionBlocks(kind, perm) ==
    "manual_intervention_required" \in perm /\ kind # "EMERGENCY_CLOSE"

\* _order_intent_allowed_and_reason
KindAllowed(kind, perm) ==
    \/ /\ kind = "ENTRY"
       /\ "allow_new_entries" \in perm
       /\ "guardian_required" \notin perm
    \/ kind = "EXIT" /\ "allow_exit_orders" \in perm
    \/ kind = "REDUCE_ONLY" /\ "allow_reduce_only_orders" \in perm
    \/ /\ kind \in {"PROTECTIVE_STOP", "PROTECTIVE_TAKE_PROFIT"}
       /\ perm \cap {"allow_exit_orders", "allow_reduce_only_orders"} # {}
    \/ kind = "EMERGENCY_CLOSE" /\ "allow_emergency_close" \in perm

\* evaluate_order_intent_permission
OrderAllowed(kind, perm) ==
    ~ManualInterventionBlocks(kind, perm) /\ KindAllowed(kind, perm)

\* evaluate_cancel_intent_permission
CancelAllowed(targetIsEntry, perm) ==
    /\ "manual_intervention_required" \notin perm
    /\ \/ targetIsEntry /\ "allow_entry_order_cancel" \in perm
       \/ ~targetIsEntry /\ "allow_exit_order_cancel" \in perm

\* evaluate_replace_intent_permission.  ReplaceOrderIntent makes the claimed
\* kind of the target an entry exactly when the replacement is one.
ReplaceAllowed(targetIsEntry, kind, perm) ==
    targetIsEntry = (kind = "ENTRY") /\ OrderAllowed(kind, perm)
=============================================================================

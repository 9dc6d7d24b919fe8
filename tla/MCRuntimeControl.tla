-------------------------- MODULE MCRuntimeControl --------------------------
(* RuntimeControl on small instances: switches for the order and for others, *)
(* an exposure of every kind that changes the permission, three policies.    *)
EXTENDS RuntimeControl

MCOwnScope ==
    [kind \in KillSwitchScopeKinds |->
        CASE kind = "VENUE" -> "venue" [] kind = "DECISION_STACK" -> "stack"
          [] kind = "INSTRUMENT" -> "instrument" [] kind = "ACCOUNT" -> "account"
          [] OTHER -> NoSwitch]

MCScopes ==
    {[kind |-> "GLOBAL", id |-> NoSwitch], [kind |-> "ORDER_SUBMISSION", id |-> NoSwitch],
     [kind |-> "ORDER_SUBMISSION", id |-> "elsewhere"],
     [kind |-> "VENUE", id |-> "venue"], [kind |-> "VENUE", id |-> "elsewhere"],
     [kind |-> "DECISION_STACK", id |-> "stack"]}

Exposure(open, mode, fills, orders) ==
    [open |-> open, ownership |-> IF open THEN "DECISION_STACK_MANAGED" ELSE "NONE",
     mode |-> mode, unknown_fills |-> fills, unreconciled |-> orders]
MCExposures ==
    {Exposure(FALSE, "NONE", FALSE, FALSE), Exposure(TRUE, "NONE", FALSE, FALSE),
     Exposure(TRUE, "NONE", TRUE, FALSE), Exposure(TRUE, "MONITOR_ONLY", FALSE, TRUE),
     Exposure(TRUE, "GUARDIAN_ACTIVE", FALSE, FALSE),
     Exposure(TRUE, "MANUAL_INTERVENTION_REQUIRED", FALSE, FALSE)}

Guarding ==
    [block_entries_on_any_gap |-> TRUE, allow_reduce_only_during_gap |-> TRUE,
     allow_emergency_close_during_gap |-> TRUE, allow_cancel_during_gap |-> TRUE,
     guardian_for_gap |-> TRUE, manual_for_unknown_fills |-> TRUE,
     manual_for_ledger_unknown |-> TRUE]
MCSafetyPolicies ==
    {Guarding,
     [Guarding EXCEPT !.allow_reduce_only_during_gap = FALSE,
                      !.allow_emergency_close_during_gap = FALSE,
                      !.manual_for_unknown_fills = FALSE,
                      !.manual_for_ledger_unknown = FALSE],
     [Guarding EXCEPT !.block_entries_on_any_gap = FALSE, !.guardian_for_gap = FALSE]}
=============================================================================

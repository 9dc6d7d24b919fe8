------------------------- MODULE MCExecutionManager -------------------------
(* ExecutionManager with two entries of one scope, an entry that was changed *)
(* after validation and keeps the first one's id, and an exit.               *)
EXTENDS ExecutionManager, TLC

CONSTANTS e1, e2, m1, x1, c1, c2, c3

Of(f) == [i \in Intents |-> f[i]]
MCClientOf == Of(e1 :> c1 @@ e2 :> c2 @@ m1 :> c1 @@ x1 :> c3)
MCKindOf == Of(e1 :> "ENTRY" @@ e2 :> "ENTRY" @@ m1 :> "ENTRY" @@ x1 :> "PROTECTIVE_STOP")
MCScopeOf == Of(e1 :> 1 @@ e2 :> 1 @@ m1 :> 2 @@ x1 :> 1)

\* Everything allowed, and the guardian watching an open position.
MCPermissions ==
    {OrderFlowFlags \ {"guardian_required", "manual_intervention_required"},
     OrderFlowFlags \ {"manual_intervention_required", "allow_entry_order_cancel"}}

NothingChecked ==
    [require_venue |-> FALSE, require_fresh |-> FALSE, context |-> "none",
     freshness |-> "none", order_valid |-> TRUE, semantics_ready |-> TRUE,
     provenance |-> "not_checked"]

AllChecked ==
    [require_venue |-> TRUE, require_fresh |-> TRUE, context |-> "match",
     freshness |-> "fresh", order_valid |-> TRUE, semantics_ready |-> TRUE,
     provenance |-> "passed"]

\* Nothing or everything checked, and everything checked with one check failing.
MCChecks ==
    {NothingChecked, AllChecked,
     [AllChecked EXCEPT !.freshness = "stale"],
     [AllChecked EXCEPT !.context = "none"],
     [AllChecked EXCEPT !.require_venue = FALSE],
     [NothingChecked EXCEPT !.context = "match", !.semantics_ready = FALSE]}
=============================================================================

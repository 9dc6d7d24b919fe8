----------------------------- MODULE TradingGate -----------------------------
(***************************************************************************)
(* What stands between a decision stack and an order, together: the        *)
(* stitched view of its stream (LiveState), the lifecycle and the kill     *)
(* switches (RuntimeControl) and the venue's rules (VenueCapabilities).    *)
(*                                                                         *)
(* The orchestrator that calls them is deferred in the repository.  It is  *)
(* modelled from the arguments the code takes: it derives the data health  *)
(* of evaluate_order_flow_permission from the slice it stitches, and the   *)
(* checks of can_enter_running_after_warmup from the slice and from a      *)
(* capability resolution.                                                  *)
(***************************************************************************)
EXTENDS LiveState, RuntimeControl, VenueCapabilities

CONSTANTS StitchPolicies,    \* LiveStateFreshnessPolicys bots may use
          StitchPolicy,      \* the one the orchestrator uses
          WarmupPolicy,      \* the checks a warm-up requires
          Unknowns           \* what account, orders, fills, ledger leave unknown

(* The four unknown states of RuntimeDataHealthSnapshot. *)
ASSUME UnknownsAssumption ==
    Unknowns \subseteq SUBSET {"account", "orders", "fills", "ledger"}

gateVars == <<liveVars, controlVars, venueVars>>

-----------------------------------------------------------------------------
Stitched == IF hist = NoSlice THEN NoSlice ELSE Stitch(hist, tail, StitchPolicy)

(* RuntimeDataHealthSnapshot of the stitched slice: no slice is no stream, *)
(* a hole is a gap, and any other slice that is not tradable is stale.     *)
DataHealth(unknown) ==
    LET s == Stitched
    IN  [unavailable |-> s = NoSlice,
         gap |-> s # NoSlice /\ ~(s.gap_free /\ s.complete),
         stale |-> s # NoSlice /\ s.gap_free /\ s.complete /\ ~s.tradable,
         over_age |-> tail # NoSlice /\ tail.stale,
         unknown |-> unknown]

(* The checks of the warm-up that hold now. *)
WarmupHolds ==
    LET s == Stitched
    IN  {"elapsed", "source_health", "fee_snapshot", "account_reconciled"}
        \cup (IF s # NoSlice /\ s.tradable THEN {"live_state_fresh"} ELSE {})
        \cup (IF s # NoSlice /\ s.gap_free THEN {"gap_free_state"} ELSE {})
        \cup (IF \E q \in Resolutions : Ready(q)
              THEN {"venue_rules"} ELSE {})

WarmedUp == CanEnterRunning(WarmupPolicy, WarmupHolds)

ControlStep == ControlNext(WarmedUp)

GateInit == LiveInit /\ ControlInit /\ VenueInit

GateNext ==
    \/ LiveNext /\ UNCHANGED <<controlVars, venueVars>>
    \/ ControlStep /\ UNCHANGED <<liveVars, venueVars>>
    \/ VenueNext /\ UNCHANGED <<liveVars, controlVars>>

GateSpec == GateInit /\ [][GateNext]_gateVars

-----------------------------------------------------------------------------
(* The slices bots may trade on are the stream (TradableSliceIsTheStream   *)
(* of LiveState), under every policy.                                      *)
TradableViewsAreTheStream == TradableSliceIsTheStream(StitchPolicies)

(* The permission for any exposure under any policy is sound at every      *)
(* moment: entries only when it is safe, a way out for every exposure, and *)
(* under a policy that blocks on gaps entries only on a view of the stream *)
(* that is whole, fresh and tradable (policies.py, stitcher.py).           *)
PermissionIsSound ==
    \A u \in Unknowns :
        LET d == DataHealth(u)
        IN  \A x \in Exposures, p \in SafetyPolicies :
              LET permission == OrderFlowPermission(x, d, p)
              IN  /\ EntriesOnlyWhenSafe(permission, x, d, p)
                  /\ ExposureKeepsAWayOut(permission, x, d, p)
                  /\ (permission.new_entries /\ p.block_entries_on_any_gap)
                       => Stitched # NoSlice /\ Stitched.tradable
=============================================================================

---------------------------- MODULE MCTradingGate ----------------------------
(***************************************************************************)
(* A decision stack on small instances, in a replay and before an order    *)
(* goes live.  A run looks at one of four scopes: the replay, the stream   *)
(* alone, the venue's rules alone, or the control plane over one event and *)
(* one import.                                                             *)
(***************************************************************************)
EXTENDS TradingGate, MCReplayDecisions, MCRuntimeControl, MCVenueCapabilities

VARIABLE scope
mcVars == <<gateVars, vars, scope>>

MCFreshness ==
    {[stale |-> FALSE, gap_free |-> TRUE, complete |-> TRUE],
     [stale |-> TRUE, gap_free |-> TRUE, complete |-> TRUE],
     [stale |-> FALSE, gap_free |-> FALSE, complete |-> TRUE]}

Strict == [allow_speculative |-> FALSE, require_gap_free |-> TRUE, require_complete |-> TRUE,
           minimum_durability |-> "DURABLE_COMMITTED"]
MCStitchPolicy == Strict
MCStitchPolicies ==
    {Strict,
     [Strict EXCEPT !.allow_speculative = TRUE, !.minimum_durability = "LIVE_ACCEPTED"],
     [Strict EXCEPT !.require_gap_free = FALSE]}

MCUnknowns == {{}, {"ledger"}, {"fills", "orders"}}

MCWarmupPolicy == {"elapsed", "live_state_fresh", "gap_free_state", "venue_rules"}

-----------------------------------------------------------------------------
MCInit == GateInit /\ Init /\ scope \in {"replay", "stream", "venue", "control"}

(* The control plane's one import and one event, before its first step. *)
Imported == imports # {}
ImportFirst ==
    \E c \in Callers : (StartImport(c) /\ jobs'[c][1].item = R1 /\ ~\E d \in Callers : jobs[d] # <<>>)
                       \/ ImportPut(c)
Prepared == Imported /\ hist # NoSlice

StreamScope == scope = "stream" /\ LiveNext /\ UNCHANGED <<controlVars, venueVars, vars>>
VenueScope == scope = "venue" /\ VenueNext /\ UNCHANGED <<liveVars, controlVars, vars>>
ControlScope ==
    /\ scope = "control"
    /\ \/ ~Imported /\ ImportFirst /\ UNCHANGED <<liveVars, controlVars, vars>>
       \/ /\ Imported /\ log = <<>>
          /\ AcceptEvent \/ Commit
          /\ UNCHANGED <<controlVars, venueVars, vars>>
       \/ /\ Imported /\ log # <<>>
          /\ Persist \/ ReadHistory \/ (ReadTail /\ tail'.from = 0)
          /\ UNCHANGED <<controlVars, venueVars, vars>>
       \/ Prepared /\ ControlStep /\ UNCHANGED <<liveVars, venueVars, vars>>

ReplayScope == scope = "replay" /\ ReplayScopeNext /\ UNCHANGED gateVars

MCNext == (ReplayScope \/ StreamScope \/ VenueScope \/ ControlScope) /\ UNCHANGED scope
MCSpec == MCInit /\ [][MCNext]_mcVars
=============================================================================

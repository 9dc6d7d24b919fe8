--------------------------- MODULE RuntimeControl ----------------------------
(***************************************************************************)
(* runtime_control: the lifecycle of the program and of a decision stack,  *)
(* the kill switches, and the permission they give to order flow together  *)
(* with the open exposure and the health of the data                       *)
(* (evaluate_order_flow_permission).                                       *)
(*                                                                         *)
(* The permission is a pure function: it is an operator here, evaluated on *)
(* the state of the control plane and on the caller's exposure, policy and *)
(* data health.  Which of several applying kill switches is reported       *)
(* depends on their activation times only, so the reason is KILL_SWITCH.   *)
(***************************************************************************)
EXTENDS Integers, FiniteSets

CONSTANTS NoSwitch,          \* no switch under an id, no id of a scope
          SwitchIds,         \* ids of kill switches
          Scopes,            \* scopes an operator uses: [kind, id]
          OwnScope,          \* the id the caller asks the store for, by kind
          Exposures,         \* OpenExposureStates a permission is asked for
          SafetyPolicies     \* ExposureSafetyPolicys it is asked under

VARIABLES program_state,     \* ProgramRuntimeState
          stack_state,       \* DecisionStackRuntimeState
          switches,          \* InMemoryKillSwitchStore: id -> switch or NoSwitch
          resync             \* of "program" and "stack", where their last stop
                             \* led: a history variable, read by no action

controlVars == <<program_state, stack_state, switches, resync>>

ProgramStates ==
    {"BOOTING", "RESYNCING_GLOBAL", "WARMING_UP", "RUNNING", "PAUSING", "PAUSED",
     "DRAINING", "STOPPING", "STOPPED", "ERROR", "EMERGENCY_HALTED"}

StackStates ==
    {"DISABLED", "STOPPED", "STARTING", "RESYNCING", "WARMING_UP", "RUNNING",
     "PAUSING", "PAUSED", "DRAINING", "STOPPING", "ERROR", "RESYNC_REQUIRED",
     "EXPOSURE_GUARDIAN_ACTIVE", "STOPPED_BUT_EXPOSURE_GUARDED",
     "MANUAL_INTERVENTION_REQUIRED", "EMERGENCY_HALTED"}

KillSwitchScopeKinds ==
    {"GLOBAL", "VENUE", "INSTRUMENT", "ACCOUNT", "DECISION_STACK",
     "ORDER_SUBMISSION", "EXECUTION"}

(* A switch is saved under one of the kinds, with any id.                  *)
ASSUME ScopesAssumption ==
    \A s \in Scopes :
        /\ s = [kind |-> s.kind, id |-> s.id]
        /\ s.kind \in KillSwitchScopeKinds

-----------------------------------------------------------------------------
(* runtime_transition_allowed. *)

ProgramTransitionAllowed(from, to) ==
    \/ from = to
    \/ /\ to = "RUNNING" => from = "WARMING_UP"
       /\ from \in {"PAUSED", "STOPPED", "ERROR"}
            => to \in {"RESYNCING_GLOBAL", "STOPPED", "EMERGENCY_HALTED"}

\* Mutant: a paused stack may warm up again without a resync.
PausedMayWarmUp(from, to) ==
    \/ from = to
    \/ /\ from # "DISABLED"
       /\ to = "RUNNING" => from = "WARMING_UP"
       /\ from \in {"STOPPED", "RESYNC_REQUIRED", "ERROR"}
            => to \in {"RESYNCING", "STOPPED_BUT_EXPOSURE_GUARDED",
                       "MANUAL_INTERVENTION_REQUIRED", "EMERGENCY_HALTED"}

StackTransitionAllowed(from, to) ==
    \/ from = to
    \/ /\ from # "DISABLED"
       /\ to = "RUNNING" => from = "WARMING_UP"
       /\ from \in {"PAUSED", "STOPPED", "RESYNC_REQUIRED", "ERROR"}
            => to \in {"RESYNCING", "STOPPED_BUT_EXPOSURE_GUARDED",
                       "MANUAL_INTERVENTION_REQUIRED", "EMERGENCY_HALTED"}

(* can_enter_running_after_warmup, for a policy that requires the checks   *)
(* in p and for the checks that hold.                                      *)
CanEnterRunning(p, holds) == p \subseteq holds

-----------------------------------------------------------------------------
(* Kill switches. *)

(* InMemoryKillSwitchStore.list_matching. *)
ListMatching(kind, id) ==
    {k \in SwitchIds :
        /\ switches[k] # NoSwitch
        /\ switches[k] # NoSwitch =>
             /\ switches[k].enabled
             /\ \/ switches[k].scope.kind = "GLOBAL"
                \/ switches[k].scope = [kind |-> kind, id |-> id]}

(* KillSwitchState.applies_to the scopes of the order. *)
AppliesTo(k) ==
    /\ switches[k].enabled
    /\ switches[k].scope.kind \in {"VENUE", "INSTRUMENT", "ACCOUNT", "DECISION_STACK"}
         => switches[k].scope.id = OwnScope[switches[k].scope.kind]

(* The caller asks the store once per kind, with the id of its own scope. *)
MatchingSwitches == UNION {ListMatching(kind, OwnScope[kind]) : kind \in KillSwitchScopeKinds}

KillSwitchBlocks == \E k \in MatchingSwitches : AppliesTo(k)

-----------------------------------------------------------------------------
(* OpenExposureState and RuntimeDataHealthSnapshot. *)

ExposureValid(x) ==
    IF x.open THEN x.ownership \notin {"NONE", "CLOSED"}
              ELSE x.ownership \in {"NONE", "CLOSED"}

ASSUME ExposuresAssumption == \A x \in Exposures : ExposureValid(x)

RequiresEntryBlock(x) ==
    x.mode \in {"BLOCK_ENTRIES", "GUARDIAN_ACTIVE", "REDUCE_ONLY",
                "EMERGENCY_CLOSE_REQUIRED", "MANUAL_INTERVENTION_REQUIRED"}
RequiresGuardian(x) == x.mode \in {"GUARDIAN_ACTIVE", "EMERGENCY_CLOSE_REQUIRED"}
RequiresManual(x) == x.mode = "MANUAL_INTERVENTION_REQUIRED"
RequiresEmergencyClose(x) == x.mode = "EMERGENCY_CLOSE_REQUIRED"

GapOrUnavailable(d) == d.gap \/ d.unavailable
SevereUnknown(d) == d.unknown # {}
Degraded(d) == GapOrUnavailable(d) \/ d.stale \/ SevereUnknown(d) \/ d.over_age

-----------------------------------------------------------------------------
(* evaluate_order_flow_permission. *)

StackStateReason(s) ==
    CASE s = "RUNNING" -> "OK"
      [] s = "DISABLED" -> "STACK_DISABLED"
      [] s \in {"PAUSING", "PAUSED", "DRAINING"} -> "STACK_PAUSED"
      [] s \in {"RESYNCING", "RESYNC_REQUIRED", "STARTING"} -> "STACK_RESYNCING"
      [] s = "WARMING_UP" -> "STACK_WARMING_UP"
      [] OTHER -> "STACK_NOT_RUNNING"

ProtectionModeReason(x) ==
    IF RequiresManual(x) THEN "MANUAL_INTERVENTION_REQUIRED"
    ELSE IF RequiresEntryBlock(x) THEN "OPEN_EXPOSURE_GUARDIAN_REQUIRED"
    ELSE "OK"

(* The first failure of the list, in the order of the code. *)
BlockingReason(x, d, p) ==
    IF KillSwitchBlocks THEN "KILL_SWITCH"
    ELSE IF "EMERGENCY_HALTED" \in {program_state, stack_state} THEN "EMERGENCY_HALTED"
    ELSE IF program_state # "RUNNING" THEN "PROGRAM_NOT_RUNNING"
    ELSE IF StackStateReason(stack_state) # "OK" THEN StackStateReason(stack_state)
    ELSE IF ProtectionModeReason(x) # "OK" THEN ProtectionModeReason(x)
    ELSE IF x.unknown_fills
         THEN IF p.manual_for_unknown_fills THEN "MANUAL_INTERVENTION_REQUIRED"
              ELSE "UNKNOWN_FILLS"
    ELSE IF x.unreconciled THEN "UNRECONCILED_ORDERS"
    ELSE IF "account" \in d.unknown THEN "ACCOUNT_STATE_UNKNOWN"
    ELSE IF "ledger" \in d.unknown
         THEN IF p.manual_for_ledger_unknown THEN "MANUAL_INTERVENTION_REQUIRED"
              ELSE "LEDGER_STATE_UNKNOWN"
    ELSE IF "fills" \in d.unknown THEN "UNKNOWN_FILLS"
    ELSE IF "orders" \in d.unknown THEN "UNRECONCILED_ORDERS"
    ELSE IF d.over_age THEN "STALE_DATA"
    ELSE IF p.block_entries_on_any_gap /\ GapOrUnavailable(d)
         THEN IF x.open THEN "OPEN_EXPOSURE_GUARDIAN_REQUIRED" ELSE "LIVE_DATA_GAP"
    ELSE IF d.stale THEN "STALE_DATA"
    ELSE "OK"

ClosingStates == {"PAUSING", "PAUSED", "DRAINING", "STOPPING", "ERROR", "EMERGENCY_HALTED"}
GuardedStates == {"EXPOSURE_GUARDIAN_ACTIVE", "STOPPED_BUT_EXPOSURE_GUARDED"}

ProtectionOverrides(x) == RequiresEntryBlock(x) /\ ~RequiresManual(x)

AllowProtection(x, d, p) ==
    /\ x.open
    /\ ~(RequiresManual(x) /\ ~Degraded(d))
    /\ \/ ProtectionOverrides(x)
       \/ ~Degraded(d)
       \/ p.allow_reduce_only_during_gap
       \/ program_state \in ClosingStates
       \/ stack_state \in ClosingStates \cup GuardedStates

AllowCancel(x, d, p) ==
    /\ x.open
    /\ ProtectionOverrides(x) \/ ~Degraded(d) \/ p.allow_cancel_during_gap

AllowEmergencyClose(x, d, p) ==
    /\ x.open
    /\ \/ RequiresEmergencyClose(x)
       \/ "STOPPING" \in {program_state, stack_state}
       \/ /\ p.allow_emergency_close_during_gap
          /\ "EMERGENCY_HALTED" \in {program_state, stack_state} \/ Degraded(d)

OrderFlowPermission(x, d, p) ==
    LET reason == BlockingReason(x, d, p)
        manual == reason = "MANUAL_INTERVENTION_REQUIRED" \/ RequiresManual(x)
    IN  [new_entries |-> reason = "OK",
         protection |-> AllowProtection(x, d, p),
         cancel |-> AllowCancel(x, d, p),
         emergency_close |-> AllowEmergencyClose(x, d, p),
         reconciliation |-> reason # "OK" \/ Degraded(d) \/ manual,
         guardian |-> /\ x.open
                      /\ \/ GapOrUnavailable(d) /\ p.guardian_for_gap
                         \/ RequiresGuardian(x),
         manual |-> manual,
         reason |-> reason]

-----------------------------------------------------------------------------
(* Lifecycle transitions (RuntimeStateTransition refuses the others), and  *)
(* the kill switch an operator saves over the one of the same id.          *)

(* A stop owes a resync, and only a resync is one.  A state that halts,    *)
(* guards the exposure or hands it to a person shelters it instead.        *)
AfterEntering(to, was) ==
    CASE to \in {"PAUSED", "STOPPED", "ERROR", "RESYNC_REQUIRED"} -> "owed"
      [] to \in {"RESYNCING", "RESYNCING_GLOBAL"} -> "done"
      [] to \in {"EMERGENCY_HALTED", "STOPPED_BUT_EXPOSURE_GUARDED",
                 "MANUAL_INTERVENTION_REQUIRED"} -> "sheltered"
      [] OTHER -> was

ProgramTransition(to) ==
    /\ program_state # to /\ ProgramTransitionAllowed(program_state, to)
    /\ program_state' = to
    /\ resync' = [resync EXCEPT !["program"] = AfterEntering(to, @)]
    /\ UNCHANGED <<stack_state, switches>>

StackTransition(to) ==
    /\ stack_state # to /\ StackTransitionAllowed(stack_state, to)
    /\ stack_state' = to
    /\ resync' = [resync EXCEPT !["stack"] = AfterEntering(to, @)]
    /\ UNCHANGED <<program_state, switches>>

SaveKillSwitch(k, scope, enabled) ==
    /\ switches' = [switches EXCEPT ![k] = [scope |-> scope, enabled |-> enabled]]
    /\ UNCHANGED <<program_state, stack_state, resync>>

(* A booting program has not stopped yet; a stack starts out stopped.      *)
ControlInit ==
    /\ program_state = "BOOTING" /\ stack_state = "STOPPED"
    /\ switches = [k \in SwitchIds |-> NoSwitch]
    /\ resync = [who \in {"program", "stack"} |->
                    IF who = "program" THEN "starting" ELSE "owed"]

(* The checks of can_enter_running_after_warmup guard RUNNING.             *)
ControlNext(warmed_up) ==
    \/ \E to \in ProgramStates : /\ to = "RUNNING" => warmed_up
                                 /\ ProgramTransition(to)
    \/ \E to \in StackStates : /\ to = "RUNNING" => warmed_up
                               /\ StackTransition(to)
    \/ \E k \in SwitchIds, s \in Scopes, on \in BOOLEAN : SaveKillSwitch(k, s, on)

(* The control plane by itself, whose warm-ups always succeed.             *)
ControlSpec == ControlInit /\ [][ControlNext(TRUE)]_controlVars

-----------------------------------------------------------------------------
SwitchApplies(k) == switches[k] # NoSwitch /\ AppliesTo(k)

(* A submission or execution switch saved with an id the caller does not   *)
(* ask for: it applies to every order, and list_matching does not find it. *)
Unlisted(k) ==
    LET scope == switches[k].scope
    IN  scope.kind \in {"ORDER_SUBMISSION", "EXECUTION"} /\ scope.id # OwnScope[scope.kind]

(* New entries are permitted only while the program and the stack run, and *)
(* neither does so after a stop without a resync or a halted, guarded or   *)
(* manual state in between; under no kill switch that applies to the       *)
(* order, but for the submission and execution switches the store does not *)
(* list; with a reconciled exposure, and on data without unknown state or  *)
(* age beyond the policy (evaluate_order_flow_permission,                  *)
(* _stack_transition_allowed).  The documents promise more:                *)
(* EntriesBlockedAsDocumented.                                             *)
EntriesOnlyWhenSafe(permission, x, d, p) ==
    permission.new_entries =>
        /\ program_state = "RUNNING" /\ stack_state = "RUNNING"
        /\ "owed" \notin {resync["program"], resync["stack"]}
        /\ \A k \in SwitchIds : SwitchApplies(k) => Unlisted(k)
        /\ ~x.unknown_fills /\ ~x.unreconciled /\ ~RequiresEntryBlock(x)
        /\ Degraded(d) => GapOrUnavailable(d) /\ ~p.block_entries_on_any_gap

(* Whatever stops entries, an open exposure keeps a way out: orders that   *)
(* reduce it, an emergency close, a reconciliation, or a call for a        *)
(* person; and one whose data has a hole is guarded when the policy asks.  *)
ExposureKeepsAWayOut(permission, x, d, p) ==
    x.open => /\ \/ permission.protection \/ permission.emergency_close
                 \/ permission.reconciliation \/ permission.manual
              /\ ~permission.protection => permission.reconciliation
              /\ (GapOrUnavailable(d) /\ p.guardian_for_gap) => permission.guardian

Healthy == [unavailable |-> FALSE, gap |-> FALSE, stale |-> FALSE, over_age |-> FALSE,
            unknown |-> {}]

(* runtime_control/README.md: "Startup, resume, restart, and resync flows  *)
(* must pass through resync and warm-up before a stack may return to       *)
(* RUNNING", and entries are blocked when a kill switch of the submission  *)
(* or execution domain makes the system unsafe.  Each of the three         *)
(* conditions below follows from these sentences wherever entries are      *)
(* permitted; the property asks for only one of them, so a state that      *)
(* violates it contradicts all three: a program that started without a     *)
(* resync, a stack that came back from a stop without one, and a switch    *)
(* that applies_to every order and blocks none.                            *)
EntriesBlockedAsDocumented ==
    \A x \in Exposures, p \in SafetyPolicies :
        OrderFlowPermission(x, Healthy, p).new_entries =>
            \/ resync["program"] = "done"
            \/ resync["stack"] = "done"
            \/ \A k \in SwitchIds : ~SwitchApplies(k)
=============================================================================
